---------------------------- MODULE RunLifecycle ----------------------------
(***************************************************************************)
(* What the run queue promises the rest of the system about one run, with  *)
(* no workers, leases, heartbeats or audit rows: a run waits, is executed  *)
(* by one executor at a time at most MaxAttempts times, and once it has    *)
(* settled it never runs again.                                            *)
(***************************************************************************)
EXTENDS Naturals

CONSTANTS Runs, MaxAttempts

VARIABLES stage, tries

Init == /\ stage = [r \in Runs |-> "absent"]
        /\ tries = [r \in Runs |-> 0]

Moves(r, from, to) == stage[r] = from /\ stage' = [stage EXCEPT ![r] = to]

\* A run is created.
Submit(r) == Moves(r, "absent", "waiting") /\ UNCHANGED tries

\* An executor takes it.
Begin(r) == /\ Moves(r, "waiting", "executing")
            /\ tries[r] < MaxAttempts
            /\ tries' = [tries EXCEPT ![r] = @ + 1]

\* The run is cancelled while it waits.
Withdraw(r) == Moves(r, "waiting", "settled") /\ UNCHANGED tries

\* Attempts end, several at once when stale runs are recovered together: a run
\* waits again only while another attempt is left, or else it settles.
EndAttempts(S) ==
  /\ \A r \in S : stage[r] = "executing"
  /\ \E to \in [S -> {"waiting", "settled"}] :
       /\ \A r \in S : to[r] = "waiting" => tries[r] < MaxAttempts
       /\ stage' = [r \in Runs |-> IF r \in S THEN to[r] ELSE stage[r]]
  /\ UNCHANGED tries

Next == \/ \E r \in Runs : Submit(r) \/ Begin(r) \/ Withdraw(r)
        \/ \E S \in SUBSET Runs : EndAttempts(S)

Spec == Init /\ [][Next]_<<stage, tries>>
=============================================================================
