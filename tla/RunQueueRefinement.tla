------------------------- MODULE RunQueueRefinement -------------------------
(***************************************************************************)
(* The run queue implements RunLifecycle when heartbeats are timely and    *)
(* nobody retries a run by hand.                                           *)
(***************************************************************************)
EXTENDS RunQueue

\* A run executes from its claim until its owner lets go of it.  The status
\* alone does not tell: a cancellation that races with the claim leaves a
\* cancelled run in the hands of a worker, which writes its own result yet.
Executing(r) == \/ run[r].status = "running"
                \/ \E w \in Workers : Owns(w, r) /\ Attends(w, r)

Stage(r) == CASE run[r].status = "absent"  -> "absent"
              [] Executing(r)              -> "executing"
              [] OTHER                     -> IF run[r].status = "queued" THEN "waiting"
                                                                          ELSE "settled"

Lifecycle == INSTANCE RunLifecycle WITH
  stage <- [r \in Runs |-> Stage(r)],
  tries <- [r \in Runs |-> run[r].attempts]

\* A run passes through waiting, execution and settlement as RunLifecycle
\* says: one executor, at most MaxAttempts attempts, nothing after settlement,
\* however claims, cancellations, finalizations, recoveries and crashes
\* interleave (repository.py and reliable_worker.py together).
ImplementsLifecycle == Lifecycle!Spec
=============================================================================
