--------------------------- MODULE RunQueueProofs ---------------------------
(***************************************************************************)
(* The bookkeeping of the run queue is sound for every number of runs,     *)
(* workers and clients, every bound and every timing: TypeOK,              *)
(* AttemptLedger, LeaseMatchesLedger, AttemptHasOneExecutor and AuditKept  *)
(* hold of Spec.  They are proved together, since each needs the others in *)
(* the step from one state to the next: IInv is inductive.                 *)
(*                                                                         *)
(* What the queue promises besides when heartbeats are timely and nobody   *)
(* retries a run by hand: one worker at a time is busy with a run, the     *)
(* audit rows agree with it, and the queue implements RunLifecycle, for    *)
(* any number of runs, workers, requests, cancellations, crashes and       *)
(* restarts.  LInv, on top of IInv, says what a worker may rely on while   *)
(* it attends a run although it holds no lock on the row: the row is still *)
(* its own.                                                                *)
(***************************************************************************)
EXTENDS RunQueueRefinement, TLAPS

IInv == TypeOK /\ AttemptLedger /\ LeaseMatchesLedger /\ AttemptHasOneExecutor /\ Bookkeeping

-----------------------------------------------------------------------------
(* The operators of RunRow *)

\* Zero and the attempt numbers fit the counter column.
LEMMA AttemptNumbers == 0 \in 0..MaxClaims /\ AttemptNo \subseteq 0..MaxClaims
BY BoundAssumption DEF AttemptNo

\* What the services write to a row is a row.
LEMMA NewRowType == AbsentRow \in Row /\ NewRow \in Row
<1>1. AbsentRow \in Row
  BY AttemptNumbers DEF Row, AbsentRow
<1> QED BY <1>1 DEF Row, NewRow, ActiveStatuses

\* claim_next_run writes a row.
LEMMA ClaimedType ==
  ASSUME NEW row \in Row, NEW w \in Workers, NEW n \in AttemptNo
  PROVE  Claimed(row, w, n) \in Row
BY AttemptNumbers DEF Row, Claimed, ActiveStatuses

\* request_cancel and queue_retry write a row.
LEMMA RequestTypes ==
  ASSUME NEW row \in Row
  PROVE  CancelRequested(row) \in Row /\ QueuedForRetry(row) \in Row
<1>1. CancelRequested(row) \in Row
  BY DEF Row, CancelRequested, Unlocked, TerminalStatuses
<1>2. QueuedForRetry(row) \in Row
  BY DEF Row, QueuedForRetry, Unlocked, ActiveStatuses
<1> QED BY <1>1, <1>2

\* fail_or_requeue writes a row, whatever the failure.
LEMMA FailedOrRequeuedType ==
  ASSUME NEW row \in Row, NEW status \in {"failed", "timed_out", "cancelled"},
         NEW retryable \in BOOLEAN
  PROVE  FailedOrRequeued(row, status, retryable) \in Row
BY DEF Row, FailedOrRequeued, Unlocked, Retriable, TerminalStatuses, ActiveStatuses

\* The end of finalize_active writes a row, whatever the final status.
LEMMA FinalizedType ==
  ASSUME NEW row \in Row, NEW status \in ExitStates, NEW retryable \in BOOLEAN
  PROVE  Finalized(row, status, retryable) \in Row
<1>1. CASE status = "succeeded"
  BY <1>1 DEF Finalized, Row, Unlocked, TerminalStatuses
<1>2. CASE status = "cancelled"
  <2>1. [row EXCEPT !.cancel_requested = TRUE] \in Row
    BY DEF Row
  <2> QED BY <1>2, <2>1, FailedOrRequeuedType DEF Finalized
<1>3. CASE status \in {"failed", "timed_out"}
  BY <1>3, FailedOrRequeuedType DEF Finalized
<1> QED BY <1>1, <1>2, <1>3 DEF ExitStates

\* A wish that keeps the attempt counter of the row it was made from and gives
\* nobody the lock.
KeepsLease(read, new) ==
  /\ new \in Row
  /\ new.attempts = read.attempts
  /\ new.locked_by \in {read.locked_by, None}
  /\ new.status = "absent" => read.status = "absent"

\* Flushing such a wish keeps the counter and gives nobody the lock either,
\* whatever has happened to the row in between.
LEMMA FlushKeepsLease ==
  ASSUME NEW row \in Row, NEW read \in Row, NEW new, KeepsLease(read, new)
  PROVE  KeepsLease(row, Flush(row, read, new))
BY DEF KeepsLease, Flush, Written, Row

\* Cancelling and retrying give nobody the lock and count no attempt.
LEMMA RequestsKeepLease ==
  ASSUME NEW row \in Row
  PROVE  /\ KeepsLease(row, CancelRequested(row))
         /\ KeepsLease(row, QueuedForRetry(row))
         /\ row.attempts = 0 => KeepsLease(row, NewRow)
<1>1. KeepsLease(row, CancelRequested(row))
  BY RequestTypes DEF KeepsLease, CancelRequested, Unlocked, Row
<1>2. KeepsLease(row, QueuedForRetry(row))
  BY RequestTypes DEF KeepsLease, QueuedForRetry, Unlocked, Row
<1>3. row.attempts = 0 => KeepsLease(row, NewRow)
  BY NewRowType DEF KeepsLease, NewRow, AbsentRow
<1> QED BY <1>1, <1>2, <1>3

\* Neither does failing or requeueing a run.
LEMMA FailedOrRequeuedKeepsLease ==
  ASSUME NEW row \in Row, NEW status \in {"failed", "timed_out", "cancelled"},
         NEW retryable \in BOOLEAN
  PROVE  KeepsLease(row, FailedOrRequeued(row, status, retryable))
<1> DEFINE new == FailedOrRequeued(row, status, retryable)
<1>1. /\ Unlocked(row) \in Row
      /\ Unlocked(row).attempts = row.attempts
      /\ Unlocked(row).locked_by = None
  BY DEF Unlocked, Row
<1>2. new.attempts = row.attempts /\ new.locked_by = None
  BY <1>1 DEF FailedOrRequeued, Row
<1>3. new.status # "absent"
  BY <1>1 DEF FailedOrRequeued, Row
<1>4. new \in Row
  BY FailedOrRequeuedType
<1> QED BY <1>2, <1>3, <1>4 DEF KeepsLease

\* Nor finalizing it.
LEMMA FinalizedKeepsLease ==
  ASSUME NEW row \in Row, NEW status \in ExitStates, NEW retryable \in BOOLEAN
  PROVE  KeepsLease(row, Finalized(row, status, retryable))
<1>1. CASE status = "succeeded"
  BY <1>1, FinalizedType DEF KeepsLease, Finalized, Unlocked, Row
<1>2. CASE status = "cancelled"
  <2> DEFINE flagged == [row EXCEPT !.cancel_requested = TRUE]
  <2>1. flagged \in Row /\ KeepsLease(row, flagged)
    BY DEF Row, KeepsLease
  <2>2. KeepsLease(flagged, FailedOrRequeued(flagged, "cancelled", FALSE))
    BY <2>1, FailedOrRequeuedKeepsLease
  <2> HIDE DEF flagged
  <2>3. KeepsLease(row, FailedOrRequeued(flagged, "cancelled", FALSE))
    BY <2>1, <2>2 DEF KeepsLease
  <2> QED BY <1>2, <2>3 DEF Finalized, flagged
<1>3. CASE status \in {"failed", "timed_out"}
  BY <1>3, FailedOrRequeuedKeepsLease DEF Finalized
<1> QED BY <1>1, <1>2, <1>3 DEF ExitStates

-----------------------------------------------------------------------------
(* What most steps leave alone *)

\* A worker inside a handler works on a run; so does a request.
LEMMA JobShape ==
  ASSUME NEW j \in Job \cup {NoJob}, j.op # "none"
  PROVE  /\ j \in Job /\ j.run \in Runs /\ j.read \in Row
         /\ j.number \in 0..MaxClaims
<1>1. j \in Job
  BY DEF NoJob
<1> QED BY <1>1, AttemptNumbers DEF Job

\* The call of a client that is inside a request has the fields of one.
LEMMA CallShape ==
  ASSUME NEW c \in Call \cup {NoCall}, c.op # "none"
  PROVE  c \in Call /\ c.run \in Runs /\ c.read \in Row
BY DEF NoCall, Call

RowsKept == \A r \in Runs : KeepsLease(run[r], run'[r])

AuditRowsKept ==
  \A r \in Runs, n \in AttemptNo :
    /\ attempt'[r][n].worker_id = attempt[r][n].worker_id
    /\ attempt'[r][n].status = "none" <=> attempt[r][n].status = "none"

ChildrenKept ==
  \A r \in Runs, n \in AttemptNo :
    /\ child'[r][n] = "none" <=> child[r][n] = "none"
    /\ child[r][n] \in ExitStates => child'[r][n] \in ExitStates

\* No attempt is being started or monitored that was not before.
DutiesKept ==
  /\ \A w \in Workers, r \in Runs : active'[w][r] \in {active[w][r], 0}
  /\ \A w \in Workers :
       \/ job'[w] = job[w]
       \/ job'[w].op \in {"none", "refused", "startfail"}
       \/ /\ job'[w].op = "finalize"
          /\ job'[w].forced = "none" =>
               /\ job'[w].number \in AttemptNo
               /\ child'[job'[w].run][job'[w].number] \in ExitStates
  /\ \A c \in Clients : call'[c] = call[c] \/ call'[c].op # "create"

\* A step that keeps all of this keeps the invariant.
LEMMA QuietStep ==
  ASSUME IInv, TypeOK', RowsKept, AuditRowsKept, ChildrenKept, DutiesKept
  PROVE  IInv'
<1> USE DEF IInv
<1>1. AttemptLedger'
  BY DEF AttemptLedger, RowsKept, KeepsLease, AuditRowsKept
<1>2. LeaseMatchesLedger'
  BY DEF LeaseMatchesLedger, RowsKept, KeepsLease, AuditRowsKept
<1>3. AttemptHasOneExecutor'
  <2> SUFFICES ASSUME NEW w \in Workers
               PROVE  /\ \A r \in Runs :
                           active'[w][r] # 0 => attempt'[r][active'[w][r]].worker_id = w
                      /\ job'[w].op \in {"start", "launch"} =>
                           /\ job'[w].number \in AttemptNo
                           /\ attempt'[job'[w].run][job'[w].number].worker_id = w
                           /\ child'[job'[w].run][job'[w].number] = "none"
    BY DEF AttemptHasOneExecutor
  <2>1. \A r \in Runs : active'[w][r] # 0 => attempt'[r][active'[w][r]].worker_id = w
    <3> SUFFICES ASSUME NEW r \in Runs, active'[w][r] # 0
                 PROVE  attempt'[r][active'[w][r]].worker_id = w
      OBVIOUS
    <3>1. active'[w][r] = active[w][r] /\ active[w][r] \in AttemptNo
      BY DEF DutiesKept, TypeOK, AttemptNo
    <3> QED BY <3>1 DEF AttemptHasOneExecutor, AuditRowsKept
  <2>2. ASSUME job'[w].op \in {"start", "launch"}
        PROVE  /\ job'[w].number \in AttemptNo
               /\ attempt'[job'[w].run][job'[w].number].worker_id = w
               /\ child'[job'[w].run][job'[w].number] = "none"
    <3>1. job'[w] = job[w]
      BY <2>2 DEF DutiesKept
    <3>2. job[w].run \in Runs
      BY <2>2, <3>1, JobShape DEF TypeOK
    <3> QED BY <2>2, <3>1, <3>2 DEF AttemptHasOneExecutor, AuditRowsKept, ChildrenKept
  <2> QED BY <2>1, <2>2
<1>4. UnusedIsBlank'
  <2>1. \A r \in Runs, n \in AttemptNo :
          attempt'[r][n].status = "none"
            => attempt'[r][n].worker_id = None /\ child'[r][n] = "none"
    BY DEF Bookkeeping, UnusedIsBlank, AuditRowsKept, ChildrenKept
  <2>2. \A r \in Runs : run'[r].status = "absent" => run'[r].attempts = 0
    BY DEF Bookkeeping, UnusedIsBlank, RowsKept, KeepsLease
  <2>3. \A c \in Clients : call'[c].op = "create" => call'[c].read.attempts = 0
    BY DEF Bookkeeping, UnusedIsBlank, DutiesKept
  <2> QED BY <2>1, <2>2, <2>3 DEF UnusedIsBlank
<1>5. StartsItsLatest'
  <2>1. ASSUME NEW w \in Workers, job'[w].op = "start", NEW n \in AttemptNo,
               attempt'[job'[w].run][n].worker_id = w
        PROVE  n <= job'[w].number
    <3>1. job'[w] = job[w]
      BY <2>1 DEF DutiesKept
    <3>2. job[w].run \in Runs
      BY <2>1, <3>1, JobShape DEF TypeOK
    <3> QED BY <2>1, <3>1, <3>2 DEF Bookkeeping, StartsItsLatest, AuditRowsKept
  <2>2. ASSUME NEW w \in Workers, NEW r \in Runs, active'[w][r] # 0
        PROVE  child'[r][active'[w][r]] # "none"
    <3>1. active'[w][r] = active[w][r] /\ active[w][r] \in AttemptNo
      BY <2>2 DEF DutiesKept, TypeOK, AttemptNo
    <3> QED BY <2>2, <3>1 DEF Bookkeeping, StartsItsLatest, ChildrenKept
  <2> QED BY <2>1, <2>2 DEF StartsItsLatest
<1>6. FinalizesExited'
  <2> SUFFICES ASSUME NEW w \in Workers, job'[w].op = "finalize", job'[w].forced = "none"
               PROVE  /\ job'[w].number \in AttemptNo
                      /\ child'[job'[w].run][job'[w].number] \in ExitStates
    BY DEF FinalizesExited
  <2>1. CASE job'[w] = job[w]
    <3>1. job[w].run \in Runs
      BY <2>1, JobShape DEF TypeOK
    <3> QED BY <2>1, <3>1 DEF Bookkeeping, FinalizesExited, ChildrenKept
  <2> QED BY <2>1 DEF DutiesKept
<1> QED BY <1>1, <1>2, <1>3, <1>4, <1>5, <1>6 DEF Bookkeeping

\* A step that rewrites one row, and one that rewrites none.
LEMMA OneRowKept ==
  ASSUME run \in [Runs -> Row], NEW r \in Runs, NEW new, KeepsLease(run[r], new),
         run' = [run EXCEPT ![r] = new]
  PROVE  RowsKept /\ run' \in [Runs -> Row]
BY DEF RowsKept, KeepsLease

\* A step that leaves both tables alone keeps the lease.
LEMMA NothingKept ==
  ASSUME TypeOK
  PROVE  /\ UNCHANGED run => RowsKept
         /\ UNCHANGED attempt => AuditRowsKept
         /\ UNCHANGED child => ChildrenKept
         /\ UNCHANGED <<active, job, call>> => DutiesKept
<1>1. UNCHANGED run => RowsKept
  BY DEF TypeOK, RowsKept, KeepsLease
<1>2. UNCHANGED attempt => AuditRowsKept
  BY DEF AuditRowsKept
<1>3. UNCHANGED child => ChildrenKept
  BY DEF ChildrenKept
<1>4. UNCHANGED <<active, job, call>> => DutiesKept
  BY DEF DutiesKept
<1> QED BY <1>1, <1>2, <1>3, <1>4

-----------------------------------------------------------------------------
(* API requests *)

\* The commit of a request is quiet.
LEMMA ReplyStep ==
  ASSUME IInv, NEW c \in Clients, NEW op, op # "none", NEW wanted,
         KeepsLease(call[c].read, wanted), Reply(c, op, wanted)
  PROVE  IInv'
<1> USE DEF IInv
<1>1. call[c].run \in Runs /\ call[c].read \in Row
  BY CallShape DEF TypeOK, Reply
<1>2. KeepsLease(run[call[c].run], Flush(run[call[c].run], call[c].read, wanted))
  BY <1>1, FlushKeepsLease DEF TypeOK
<1>3. RowsKept /\ run' \in [Runs -> Row]
  BY <1>1, <1>2, OneRowKept DEF TypeOK, Reply
<1>4. TypeOK'
  BY <1>3 DEF TypeOK, Reply, workerVars, boundVars
<1>5. DutiesKept
  BY DEF TypeOK, DutiesKept, Reply, workerVars, NoCall
<1> QED BY <1>3, <1>4, <1>5, NothingKept, QuietStep DEF Reply

\* So is the read a request starts with.
LEMMA EnterStep ==
  ASSUME IInv, NEW c \in Clients, NEW r \in Runs, NEW op \in {"create", "cancel", "retry"},
         op = "create" => run[r].attempts = 0,
         Enter(c, op, r), UNCHANGED <<dbVars, workerVars, child>>,
         {cancels, retries, outages}' \subseteq Nat
  PROVE  IInv'
<1> USE DEF IInv, dbVars, workerVars
<1>1. TypeOK'
  <2>1. call' \in [Clients -> Call \cup {NoCall}]
    BY DEF TypeOK, Enter, Call
  <2> QED BY <2>1 DEF TypeOK
<1>2. CASE op # "create"
  <2>1. DutiesKept
    BY <1>2 DEF TypeOK, DutiesKept, Enter
  <2> QED BY <1>1, <2>1, NothingKept, QuietStep
<1>3. CASE op = "create"
  <2>1. \A d \in Clients : call'[d].op = "create" => call'[d].read.attempts = 0
    BY <1>3 DEF TypeOK, Enter, Bookkeeping, UnusedIsBlank
  <2>2. Bookkeeping'
    BY <2>1 DEF Bookkeeping, UnusedIsBlank, StartsItsLatest, FinalizesExited
  <2> QED BY <1>1, <2>2 DEF AttemptLedger, LeaseMatchesLedger, AttemptHasOneExecutor
<1> QED BY <1>2, <1>3

\* Every step of an API request keeps the invariant and the audit rows.
LEMMA ApiSteps ==
  ASSUME IInv, NEW c \in Clients, ApiStep(c)
  PROVE  IInv'
<1> USE DEF IInv
<1>1. ASSUME NEW r \in Runs, CreateCheck(c, r) PROVE IInv'
  <2>1. run[r].attempts = 0
    BY <1>1 DEF CreateCheck, Bookkeeping, UnusedIsBlank
  <2> QED BY <1>1, <2>1, EnterStep DEF CreateCheck, boundVars, TypeOK
<1>2. ASSUME NEW r \in Runs, CancelRead(c, r) PROVE IInv'
  BY <1>2, EnterStep DEF CancelRead, TypeOK
<1>3. ASSUME NEW r \in Runs, RetryRead(c, r) PROVE IInv'
  BY <1>3, EnterStep DEF RetryRead, TypeOK
<1>4. CASE CreateCommit(c)
  <2>1. call[c].read \in Row /\ call[c].read.attempts = 0
    BY <1>4, CallShape DEF CreateCommit, Reply, TypeOK, Bookkeeping, UnusedIsBlank
  <2> QED BY <1>4, <2>1, RequestsKeepLease, ReplyStep DEF CreateCommit
<1>5. CASE CancelCommit(c)
  <2>1. call[c].read \in Row
    BY <1>5, CallShape DEF CancelCommit, Reply, TypeOK
  <2> QED BY <1>5, <2>1, RequestsKeepLease, ReplyStep DEF CancelCommit
<1>6. CASE RetryCommit(c)
  <2>1. call[c].read \in Row
    BY <1>6, CallShape DEF RetryCommit, Reply, TypeOK
  <2> QED BY <1>6, <2>1, RequestsKeepLease, ReplyStep DEF RetryCommit
<1> QED BY <1>1, <1>2, <1>3, <1>4, <1>5, <1>6 DEF ApiStep

-----------------------------------------------------------------------------
(* Claiming and starting *)

\* Max picks the member of a set that bounds the others.
LEMMA MaxIs ==
  ASSUME NEW S \in SUBSET Int, NEW m \in S, \A n \in S : m >= n
  PROVE  Max(S) = m
<1>1. /\ Max(S) \in S
      /\ \A n \in S : Max(S) >= n
  BY DEF Max
<1>2. Max(S) \in Int /\ m \in Int
  BY <1>1
<1>3. Max(S) >= m /\ m >= Max(S)
  BY <1>1
<1> HIDE DEF Max
<1> QED BY <1>2, <1>3

\* claim_next_run numbers attempts consecutively: the larger of the counter and
\* the last audit row is the counter.
LEMMA NextAttemptNumber ==
  ASSUME TypeOK, AttemptLedger, NEW r \in Runs
  PROVE  NextAttempt(r) = run[r].attempts + 1
<1> DEFINE a == run[r].attempts
           used == {n \in AttemptNo : attempt[r][n].status # "none"}
<1>1. a \in 0..MaxClaims
  BY DEF TypeOK, Row
<1>2. used = {n \in AttemptNo : n <= a}
  BY DEF AttemptLedger
<1>3. /\ {0} \cup used \in SUBSET Int
      /\ a \in {0} \cup used
      /\ \A n \in {0} \cup used : a >= n
  BY <1>1, <1>2, BoundAssumption DEF AttemptNo
<1>4. LastAttempt(r) = a
  <2> HIDE DEF a, used
  <2>1. Max({0} \cup used) = a
    BY <1>3, MaxIs
  <2> QED BY <2>1 DEF LastAttempt, used
<1>5. Max({a, a}) = a
  <2> HIDE DEF a
  <2> QED BY <1>1, MaxIs
<1> QED BY <1>4, <1>5 DEF NextAttempt

\* claim_next_run: the one step that counts an attempt and takes a lock.
LEMMA ClaimStep ==
  ASSUME IInv, NEW w \in Workers, NEW r \in Runs, Claim(w, r)
  PROVE  IInv'
<1> USE DEF IInv
<1> DEFINE n == run[r].attempts + 1
<1>1. /\ n = NextAttempt(r)
      /\ n \in AttemptNo
      /\ run[r].attempts \in Nat
  <2>1. run[r].attempts \in Nat
    BY DEF TypeOK, Row
  <2>2. n = NextAttempt(r)
    BY NextAttemptNumber
  <2>3. NextAttempt(r) <= MaxClaims
    BY DEF Claim
  <2> QED BY <2>1, <2>2, <2>3, BoundAssumption DEF AttemptNo
<1>2. /\ run' = [run EXCEPT ![r] = Claimed(@, w, n)]
      /\ attempt' = [attempt EXCEPT ![r][n] = [status |-> "running", worker_id |-> w]]
      /\ job' = [job EXCEPT ![w] = [op |-> "start", run |-> r, number |-> n,
                                    forced |-> "none", read |-> AbsentRow]]
      /\ UNCHANGED <<lastRun, mode, active, sent, child, call, boundVars>>
  BY <1>1 DEF Claim
<1>3. /\ run[r].status = "queued"
      /\ run[r] \in Row
      /\ Claimed(run[r], w, n) \in Row
  BY <1>1, ClaimedType DEF Claim, Claimable, TypeOK
<1>4. /\ attempt[r][n].status = "none"
      /\ attempt[r][n].worker_id = None
      /\ child[r][n] = "none"
  BY <1>1 DEF AttemptLedger, Bookkeeping, UnusedIsBlank, TypeOK, Row, AttemptNo
<1>5. /\ Claimed(run[r], w, n).attempts = n
      /\ Claimed(run[r], w, n).locked_by = w
      /\ Claimed(run[r], w, n).status = "running"
  BY <1>3 DEF Claimed, Row
<1> HIDE DEF n
<1>6. TypeOK'
  <2>1. job' \in [Workers -> Job \cup {NoJob}]
    BY <1>1, <1>2, NewRowType DEF TypeOK, Job
  <2>2. attempt' \in [Runs -> [AttemptNo -> AttemptRow]]
    BY <1>1, <1>2 DEF TypeOK, AttemptRow, AttemptStatuses
  <2> QED BY <1>2, <1>3, <2>1, <2>2 DEF TypeOK, boundVars
<1>7. AttemptLedger'
  <2> SUFFICES ASSUME NEW q \in Runs, NEW m \in AttemptNo
               PROVE  attempt'[q][m].status # "none" <=> m <= run'[q].attempts
    BY DEF AttemptLedger
  <2>1. CASE q # r
    BY <2>1, <1>2 DEF AttemptLedger, TypeOK
  <2>2. CASE q = r /\ m # n
    <3>1. run'[q].attempts = n /\ attempt'[q][m] = attempt[q][m]
      BY <2>2, <1>2, <1>5 DEF TypeOK
    <3>2. m <= run[r].attempts <=> m <= n
      BY <2>2, <1>1 DEF n, AttemptNo
    <3> QED BY <2>2, <3>1, <3>2 DEF AttemptLedger
  <2>3. CASE q = r /\ m = n
    <3>1. run'[q].attempts = n /\ attempt'[q][m].status = "running"
      BY <2>3, <1>1, <1>2, <1>5 DEF TypeOK
    <3> QED BY <2>3, <3>1, <1>1 DEF AttemptNo
  <2> QED BY <2>1, <2>2, <2>3
<1>8. LeaseMatchesLedger'
  <2> SUFFICES ASSUME NEW q \in Runs, run'[q].locked_by # None
               PROVE  /\ run'[q].attempts \in AttemptNo
                      /\ attempt'[q][run'[q].attempts].worker_id = run'[q].locked_by
    BY DEF LeaseMatchesLedger
  <2>1. CASE q # r
    BY <2>1, <1>2 DEF LeaseMatchesLedger, TypeOK
  <2>2. CASE q = r
    BY <2>2, <1>1, <1>2, <1>5 DEF TypeOK
  <2> QED BY <2>1, <2>2
\* Only the audit row of the new attempt changes hands, and it was nobody's.
<1>9. \A q \in Runs, m \in AttemptNo :
         \/ attempt'[q][m] = attempt[q][m]
         \/ /\ q = r /\ m = n
            /\ attempt'[q][m].worker_id = w /\ attempt[q][m].worker_id = None
  BY <1>1, <1>2, <1>4 DEF TypeOK
<1>10. \A v \in Workers : v # w => job'[v] = job[v]
  BY <1>2 DEF TypeOK
<1>11. /\ job'[w].op = "start" /\ job'[w].run = r /\ job'[w].number = n
      /\ attempt'[r][n].worker_id = w
  BY <1>1, <1>2 DEF TypeOK
<1>12. AttemptHasOneExecutor'
  <2> SUFFICES ASSUME NEW v \in Workers
               PROVE  /\ \A q \in Runs :
                           active'[v][q] # 0 => attempt'[q][active'[v][q]].worker_id = v
                      /\ job'[v].op \in {"start", "launch"} =>
                           /\ job'[v].number \in AttemptNo
                           /\ attempt'[job'[v].run][job'[v].number].worker_id = v
                           /\ child'[job'[v].run][job'[v].number] = "none"
    BY DEF AttemptHasOneExecutor
  <2>1. ASSUME NEW q \in Runs, active'[v][q] # 0
        PROVE  attempt'[q][active'[v][q]].worker_id = v
    <3>1. active[v][q] = active'[v][q] /\ active[v][q] \in AttemptNo
      BY <2>1, <1>2 DEF TypeOK, AttemptNo
    <3>2. attempt[q][active[v][q]].worker_id = v /\ v # None
      BY <2>1, <3>1, NoneAssumption DEF AttemptHasOneExecutor
    <3> QED BY <3>1, <3>2, <1>9
  <2>2. ASSUME v # w, job'[v].op \in {"start", "launch"}
        PROVE  /\ job'[v].number \in AttemptNo
               /\ attempt'[job'[v].run][job'[v].number].worker_id = v
               /\ child'[job'[v].run][job'[v].number] = "none"
    <3>1. job'[v] = job[v] /\ job[v].run \in Runs
      BY <2>2, <1>10, JobShape DEF TypeOK
    <3>2. /\ job[v].number \in AttemptNo
          /\ attempt[job[v].run][job[v].number].worker_id = v
          /\ child[job[v].run][job[v].number] = "none"
      BY <2>2, <3>1 DEF AttemptHasOneExecutor
    <3> QED BY <3>1, <3>2, <1>2, <1>9, NoneAssumption
  <2>3. ASSUME v = w
        PROVE  /\ job'[v].number \in AttemptNo
               /\ attempt'[job'[v].run][job'[v].number].worker_id = v
               /\ child'[job'[v].run][job'[v].number] = "none"
    BY <2>3, <1>1, <1>4, <1>2, <1>11
  <2> QED BY <2>1, <2>2, <2>3
<1>13. UnusedIsBlank'
  <2>1. \A q \in Runs, m \in AttemptNo :
          attempt'[q][m].status = "none"
            => attempt'[q][m].worker_id = None /\ child'[q][m] = "none"
    BY <1>2, <1>1 DEF Bookkeeping, UnusedIsBlank, TypeOK
  <2> QED BY <2>1, <1>2, <1>5 DEF Bookkeeping, UnusedIsBlank, TypeOK
<1>14. StartsItsLatest'
  <2>1. ASSUME NEW v \in Workers, job'[v].op = "start", NEW m \in AttemptNo,
               attempt'[job'[v].run][m].worker_id = v
        PROVE  m <= job'[v].number
    <3>1. CASE v = w
      \* Every used number is at most the counter, the new one is above it.
      <4>1. m = n \/ attempt[r][m].status # "none"
        BY <2>1, <3>1, <1>9, <1>11, NoneAssumption DEF Bookkeeping, UnusedIsBlank
      <4>2. m <= n
        BY <4>1, <1>1 DEF AttemptLedger, n, AttemptNo
      <4> QED BY <3>1, <4>2, <1>11
    <3>2. CASE v # w
      <4>1. job'[v] = job[v] /\ job[v].run \in Runs
        BY <2>1, <3>2, <1>10, JobShape DEF TypeOK
      <4>2. attempt[job[v].run][m].worker_id = v
        BY <2>1, <3>2, <4>1, <1>9
      <4> QED BY <2>1, <4>1, <4>2 DEF Bookkeeping, StartsItsLatest
    <3> QED BY <3>1, <3>2
  <2>2. \A v \in Workers, q \in Runs : active'[v][q] # 0 => child'[q][active'[v][q]] # "none"
    BY <1>2 DEF Bookkeeping, StartsItsLatest
  <2> QED BY <2>1, <2>2 DEF StartsItsLatest
<1>15. FinalizesExited'
  BY <1>2, <1>10, <1>11 DEF Bookkeeping, FinalizesExited
<1> QED BY <1>6, <1>7, <1>8, <1>12, <1>13, <1>14, <1>15 DEF Bookkeeping

\* The ownership check of start_run: who passes it starts his own latest attempt.
LEMMA StartCheckStep ==
  ASSUME IInv, NEW w \in Workers, StartCheck(w)
  PROVE  IInv'
<1> USE DEF IInv
<1> DEFINE r == job[w].run
<1>1. r \in Runs /\ job[w] \in Job /\ run[r] \in Row
  BY JobShape DEF StartCheck, TypeOK
<1>2. /\ job'[w].op \in {"launch", "refused"}
      /\ job'[w].run = r /\ job'[w].number = run[r].attempts
      /\ job'[w].op = "launch" => run[r].locked_by = w
      /\ \A v \in Workers : v # w => job'[v] = job[v]
  BY <1>1 DEF StartCheck, MayStart, TypeOK, Job
<1>3. TypeOK'
  <2>1. job' \in [Workers -> Job \cup {NoJob}]
    <3>1. run[r].attempts \in AttemptNo \cup {0}
      BY <1>1, BoundAssumption DEF Row, AttemptNo
    <3>2. job'[w] \in Job
      BY <1>1, <3>1 DEF StartCheck, TypeOK, Job
    <3> QED BY <3>2 DEF StartCheck, TypeOK
  <2> QED BY <2>1 DEF StartCheck, TypeOK, dbVars, boundVars
\* The row w still owns is the one it claimed last, so the number it reads back
\* is the number of its claim, which nobody has forked.
<1>4. ASSUME job'[w].op = "launch"
      PROVE  /\ job'[w].number \in AttemptNo
             /\ attempt[r][job'[w].number].worker_id = w
             /\ child[r][job'[w].number] = "none"
  <2>1. /\ job[w].op = "start"
        /\ job[w].number \in AttemptNo
        /\ attempt[r][job[w].number].worker_id = w
        /\ child[r][job[w].number] = "none"
    BY DEF StartCheck, AttemptHasOneExecutor
  <2>2. run[r].locked_by = w /\ w # None
    BY <1>2, <1>4, NoneAssumption
  <2>3. run[r].attempts \in AttemptNo /\ attempt[r][run[r].attempts].worker_id = w
    BY <1>1, <2>2 DEF LeaseMatchesLedger
  <2>4. run[r].attempts <= job[w].number
    BY <2>1, <2>3 DEF Bookkeeping, StartsItsLatest
  <2>5. job[w].number <= run[r].attempts
    BY <1>1, <2>1, <2>2 DEF Bookkeeping, UnusedIsBlank, AttemptLedger
  <2>6. run[r].attempts = job[w].number
    BY <2>1, <2>3, <2>4, <2>5 DEF AttemptNo
  <2> QED BY <1>2, <2>1, <2>6
<1>5. AttemptHasOneExecutor'
  <2>1. ASSUME NEW v \in Workers, job'[v].op \in {"start", "launch"}
        PROVE  /\ job'[v].number \in AttemptNo
               /\ attempt[job'[v].run][job'[v].number].worker_id = v
               /\ child[job'[v].run][job'[v].number] = "none"
    <3>1. CASE v = w
      BY <2>1, <3>1, <1>2, <1>4
    <3>2. CASE v # w
      BY <2>1, <3>2, <1>2 DEF AttemptHasOneExecutor
    <3> QED BY <3>1, <3>2
  <2> QED BY <2>1 DEF StartCheck, dbVars, AttemptHasOneExecutor
<1>6. Bookkeeping'
  <2>1. StartsItsLatest'
    BY <1>2 DEF StartCheck, dbVars, Bookkeeping, StartsItsLatest
  <2>2. FinalizesExited'
    BY <1>2 DEF StartCheck, dbVars, Bookkeeping, FinalizesExited
  <2> QED BY <2>1, <2>2 DEF StartCheck, dbVars, Bookkeeping, UnusedIsBlank
<1>7. AttemptLedger' /\ LeaseMatchesLedger'
  BY DEF StartCheck, dbVars, AttemptLedger, LeaseMatchesLedger
<1> QED BY <1>3, <1>5, <1>6, <1>7

\* Forking the child of an attempt its worker is about to launch: the only kind
\* of step that makes a child out of none.
Forks(w) ==
  /\ job[w].op = "launch"
  /\ child' = Forked(w)
  /\ UNCHANGED <<run, attempt, call>>
  /\ job'[w].op \in {"none", "startfail"}
  /\ \A v \in Workers : v # w => job'[v] = job[v] /\ active'[v] = active[v]
  /\ \A r \in Runs : \/ active'[w][r] = active[w][r]
                     \/ r = job[w].run /\ active'[w][r] = job[w].number

\* The fork of a launch makes the only child of the attempt that was claimed.
LEMMA ForkStep ==
  ASSUME IInv, TypeOK', NEW w \in Workers, Forks(w)
  PROVE  IInv'
<1> USE DEF IInv, Forks
<1> DEFINE r == job[w].run
           n == job[w].number
<1>1. /\ r \in Runs /\ n \in AttemptNo
      /\ attempt[r][n].worker_id = w /\ child[r][n] = "none" /\ w # None
  BY JobShape, NoneAssumption DEF TypeOK, AttemptHasOneExecutor
<1>2. /\ child'[r][n] = "running"
      /\ \A q \in Runs, m \in AttemptNo : q # r \/ m # n => child'[q][m] = child[q][m]
  BY <1>1 DEF Forked, TypeOK
<1> HIDE DEF r, n
<1>3. AttemptHasOneExecutor'
  <2>1. ASSUME NEW v \in Workers, NEW q \in Runs, active'[v][q] # 0
        PROVE  attempt'[q][active'[v][q]].worker_id = v
    BY <2>1, <1>1 DEF AttemptHasOneExecutor, r, n
  <2>2. ASSUME NEW v \in Workers, job'[v].op \in {"start", "launch"}
        PROVE  /\ job'[v].number \in AttemptNo
               /\ attempt'[job'[v].run][job'[v].number].worker_id = v
               /\ child'[job'[v].run][job'[v].number] = "none"
    <3>1. v # w /\ job'[v] = job[v] /\ job[v].run \in Runs
      BY <2>2, JobShape DEF TypeOK
    <3> QED BY <2>2, <3>1, <1>1, <1>2 DEF AttemptHasOneExecutor
  <2> QED BY <2>1, <2>2 DEF AttemptHasOneExecutor
<1>4. UnusedIsBlank'
  BY <1>1, <1>2 DEF Bookkeeping, UnusedIsBlank
<1>5. StartsItsLatest'
  <2>1. ASSUME NEW v \in Workers, NEW q \in Runs, active'[v][q] # 0
        PROVE  child'[q][active'[v][q]] # "none"
    <3>1. active'[v][q] \in AttemptNo
      BY <2>1 DEF TypeOK, AttemptNo
    <3>2. CASE q = r /\ active'[v][q] = n
      BY <3>2, <1>2
    <3>3. CASE ~(q = r /\ active'[v][q] = n)
      <4>1. active'[v][q] = active[v][q]
        BY <3>3 DEF r, n
      <4> QED BY <2>1, <3>1, <3>3, <4>1, <1>2 DEF Bookkeeping, StartsItsLatest
    <3> QED BY <3>2, <3>3
  <2>2. ASSUME NEW v \in Workers, job'[v].op = "start", NEW m \in AttemptNo,
               attempt'[job'[v].run][m].worker_id = v
        PROVE  m <= job'[v].number
    BY <2>2 DEF Bookkeeping, StartsItsLatest
  <2> QED BY <2>1, <2>2 DEF StartsItsLatest
<1>6. FinalizesExited'
  <2> SUFFICES ASSUME NEW v \in Workers, job'[v].op = "finalize", job'[v].forced = "none"
               PROVE  /\ job'[v].number \in AttemptNo
                      /\ child'[job'[v].run][job'[v].number] \in ExitStates
    BY DEF FinalizesExited
  <2>1. v # w /\ job'[v] = job[v] /\ job[v].run \in Runs
    BY JobShape DEF TypeOK
  <2>2. job[v].number \in AttemptNo /\ child[job[v].run][job[v].number] \in ExitStates
    BY <2>1 DEF Bookkeeping, FinalizesExited
  <2> QED BY <2>1, <2>2, <1>1, <1>2 DEF ExitStates
<1>7. AttemptLedger' /\ LeaseMatchesLedger'
  BY DEF AttemptLedger, LeaseMatchesLedger
<1> QED BY <1>3, <1>4, <1>5, <1>6, <1>7 DEF Bookkeeping

\* The fork and the tracking of the child.
LEMMA LaunchStep ==
  ASSUME IInv, NEW w \in Workers, Launch(w)
  PROVE  IInv'
<1> USE DEF IInv
<1>1. job[w].run \in Runs /\ job[w].number \in AttemptNo
  BY JobShape DEF Launch, TypeOK, AttemptHasOneExecutor
<1>2. TypeOK'
  BY <1>1, AttemptNumbers DEF Launch, Forked, TypeOK, dbVars, boundVars, ChildStates, Alive
<1>3. Forks(w)
  <2>1. job[w].op = "launch" /\ child' = Forked(w) /\ UNCHANGED <<run, attempt, call>>
    BY DEF Launch, dbVars
  <2>2. job'[w].op \in {"none", "startfail"}
    BY DEF Launch, TypeOK, NoJob
  <2>3. \A v \in Workers : v # w => job'[v] = job[v] /\ active'[v] = active[v]
    BY DEF Launch, TypeOK
  <2>4. \A r \in Runs : \/ active'[w][r] = active[w][r]
                        \/ r = job[w].run /\ active'[w][r] = job[w].number
    BY <1>1 DEF Launch, TypeOK
  <2> QED BY <2>1, <2>2, <2>3, <2>4 DEF Forks
<1> QED BY <1>2, <1>3, ForkStep

\* A start that raises, with or without a child left behind.
LEMMA StartRaisedStep ==
  ASSUME IInv, NEW w \in Workers, StartRaised(w)
  PROVE  IInv'
<1> USE DEF IInv
<1>1. job[w] \in Job /\ job[w].run \in Runs
  BY JobShape DEF StartRaised, TypeOK
<1>2. job' \in [Workers -> Job \cup {NoJob}] /\ job'[w].op \in {"none", "startfail"}
  BY <1>1 DEF StartRaised, TypeOK, Job
<1>3. CASE UNCHANGED child
  <2>1. TypeOK'
    BY <1>2, <1>3 DEF StartRaised, TypeOK, dbVars, boundVars
  <2>2. DutiesKept
    BY <1>2 DEF StartRaised, TypeOK, DutiesKept
  <2> QED BY <1>3, <2>1, <2>2, NothingKept, QuietStep DEF StartRaised, dbVars
<1>4. CASE job[w].op = "launch" /\ child' = Forked(w)
  <2>1. job[w].number \in AttemptNo
    BY <1>4 DEF AttemptHasOneExecutor
  <2>2. TypeOK'
    BY <1>1, <1>2, <1>4, <2>1 DEF StartRaised, Forked, TypeOK, dbVars, boundVars, ChildStates, Alive
  <2>3. Forks(w)
    BY <1>2, <1>4 DEF Forks, StartRaised, TypeOK, dbVars
  <2> QED BY <2>2, <2>3, ForkStep
<1> QED BY <1>3, <1>4 DEF StartRaised

-----------------------------------------------------------------------------
(* Monitoring and finalizing *)

\* Signalling a child never forks one nor revives an exited one.
LEMMA ChildBecomesKept ==
  ASSUME TypeOK, NEW w \in Workers, NEW r \in Runs, active[w][r] # 0,
         NEW state \in {"failed", "cancelling"}, ChildBecomes(w, r, state)
  PROVE  ChildrenKept /\ child' \in [Runs -> [AttemptNo -> ChildStates]]
<1>1. active[w][r] \in AttemptNo
  BY DEF TypeOK, AttemptNo
<1>2. child' \in [Runs -> [AttemptNo -> ChildStates]]
  BY <1>1 DEF ChildBecomes, TypeOK, ChildStates, ExitStates, Alive
<1>3. ChildrenKept
  BY <1>1 DEF ChildBecomes, TypeOK, ChildrenKept, ExitStates, Alive
<1> QED BY <1>2, <1>3

\* Loading the run to finalize it, or dropping a run somebody else owns.
LEMMA BeginFinalizeStep ==
  ASSUME IInv, NEW w \in Workers, NEW r \in Runs, job[w] = NoJob, active[w][r] # 0,
         NEW forced \in {"none", "failed", "cancelled", "timed_out"},
         BeginFinalize(w, r, forced),
         ChildrenKept, child' \in [Runs -> [AttemptNo -> ChildStates]],
         forced = "none" => child'[r][active[w][r]] \in ExitStates,
         UNCHANGED <<dbVars, mode, call, boundVars>>
  PROVE  IInv'
<1> USE DEF IInv, dbVars, boundVars
<1>1. active[w][r] \in AttemptNo
  BY DEF TypeOK, AttemptNo
<1>2. CASE Owns(w, r) /\ UNCHANGED <<active, sent>>
           /\ job' = [job EXCEPT ![w] = [op |-> "finalize", run |-> r,
                      number |-> active[w][r], forced |-> forced, read |-> run[r]]]
  <2>1. TypeOK'
    <3>1. job' \in [Workers -> Job \cup {NoJob}]
      BY <1>1, <1>2 DEF TypeOK, Job
    <3> QED BY <1>2, <3>1 DEF TypeOK
  <2>2. DutiesKept
    BY <1>1, <1>2 DEF TypeOK, DutiesKept
  <2> QED BY <2>1, <2>2, NothingKept, QuietStep
<1>3. CASE Drop(w, r) /\ UNCHANGED job
  <2>1. TypeOK'
    BY <1>3, BoundAssumption DEF TypeOK, Drop
  <2>2. DutiesKept
    BY <1>3 DEF TypeOK, DutiesKept, Drop
  <2> QED BY <2>1, <2>2, NothingKept, QuietStep
<1> QED BY <1>2, <1>3 DEF BeginFinalize

\* Every step of monitor_active and of the shutdown loop.
LEMMA MonitorSteps ==
  ASSUME IInv, NEW w \in Workers, NEW r \in Runs, MonitorStep(w, r)
  PROVE  IInv'
<1>0. TypeOK
  BY DEF IInv
<1>1. CASE MonitorExit(w, r)
  <2>1. active[w][r] # 0 /\ job[w] = NoJob /\ active[w][r] \in AttemptNo
    BY <1>0, <1>1 DEF MonitorExit, Monitors, Idle, TypeOK, AttemptNo
  <2>2. child[r][active[w][r]] \in ExitStates
    BY <1>1, <2>1, <1>0 DEF MonitorExit, ChildAlive, IInv, Bookkeeping, StartsItsLatest,
                            TypeOK, ChildStates
  <2>3. ChildrenKept /\ child' \in [Runs -> [AttemptNo -> ChildStates]]
    BY <1>0, <1>1, NothingKept DEF MonitorExit, TypeOK
  <2> QED BY <1>1, <2>1, <2>2, <2>3, BeginFinalizeStep DEF MonitorExit
<1>2. CASE MonitorTimeout(w, r)
  <2>1. active[w][r] # 0 /\ job[w] = NoJob
    BY <1>2 DEF MonitorTimeout, Monitors, Idle
  <2>2. ChildrenKept /\ child' \in [Runs -> [AttemptNo -> ChildStates]]
    BY <1>0, <1>2, <2>1, ChildBecomesKept DEF MonitorTimeout
  <2> QED BY <1>2, <2>1, <2>2, BeginFinalizeStep DEF MonitorTimeout
<1>3. CASE MonitorLost(w, r)
  <2>1. active[w][r] # 0
    BY <1>3 DEF MonitorLost, Monitors
  <2>2. ChildrenKept /\ child' \in [Runs -> [AttemptNo -> ChildStates]]
    BY <1>0, <1>3, <2>1, ChildBecomesKept DEF MonitorLost
  <2>3. TypeOK'
    BY <1>0, <1>3, <2>2, BoundAssumption DEF MonitorLost, Drop, TypeOK, dbVars, boundVars
  <2>4. DutiesKept
    BY <1>0, <1>3 DEF MonitorLost, Drop, TypeOK, DutiesKept
  <2> QED BY <1>0, <1>3, <2>2, <2>3, <2>4, NothingKept, QuietStep DEF MonitorLost, dbVars
<1>4. CASE Heartbeat(w, r)
  <2> DEFINE beaten == [run[r] EXCEPT !.heartbeat = "fresh"]
  <2>1. run' = [run EXCEPT ![r] = beaten] /\ KeepsLease(run[r], beaten)
    BY <1>0, <1>4 DEF Heartbeat, TypeOK, KeepsLease, Row
  <2> HIDE DEF beaten
  <2>2. RowsKept /\ run' \in [Runs -> Row]
    BY <1>0, <2>1, OneRowKept DEF TypeOK
  <2>3. TypeOK'
    BY <1>0, <1>4, <2>2 DEF Heartbeat, TypeOK, workerVars, boundVars
  <2> QED BY <1>0, <1>4, <2>2, <2>3, NothingKept, QuietStep DEF Heartbeat, workerVars
<1>5. CASE MonitorCancel(w, r)
  <2>1. active[w][r] # 0
    BY <1>5 DEF MonitorCancel, Monitors
  <2>2. ChildrenKept /\ child' \in [Runs -> [AttemptNo -> ChildStates]]
    BY <1>0, <1>5, <2>1, ChildBecomesKept DEF MonitorCancel
  <2>3. TypeOK'
    BY <1>0, <1>5, <2>2 DEF MonitorCancel, TypeOK, dbVars, boundVars
  <2> QED BY <1>0, <1>5, <2>2, <2>3, NothingKept, QuietStep DEF MonitorCancel, dbVars
<1>6. CASE MonitorCancelled(w, r)
  <2>1. active[w][r] # 0 /\ job[w] = NoJob
    BY <1>6 DEF MonitorCancelled, Monitors, Idle
  <2>2. ChildrenKept /\ child' \in [Runs -> [AttemptNo -> ChildStates]]
    BY <1>0, <1>6, <2>1, ChildBecomesKept DEF MonitorCancelled
  <2> QED BY <1>6, <2>1, <2>2, BeginFinalizeStep DEF MonitorCancelled
<1>7. CASE StopActive(w, r)
  <2>1. active[w][r] # 0 /\ job[w] = NoJob /\ UNCHANGED <<dbVars, mode, call, boundVars>>
    BY <1>7 DEF StopActive, Monitors, Idle
  <2>2. CASE ChildBecomes(w, r, "cancelling") /\ UNCHANGED <<active, sent, job>>
    <3>1. ChildrenKept /\ child' \in [Runs -> [AttemptNo -> ChildStates]]
      BY <1>0, <2>1, <2>2, ChildBecomesKept
    <3>2. TypeOK'
      BY <1>0, <2>1, <2>2, <3>1 DEF TypeOK, dbVars, boundVars
    <3> QED BY <1>0, <2>1, <2>2, <3>1, <3>2, NothingKept, QuietStep DEF dbVars
  <2>3. CASE ChildBecomes(w, r, "failed") /\ BeginFinalize(w, r, "failed")
    <3>1. ChildrenKept /\ child' \in [Runs -> [AttemptNo -> ChildStates]]
      BY <1>0, <2>1, <2>3, ChildBecomesKept
    <3> QED BY <2>1, <2>3, <3>1, BeginFinalizeStep
  <2> QED BY <1>7, <2>2, <2>3 DEF StopActive
<1> QED BY <1>1, <1>2, <1>3, <1>4, <1>5, <1>6, <1>7 DEF MonitorStep

\* Settling an attempt gives it a status of an attempt that exists.
LEMMA AuditRowSettled ==
  ASSUME NEW audit \in AttemptRow, NEW outcome \in AttemptStatuses
  PROVE  LET settled == [audit EXCEPT !.status = outcome]
         IN  /\ settled \in AttemptRow
             /\ settled.status = outcome
             /\ settled.worker_id = audit.worker_id
BY DEF AttemptRow

\* Settling an attempt adds and removes no audit row.
LEMMA SettleKept ==
  ASSUME TypeOK, NEW r \in Runs, NEW n, NEW outcome \in AttemptStatuses \ {"none"},
         Settle(r, n, outcome)
  PROVE  AuditRowsKept /\ attempt' \in [Runs -> [AttemptNo -> AttemptRow]]
<1>1. \A q \in Runs, m \in AttemptNo :
        \/ attempt'[q][m] = attempt[q][m]
        \/ /\ attempt[q][m].status # "none"
           /\ attempt'[q][m] = [attempt[q][m] EXCEPT !.status = outcome]
  BY DEF Settle, TypeOK
<1>2. \A q \in Runs, m \in AttemptNo :
        /\ attempt'[q][m] \in AttemptRow
        /\ attempt'[q][m].worker_id = attempt[q][m].worker_id
        /\ attempt'[q][m].status = "none" <=> attempt[q][m].status = "none"
  <2> SUFFICES ASSUME NEW q \in Runs, NEW m \in AttemptNo
               PROVE  /\ attempt'[q][m] \in AttemptRow
                      /\ attempt'[q][m].worker_id = attempt[q][m].worker_id
                      /\ attempt'[q][m].status = "none" <=> attempt[q][m].status = "none"
    OBVIOUS
  <2>1. attempt[q][m] \in AttemptRow
    BY DEF TypeOK
  <2>2. CASE attempt'[q][m] = attempt[q][m]
    BY <2>1, <2>2
  <2>3. CASE attempt[q][m].status # "none"
             /\ attempt'[q][m] = [attempt[q][m] EXCEPT !.status = outcome]
    BY <2>1, <2>3, AuditRowSettled
  <2> QED BY <1>1, <2>2, <2>3
<1>3. attempt' \in [Runs -> [AttemptNo -> AttemptRow]]
  BY <1>2 DEF Settle, TypeOK
<1> QED BY <1>2, <1>3 DEF AuditRowsKept

\* WORKER_START_FAILED, although it does not compare the owner.
LEMMA StartFailedStep ==
  ASSUME IInv, NEW w \in Workers, StartFailed(w)
  PROVE  IInv' /\ AuditRowsKept
<1> USE DEF IInv
<1> DEFINE r == job[w].run
           was == job[w].read
           new == FailedOrRequeued(was, "failed", TRUE)
<1>1. r \in Runs /\ was \in Row /\ run[r] \in Row
  BY JobShape DEF StartFailed, TypeOK
<1>2. KeepsLease(was, new)
  BY <1>1, FailedOrRequeuedKeepsLease
<1> HIDE DEF new
<1>3. KeepsLease(run[r], Flush(run[r], was, new))
  BY <1>1, <1>2, FlushKeepsLease
<1>4. RowsKept /\ run' \in [Runs -> Row]
  BY <1>1, <1>3, OneRowKept DEF StartFailed, TypeOK, new
<1>5. AuditRowsKept /\ attempt' \in [Runs -> [AttemptNo -> AttemptRow]]
  BY <1>1, SettleKept DEF StartFailed, AttemptOutcome, AttemptStatuses
<1>6. TypeOK'
  BY <1>4, <1>5 DEF StartFailed, TypeOK, boundVars
<1>7. DutiesKept
  BY DEF StartFailed, TypeOK, DutiesKept, NoJob
<1> QED BY <1>4, <1>5, <1>6, <1>7, NothingKept, QuietStep DEF StartFailed

\* The commit of finalize_active, although its owner check is old by then.
LEMMA FinalizeStep ==
  ASSUME IInv, NEW w \in Workers, FinalizeCommit(w)
  PROVE  IInv' /\ AuditRowsKept
<1> USE DEF IInv
<1> DEFINE r == job[w].run
           was == job[w].read
<1>1. r \in Runs /\ was \in Row /\ run[r] \in Row /\ job[w] \in Job
  BY JobShape DEF FinalizeCommit, TypeOK
<1>2. FinalBase(w) \in ExitStates
  BY <1>1 DEF FinalBase, FinalizeCommit, Bookkeeping, FinalizesExited, Job, ExitStates
<1>3. PICK v \in FinalVerdicts(w) :
         /\ run' = [run EXCEPT ![r] = Flush(@, was, Finalized(was, v[1], v[2]))]
         /\ Settle(r, was.attempts, AttemptOutcome(was, v[1], v[2]))
         /\ lastRun' = LastRunAfter(w, v[1])
  BY DEF FinalizeCommit
<1>4. v[1] \in ExitStates /\ v[2] \in BOOLEAN
  BY <1>2 DEF FinalVerdicts, ExitStates
<1> DEFINE new == Finalized(was, v[1], v[2])
<1>5. KeepsLease(was, new)
  BY <1>1, <1>4, FinalizedKeepsLease
<1> HIDE DEF new
<1>6. KeepsLease(run[r], Flush(run[r], was, new))
  BY <1>1, <1>5, FlushKeepsLease
<1>7. RowsKept /\ run' \in [Runs -> Row]
  BY <1>1, <1>3, <1>6, OneRowKept DEF TypeOK, new
<1>8. AuditRowsKept /\ attempt' \in [Runs -> [AttemptNo -> AttemptRow]]
  BY <1>1, <1>3, <1>4, SettleKept DEF AttemptOutcome, AttemptStatuses, ExitStates
<1>9. Drop(w, r) /\ job' = [job EXCEPT ![w] = NoJob]
      /\ UNCHANGED <<mode, child, call, boundVars>>
  BY DEF FinalizeCommit
<1>10. TypeOK'
  BY <1>1, <1>3, <1>7, <1>8, <1>9, BoundAssumption DEF TypeOK, Drop, LastRunAfter, boundVars
<1>11. DutiesKept
  BY <1>9 DEF TypeOK, DutiesKept, Drop, NoJob
<1> QED BY <1>7, <1>8, <1>9, <1>10, <1>11, NothingKept, QuietStep

-----------------------------------------------------------------------------
(* Recovery, outages and the passing of time *)

\* recover_stale_runs, for any set of stale rows it finds unlocked.
LEMMA RecoverStep == ASSUME IInv, RecoverStaleRuns PROVE IInv' /\ AuditRowsKept
<1> USE DEF IInv
<1>1. PICK S \in SUBSET StaleRuns :
        /\ run' = [r \in Runs |-> IF r \in S THEN FailedOrRequeued(run[r], "failed", TRUE)
                                             ELSE run[r]]
        /\ attempt' = [r \in Runs |->
             [n \in AttemptNo |->
               IF r \in S /\ n = run[r].attempts /\ attempt[r][n].status # "none"
               THEN [attempt[r][n] EXCEPT !.status = AttemptOutcome(run[r], "failed", TRUE)]
               ELSE attempt[r][n]]]
        /\ UNCHANGED <<lastRun, workerVars, child, call, boundVars>>
  BY DEF RecoverStaleRuns
<1>2. \A r \in Runs : KeepsLease(run[r], run'[r])
  BY <1>1, FailedOrRequeuedKeepsLease DEF TypeOK, KeepsLease
<1>3. RowsKept /\ run' \in [Runs -> Row]
  BY <1>1, <1>2 DEF RowsKept, KeepsLease
<1>4. AuditRowsKept /\ attempt' \in [Runs -> [AttemptNo -> AttemptRow]]
  <2>1. \A r \in Runs : AttemptOutcome(run[r], "failed", TRUE) \in {"retry_wait", "failed"}
    BY DEF AttemptOutcome
  <2>2. \A r \in Runs, n \in AttemptNo :
          /\ attempt'[r][n] \in AttemptRow
          /\ attempt'[r][n].worker_id = attempt[r][n].worker_id
          /\ attempt'[r][n].status = "none" <=> attempt[r][n].status = "none"
    <3> SUFFICES ASSUME NEW r \in Runs, NEW n \in AttemptNo
                 PROVE  /\ attempt'[r][n] \in AttemptRow
                        /\ attempt'[r][n].worker_id = attempt[r][n].worker_id
                        /\ attempt'[r][n].status = "none" <=> attempt[r][n].status = "none"
      OBVIOUS
    <3> DEFINE outcome == AttemptOutcome(run[r], "failed", TRUE)
    <3>1. attempt[r][n] \in AttemptRow /\ outcome \in AttemptStatuses \ {"none"}
      BY <2>1 DEF TypeOK, AttemptStatuses
    <3>2. CASE attempt'[r][n] = attempt[r][n]
      BY <3>1, <3>2
    <3>3. CASE attempt[r][n].status # "none"
               /\ attempt'[r][n] = [attempt[r][n] EXCEPT !.status = outcome]
      <4> HIDE DEF outcome
      <4> QED BY <3>1, <3>3, AuditRowSettled
    <3> QED BY <1>1, <3>2, <3>3
  <2> QED BY <1>1, <2>2 DEF AuditRowsKept
<1>5. TypeOK'
  BY <1>1, <1>3, <1>4 DEF TypeOK, workerVars, boundVars
<1> QED BY <1>1, <1>3, <1>4, <1>5, NothingKept, QuietStep DEF workerVars

\* A crash, an exit or a restart only forgets.
LEMMA OutageStep == ASSUME IInv, NEW w \in Workers, Outage(w) PROVE IInv'
<1> USE DEF IInv
<1>1. RowsKept /\ AuditRowsKept /\ ChildrenKept
  BY NothingKept DEF Outage, Stop, Exit, Crash, Restart, dbVars
<1>2. DutiesKept
  <2>1. CASE Stop(w) \/ Exit(w)
    BY <2>1, NothingKept DEF Stop, Exit
  <2>2. ASSUME Forget(w), UNCHANGED call PROVE DutiesKept
    <3>1. \A v \in Workers : v # w => job'[v] = job[v] /\ active'[v] = active[v]
      BY <2>2 DEF Forget, TypeOK
    <3>2. job'[w].op = "none" /\ \A r \in Runs : active'[w][r] = 0
      BY <2>2 DEF Forget, TypeOK, NoJob
    <3> QED BY <2>2, <3>1, <3>2 DEF DutiesKept
  <2> QED BY <2>1, <2>2 DEF Outage, Crash, Restart
<1>3. TypeOK'
  <2>1. CASE Stop(w)
    BY <2>1 DEF Stop, TypeOK, dbVars
  <2>2. CASE Exit(w)
    BY <2>2 DEF Exit, TypeOK, dbVars, boundVars
  <2>3. Forget(w) => active' \in [Workers -> [Runs -> 0..MaxClaims]]
                     /\ sent' \in [Workers -> SUBSET Runs]
                     /\ job' \in [Workers -> Job \cup {NoJob}]
    BY AttemptNumbers DEF Forget, TypeOK
  <2>4. CASE Crash(w)
    BY <2>3, <2>4 DEF Crash, TypeOK, dbVars
  <2>5. CASE Restart(w)
    BY <2>3, <2>5 DEF Restart, TypeOK, dbVars, boundVars
  <2> QED BY <2>1, <2>2, <2>4, <2>5 DEF Outage
<1> QED BY <1>1, <1>2, <1>3, QuietStep

\* A child ends with an exit state the finalizer can read.
LEMMA ChildExitStep ==
  ASSUME IInv, NEW r \in Runs, NEW n \in AttemptNo, NEW exit \in ExitStates,
         ChildExit(r, n, exit)
  PROVE  IInv'
<1> USE DEF IInv, ChildExit
<1>1. ChildrenKept
  BY DEF TypeOK, ChildrenKept, Alive, ExitStates
<1>2. TypeOK'
  BY DEF TypeOK, ChildStates, dbVars, workerVars, boundVars
<1> QED BY <1>1, <1>2, NothingKept, QuietStep DEF dbVars, workerVars

\* Backoff and heartbeat expiry touch neither counter nor lock.
LEMMA ClockStep ==
  ASSUME IInv, NEW r \in Runs, BackoffElapses(r) \/ HeartbeatExpires(r)
  PROVE  IInv'
<1> USE DEF IInv
<1>1. PICK new : run' = [run EXCEPT ![r] = new] /\ KeepsLease(run[r], new)
  <2>1. CASE BackoffElapses(r)
    <3>1. KeepsLease(run[r], [run[r] EXCEPT !.next_attempt_due = TRUE])
      BY DEF TypeOK, KeepsLease, Row
    <3> QED BY <2>1, <3>1 DEF BackoffElapses
  <2>2. CASE HeartbeatExpires(r)
    <3>1. KeepsLease(run[r], [run[r] EXCEPT !.heartbeat = "expired"])
      BY DEF TypeOK, KeepsLease, Row
    <3> QED BY <2>2, <3>1 DEF HeartbeatExpires
  <2> QED BY <2>1, <2>2
<1>2. UNCHANGED <<attempt, lastRun, workerVars, child, call, boundVars>>
  BY DEF BackoffElapses, HeartbeatExpires
<1>3. RowsKept /\ run' \in [Runs -> Row]
  BY <1>1, OneRowKept DEF TypeOK
<1>4. TypeOK'
  BY <1>2, <1>3 DEF TypeOK, workerVars, boundVars
<1> QED BY <1>2, <1>3, <1>4, NothingKept, QuietStep DEF workerVars

-----------------------------------------------------------------------------
(* The theorems *)

\* The empty database satisfies the invariant.
LEMMA Initially == Init => IInv
<1> SUFFICES ASSUME Init PROVE IInv
  OBVIOUS
<1> USE DEF Init
<1>1. TypeOK
  BY NewRowType, AttemptNumbers DEF TypeOK, AttemptRow, AttemptStatuses, NoAttempt, ChildStates
<1>2. AttemptLedger
  BY DEF AttemptLedger, NoAttempt, AbsentRow, AttemptNo
<1>3. LeaseMatchesLedger
  BY DEF LeaseMatchesLedger, AbsentRow
<1>4. AttemptHasOneExecutor
  BY DEF AttemptHasOneExecutor, NoJob
<1>5. Bookkeeping
  BY DEF Bookkeeping, UnusedIsBlank, StartsItsLatest, FinalizesExited, NoAttempt, AbsentRow,
         NoJob, NoCall
<1> QED BY <1>1, <1>2, <1>3, <1>4, <1>5 DEF IInv

\* Every step keeps it: one case per disjunct of Next.
LEMMA Inductively == IInv /\ [Next]_vars => IInv'
<1> SUFFICES ASSUME IInv, [Next]_vars PROVE IInv'
  OBVIOUS
<1>1. ASSUME NEW c \in Clients, ApiStep(c) PROVE IInv'
  BY <1>1, ApiSteps
<1>2. ASSUME NEW w \in Workers, HandlerStep(w) PROVE IInv'
  BY <1>2, StartCheckStep, LaunchStep, StartRaisedStep, StartFailedStep, FinalizeStep
     DEF HandlerStep
<1>3. ASSUME NEW w \in Workers, NEW r \in Runs, Claim(w, r) \/ MonitorStep(w, r)
      PROVE  IInv'
  BY <1>3, ClaimStep, MonitorSteps
<1>4. ASSUME RecoverStaleRuns PROVE IInv'
  BY <1>4, RecoverStep
<1>5. ASSUME NEW w \in Workers, Outage(w) PROVE IInv'
  BY <1>5, OutageStep
<1>6. ASSUME NEW r \in Runs, BackoffElapses(r) \/ HeartbeatExpires(r) PROVE IInv'
  BY <1>6, ClockStep
<1>7. ASSUME NEW r \in Runs, NEW n \in AttemptNo, NEW exit \in ExitStates,
             ChildExit(r, n, exit)
      PROVE  IInv'
  BY <1>7, ChildExitStep
<1>8. CASE UNCHANGED vars
  <2>1. RowsKept /\ AuditRowsKept /\ ChildrenKept /\ DutiesKept
    BY <1>8, NothingKept DEF vars, dbVars, workerVars, IInv
  <2>2. TypeOK'
    BY <1>8 DEF vars, dbVars, workerVars, boundVars, IInv, TypeOK
  <2> QED BY <2>1, <2>2, QuietStep
<1> QED BY <1>1, <1>2, <1>3, <1>4, <1>5, <1>6, <1>7, <1>8
        DEF Next, WorkerRecover, MaintenanceStaleRuns

\* The invariant behind all the others.
THEOREM Invariance == Spec => []IInv
BY Initially, Inductively, PTL DEF Spec

\* Every variable keeps its type; a run or an audit row never gets a status the
\* schema does not know, and a finalizer always finds a result to write.
THEOREM TypeCorrect == Spec => []TypeOK
<1>1. IInv => TypeOK
  BY DEF IInv
<1> QED BY <1>1, Invariance, PTL

\* Attempt numbers are consecutive and never collide: claim_next_run cannot
\* violate the unique constraint on (run_id, attempt_number).
THEOREM LedgerCorrect == Spec => []AttemptLedger
<1>1. IInv => AttemptLedger
  BY DEF IInv
<1> QED BY <1>1, Invariance, PTL

\* Only the worker of the latest attempt ever holds the lock of a run.
THEOREM LeaseCorrect == Spec => []LeaseMatchesLedger
<1>1. IInv => LeaseMatchesLedger
  BY DEF IInv
<1> QED BY <1>1, Invariance, PTL

\* No two workers ever start or monitor the same attempt, and none forks it
\* twice.
THEOREM ExecutorUnique == Spec => []AttemptHasOneExecutor
<1>1. IInv => AttemptHasOneExecutor
  BY DEF IInv
<1> QED BY <1>1, Invariance, PTL

\* A run keeps the history of its attempts, through retries by hand too: every
\* step leaves the audit rows where they are, and a claim adds one.
THEOREM AuditCorrect == Spec => AuditKept
<1>1. IInv /\ [Next]_vars => [AuditRowsStay]_vars
  <2> SUFFICES ASSUME IInv, Next PROVE AuditRowsStay
    OBVIOUS
  <2>1. AuditRowsKept => AuditRowsStay
    BY DEF AuditRowsKept, AuditRowsStay
  <2>2. ASSUME UNCHANGED attempt PROVE AuditRowsStay
    BY <2>2 DEF AuditRowsStay
  <2>3. ASSUME NEW c \in Clients, ApiStep(c) PROVE AuditRowsStay
    BY <2>2, <2>3 DEF ApiStep, CreateCheck, CancelRead, RetryRead, CreateCommit, CancelCommit,
                      RetryCommit, Reply, dbVars
  <2>4. ASSUME NEW w \in Workers, HandlerStep(w) PROVE AuditRowsStay
    BY <2>1, <2>2, <2>4, StartFailedStep, FinalizeStep
       DEF HandlerStep, StartCheck, Launch, StartRaised, dbVars
  <2>5. ASSUME NEW w \in Workers, NEW r \in Runs, Claim(w, r) PROVE AuditRowsStay
    <3> DEFINE n == NextAttempt(r)
    <3>1. /\ n = run[r].attempts + 1 /\ run[r].attempts \in Nat
          /\ attempt' = [attempt EXCEPT ![r][n] = [status |-> "running", worker_id |-> w]]
      BY <2>5, NextAttemptNumber DEF Claim, IInv, TypeOK, Row
    <3>2. n \in AttemptNo => attempt[r][n].status = "none"
      BY <3>1 DEF IInv, AttemptLedger, AttemptNo
    <3> HIDE DEF n
    <3> QED BY <3>1, <3>2 DEF AuditRowsStay, IInv, TypeOK
  <2>6. ASSUME NEW w \in Workers, NEW r \in Runs, MonitorStep(w, r) PROVE AuditRowsStay
    BY <2>2, <2>6 DEF MonitorStep, MonitorExit, MonitorTimeout, MonitorLost, Heartbeat,
                      MonitorCancel, MonitorCancelled, StopActive, dbVars
  <2>7. ASSUME RecoverStaleRuns PROVE AuditRowsStay
    BY <2>1, <2>7, RecoverStep
  <2>8. ASSUME NEW w \in Workers, Outage(w) PROVE AuditRowsStay
    BY <2>2, <2>8 DEF Outage, Stop, Exit, Crash, Restart, dbVars
  <2>9. ASSUME NEW r \in Runs, BackoffElapses(r) \/ HeartbeatExpires(r) PROVE AuditRowsStay
    BY <2>2, <2>9 DEF BackoffElapses, HeartbeatExpires
  <2>10. ASSUME NEW r \in Runs, NEW n \in AttemptNo, NEW exit \in ExitStates,
                ChildExit(r, n, exit)
         PROVE  AuditRowsStay
    BY <2>2, <2>10 DEF ChildExit, dbVars
  <2> QED BY <2>3, <2>4, <2>5, <2>6, <2>7, <2>8, <2>9, <2>10
          DEF Next, WorkerRecover, MaintenanceStaleRuns
<1> QED BY <1>1, Invariance, Inductively, PTL DEF Spec, AuditKept

-----------------------------------------------------------------------------
(* Timely heartbeats: what a worker relies on                              *)

Attended(r) == \E w \in Workers : Attends(w, r)
Last(r)     == attempt[r][run[r].attempts].status

RowSound(r) ==
  /\ run[r].status = "absent" => run[r] = AbsentRow
  /\ run[r].status = "queued" => /\ run[r].locked_by = None /\ run[r].heartbeat = "none"
                                 /\ run[r].attempts < MaxAttempts
  /\ run[r].status = "cancelled" => run[r].cancel_requested
  /\ run[r].attempts <= MaxAttempts
  /\ Agrees(r)

\* The run a worker is busy with is its own; at worst a cancellation that had
\* read the run while it waited has overwritten the status.
AttendSound(w, r) ==
  Attends(w, r) => /\ Owns(w, r) /\ run[r].status \in {"running", "cancelled"}
                   /\ run[r].heartbeat = "fresh"
                   /\ run[r].attempts \in AttemptNo /\ Last(r) = "running"

\* What a handler has read of its run is true but for a cancellation.
JobSound(w) ==
  /\ mode[w] = "down" => job[w] = NoJob
  /\ job[w] # NoJob /\ job[w].op # "finalize" => active[w][job[w].run] = 0
  /\ job[w].op \in {"startfail", "finalize"} =>
       LET row == run[job[w].run]
           was == job[w].read
       IN  /\ was.locked_by = w /\ was.status \in {"running", "cancelled"}
           /\ was.heartbeat = "fresh" /\ was.attempts = row.attempts
           /\ was.status = "cancelled" => row.status = "cancelled" /\ was.cancel_requested
           /\ was.cancel_requested => row.cancel_requested

\* So is what a request has read, as far as it writes anything.
CallSound(c) ==
  LET r == call[c].run
      was == call[c].read
  IN  /\ call[c].op \in {"none", "create", "cancel"}
      /\ call[c].op = "create" =>
           /\ was = AbsentRow /\ run[r] = AbsentRow
           /\ \A d \in Clients \ {c} : call[d] # NoCall => call[d].run # r
      /\ call[c].op = "cancel" =>
           /\ was.status \in ActiveStatuses /\ run[r].status # "absent"
           /\ was.status = "queued" => was.locked_by = None /\ was.heartbeat = "none"
           /\ was.cancel_requested => run[r].cancel_requested

LInv == /\ IInv
        /\ \A r \in Runs : RowSound(r) /\ \A w \in Workers : AttendSound(w, r)
        /\ \A w \in Workers : JobSound(w)
        /\ \A c \in Clients : CallSound(c)
        /\ LastRunSucceeded

-----------------------------------------------------------------------------
(* Steps of the abstract lifecycle.                                        *)

StageIs(r) ==
  /\ run[r].status = "absent" => Stage(r) = "absent"
  /\ run[r].status = "queued" => Stage(r) = "waiting"
  /\ run[r].status = "running" \/ Attended(r) => Stage(r) = "executing"
  /\ run[r].status \notin {"absent", "queued", "running"} /\ ~Attended(r) => Stage(r) = "settled"

\* The abstract stage of a run, told by its status and by who attends it.
LEMMA StageOf ==
  ASSUME LInv, NEW r \in Runs
  PROVE  StageIs(r)
<1>1. run[r].status = "queued" => \A w \in Workers : ~Owns(w, r)
  BY NoneAssumption DEF LInv, RowSound, Owns
<1>2. \A w \in Workers : Attends(w, r) => Owns(w, r) /\ run[r].status \in {"running", "cancelled"}
  BY DEF LInv, AttendSound
<1> QED BY <1>1, <1>2 DEF StageIs, Stage, Executing, Attended

\* The same after a step.
LEMMA StageOfNext ==
  ASSUME LInv', NEW r \in Runs
  PROVE  StageIs(r)'
<1>1. run'[r].status = "queued" => \A w \in Workers : ~Owns(w, r)'
  BY NoneAssumption DEF LInv, RowSound, Owns
<1>2. \A w \in Workers :
        Attends(w, r)' => Owns(w, r)' /\ run'[r].status \in {"running", "cancelled"}
  BY DEF LInv, AttendSound
<1> QED BY <1>1, <1>2 DEF StageIs, Stage, Executing, Attended

Stays(r) == Stage(r)' = Stage(r) /\ run'[r].attempts = run[r].attempts
Ends(r)  == /\ Stage(r) = "executing" /\ run'[r].attempts = run[r].attempts
            /\ \/ Stage(r)' = "settled"
               \/ Stage(r)' = "waiting" /\ run[r].attempts < MaxAttempts
Submits(r)   == Stage(r) = "absent" /\ Stage(r)' = "waiting" /\ run'[r].attempts = run[r].attempts
Withdraws(r) == Stage(r) = "waiting" /\ Stage(r)' = "settled" /\ run'[r].attempts = run[r].attempts
Begins(r)    == /\ Stage(r) = "waiting" /\ Stage(r)' = "executing"
                /\ run[r].attempts < MaxAttempts /\ run'[r].attempts = run[r].attempts + 1

\* What a step of the queue may do to the stages of the runs.
LifeStep == \/ \A r \in Runs : Stays(r) \/ Ends(r)
            \/ \E r \in Runs : /\ Submits(r) \/ Withdraws(r) \/ Begins(r)
                               /\ \A q \in Runs \ {r} : Stays(q)

\* A run whose status, counter and attendance a step leaves alone stays where
\* it is.
LEMMA Unmoved ==
  ASSUME LInv, LInv', NEW r \in Runs, run'[r].status = run[r].status,
         run'[r].attempts = run[r].attempts, Attended(r)' <=> Attended(r)
  PROVE  Stays(r)
<1> StageIs(r) /\ StageIs(r)'
  BY StageOf, StageOfNext
<1> QED BY DEF StageIs, Stays

-----------------------------------------------------------------------------
(* What most steps leave alone.                                            *)

\* A step that at most cancels a run, behind the back of its worker.
Quiet(r) ==
  /\ run'[r].locked_by = run[r].locked_by /\ run'[r].heartbeat = run[r].heartbeat
  /\ run'[r].attempts = run[r].attempts /\ attempt'[r] = attempt[r]
  /\ \/ run'[r].status = run[r].status
     \/ run'[r].status = "cancelled" /\ run'[r].cancel_requested
  /\ run[r].cancel_requested => run'[r].cancel_requested
  /\ run[r].status = "absent" => run'[r] = run[r]
  /\ \A w \in Workers : Attends(w, r)' => Attends(w, r)

\* A step that moves a run nobody has read.
Changed(r) ==
  /\ RowSound(r)' /\ run'[r].status # "absent"
  /\ run[r].cancel_requested => run'[r].cancel_requested
  /\ \A w \in Workers : /\ AttendSound(w, r)'
                        /\ job'[w].op \in {"startfail", "finalize"} => job'[w].run # r

SameWorker(w) == mode'[w] = mode[w] /\ active'[w] = active[w] /\ job'[w] = job[w]

\* Requests go on or end, and no row is taken from one that creates it.
CallsGoOn ==
  \A c \in Clients :
    /\ call'[c] \in {call[c], NoCall}
    /\ call'[c].op = "create" => run'[call[c].run] = run[call[c].run]

\* The attempts that have succeeded stay so.
SuccessesStay ==
  \A r \in Runs, n \in AttemptNo :
    attempt[r][n].status = "succeeded" => attempt'[r][n].status = "succeeded"

\* The rows of a quiet step stay sound.
LEMMA QuietRow ==
  ASSUME LInv, IInv', NEW r \in Runs, Quiet(r)
  PROVE  RowSound(r)' /\ \A w \in Workers : AttendSound(w, r)'
<1>1. RowSound(r) /\ run[r] \in Row /\ run'[r] \in Row
  BY DEF LInv, IInv, TypeOK
<1>2. Agrees(r)'
  <2>1. CASE run'[r].status = run[r].status
    BY <1>1, <2>1 DEF Quiet, RowSound, Agrees
  <2>2. CASE run'[r].status = "cancelled"
    <3>1. run'[r].attempts # 0 => run'[r].attempts \in AttemptNo
      BY <1>1, BoundAssumption DEF Row, AttemptNo
    <3>2. run'[r].attempts # 0 => attempt'[r][run'[r].attempts].status # "none"
      BY <1>1, <3>1 DEF IInv, AttemptLedger, Row
    <3> QED BY <2>2, <3>2 DEF Agrees
  <2> QED BY <2>1, <2>2 DEF Quiet
<1>3. RowSound(r)'
  BY <1>1, <1>2 DEF Quiet, RowSound
<1>4. \A w \in Workers : AttendSound(w, r)'
  BY DEF Quiet, LInv, AttendSound, Owns, Last
<1> QED BY <1>3, <1>4

\* A worker that does nothing goes on being right about its run.
LEMMA IdleWorker ==
  ASSUME LInv, NEW w \in Workers, SameWorker(w), \A r \in Runs : Quiet(r) \/ Changed(r)
  PROVE  JobSound(w)'
<1>1. JobSound(w) /\ TypeOK
  BY DEF LInv, IInv
<1>2. job'[w] # NoJob /\ job'[w].op # "finalize" => active'[w][job'[w].run] = 0
  BY <1>1 DEF JobSound, SameWorker
<1>3. CASE job[w].op \in {"startfail", "finalize"}
  <2>1. PICK r, was : r = job[w].run /\ was = job[w].read
    OBVIOUS
  <2>2. r \in Runs /\ Attends(w, r)
    BY <1>1, <1>3, <2>1, JobShape DEF TypeOK, JobSound, Attends, NoJob
  <2>3. Quiet(r)
    BY <1>3, <2>1, <2>2 DEF Changed, SameWorker
  <2>4. run[r].status \in {"running", "cancelled"}
    BY <2>2 DEF LInv, AttendSound
  <2> QED BY <1>1, <1>2, <1>3, <2>1, <2>3, <2>4 DEF JobSound, SameWorker, Quiet
<1>4. CASE job[w].op \notin {"startfail", "finalize"}
  BY <1>1, <1>2, <1>4 DEF JobSound, SameWorker
<1> QED BY <1>3, <1>4

\* A request that waits goes on being right about its run.
LEMMA IdleCalls ==
  ASSUME LInv, CallsGoOn, \A r \in Runs : Quiet(r) \/ Changed(r)
  PROVE  \A c \in Clients : CallSound(c)'
<1> SUFFICES ASSUME NEW c \in Clients PROVE CallSound(c)'
  OBVIOUS
<1>1. CASE call'[c] = NoCall
  BY <1>1 DEF CallSound, NoCall
<1>2. CASE call'[c] = call[c] /\ call[c].op # "none"
  <2>1. call[c].run \in Runs
    BY <1>2, CallShape DEF LInv, IInv, TypeOK
  <2>2. CallSound(c)
    BY DEF LInv
  <2>3. CASE call[c].op = "create"
    <3>1. \A d \in Clients \ {c} : call'[d] # NoCall => call'[d].run # call[c].run
      BY <2>2, <2>3 DEF CallsGoOn, CallSound
    <3> QED BY <1>2, <2>2, <2>3, <3>1 DEF CallsGoOn, CallSound
  <2>4. CASE call[c].op = "cancel"
    <3>1. run'[call[c].run].status # "absent"
      BY <2>1, <2>2, <2>4 DEF CallSound, Quiet, Changed
    <3> QED BY <1>2, <2>1, <2>2, <2>4, <3>1 DEF CallSound, Quiet, Changed
  <2> QED BY <2>2, <2>3, <2>4, <1>2 DEF CallSound
<1>3. CASE call'[c] = call[c] /\ call[c].op = "none"
  BY <1>3 DEF CallSound
<1> QED BY <1>1, <1>2, <1>3 DEF CallsGoOn

\* A step keeps the invariant if it moves only runs nobody has read, and if it
\* is right about the workers that it moves.
LEMMA SoundStep ==
  ASSUME LInv, IInv', \A r \in Runs : Quiet(r) \/ Changed(r),
         \A w \in Workers : SameWorker(w) \/ JobSound(w)',
         CallsGoOn, SuccessesStay, LastRunSucceeded' \/ UNCHANGED lastRun
  PROVE  LInv'
<1>1. \A r \in Runs : RowSound(r)' /\ \A w \in Workers : AttendSound(w, r)'
  BY QuietRow DEF Changed
<1>2. \A w \in Workers : JobSound(w)'
  BY IdleWorker
<1>3. \A c \in Clients : CallSound(c)'
  BY IdleCalls
<1>4. LastRunSucceeded'
  <2>1. CASE UNCHANGED lastRun
    <3>1. lastRun \in Runs \cup {None}
      BY DEF LInv, IInv, TypeOK
    <3> QED BY <2>1, <3>1 DEF LInv, LastRunSucceeded, SuccessesStay
  <2> QED BY <2>1
<1> QED BY <1>1, <1>2, <1>3, <1>4 DEF LInv

\* The rows that a step does not touch.
LEMMA SameRow ==
  ASSUME NEW r \in Runs, run'[r] = run[r], attempt'[r] = attempt[r],
         \A w \in Workers : Attends(w, r)' => Attends(w, r)
  PROVE  Quiet(r)
BY DEF Quiet

\* The runs that a worker attends are those it monitors or handles.
LEMMA SameAttendance ==
  ASSUME NEW w \in Workers, SameWorker(w), NEW r
  PROVE  Attends(w, r)' <=> Attends(w, r)
BY DEF SameWorker, Attends

\* A step that leaves every status, counter and attendance alone moves no run.
LEMMA NothingMoves ==
  ASSUME LInv, LInv',
         \A r \in Runs : /\ run'[r].status = run[r].status /\ run'[r].attempts = run[r].attempts
                         /\ Attended(r)' <=> Attended(r)
  PROVE  LifeStep
BY Unmoved DEF LifeStep

\* A step of one worker within its handlers.
LEMMA WorkerStep ==
  ASSUME LInv, IInv', NEW w \in Workers, UNCHANGED <<run, attempt, lastRun, call>>,
         \A v \in Workers \ {w} : SameWorker(v), JobSound(w)',
         \A r \in Runs : Attends(w, r)' <=> Attends(w, r)
  PROVE  LInv' /\ LifeStep
<1>1. \A v \in Workers, r \in Runs : Attends(v, r)' <=> Attends(v, r)
  BY SameAttendance
<1>2. \A r \in Runs : Quiet(r)
  BY <1>1, SameRow
<1>3. CallsGoOn /\ SuccessesStay
  BY DEF CallsGoOn, SuccessesStay
<1>4. LInv'
  BY <1>2, <1>3, SoundStep
<1>5. \A r \in Runs : Attended(r)' <=> Attended(r)
  BY <1>1 DEF Attended
<1> QED BY <1>4, <1>5, NothingMoves

-----------------------------------------------------------------------------
(* API requests.                                                           *)

\* A request that has read its row has read it as it is.
LEMMA RequestReads ==
  ASSUME LInv, IInv', NEW c \in Clients, NEW r \in Runs,
         UNCHANGED <<run, attempt, lastRun, workerVars>>,
         \A d \in Clients \ {c} : call'[d] = call[d], call'[c].run = r, CallSound(c)',
         \A d \in Clients \ {c} : call[d].op = "create" => call[d].run # r
  PROVE  LInv' /\ LifeStep
<1>1. \A w \in Workers : SameWorker(w)
  BY DEF SameWorker, workerVars
<1>2. \A w \in Workers, q \in Runs : Attends(w, q)' <=> Attends(w, q)
  BY <1>1, SameAttendance
<1>3. \A q \in Runs : Quiet(q)
  BY <1>2, SameRow
<1>4. \A d \in Clients \ {c} : CallSound(d)'
  <2> SUFFICES ASSUME NEW d \in Clients \ {c} PROVE CallSound(d)'
    OBVIOUS
  <2>1. CallSound(d)
    BY DEF LInv
  <2>2. call'[d].op = "create" => \A e \in Clients \ {d} : call'[e] # NoCall => call'[e].run # call'[d].run
    BY <2>1 DEF CallSound
  <2> QED BY <2>1, <2>2 DEF CallSound
<1>5. LastRunSucceeded'
  BY DEF LInv, LastRunSucceeded
<1>6. LInv'
  BY <1>1, <1>3, <1>4, <1>5, QuietRow, IdleWorker DEF LInv
<1> QED BY <1>2, <1>6, NothingMoves DEF Attended

\* create_run takes an id that no other request has.
LEMMA CreateCheckStep ==
  ASSUME LInv, IInv', NEW c \in Clients, NEW r \in Runs, CreateCheck(c, r)
  PROVE  LInv' /\ LifeStep
<1>1. /\ call' = [call EXCEPT ![c] = [op |-> "create", run |-> r, read |-> run[r]]]
      /\ run[r].status = "absent" /\ \A d \in Clients : call[d] # NoCall => call[d].run # r
      /\ UNCHANGED <<run, attempt, lastRun, workerVars>>
  BY DEF CreateCheck, Enter, dbVars
<1>2. /\ call'[c] = [op |-> "create", run |-> r, read |-> run[r]]
      /\ \A d \in Clients \ {c} : call'[d] = call[d]
  BY <1>1 DEF LInv, IInv, TypeOK
<1>3. run[r] = AbsentRow
  BY <1>1 DEF LInv, RowSound
<1>4. CallSound(c)'
  BY <1>1, <1>2, <1>3 DEF CallSound
<1>5. \A d \in Clients \ {c} : call[d].op = "create" => call[d].run # r
  BY <1>1 DEF NoCall
<1> QED BY <1>1, <1>2, <1>4, <1>5, RequestReads

\* cancel_run reads a run that is active.
LEMMA CancelReadStep ==
  ASSUME LInv, IInv', NEW c \in Clients, NEW r \in Runs, CancelRead(c, r)
  PROVE  LInv' /\ LifeStep
<1>1. /\ call' = [call EXCEPT ![c] = [op |-> "cancel", run |-> r, read |-> run[r]]]
      /\ run[r].status \in ActiveStatuses
      /\ UNCHANGED <<run, attempt, lastRun, workerVars>>
  BY DEF CancelRead, Enter, dbVars
<1>2. /\ call'[c] = [op |-> "cancel", run |-> r, read |-> run[r]]
      /\ \A d \in Clients \ {c} : call'[d] = call[d]
  BY <1>1 DEF LInv, IInv, TypeOK
<1>3. RowSound(r) /\ run[r].status # "absent"
  BY <1>1 DEF LInv, ActiveStatuses
<1>4. CallSound(c)'
  BY <1>1, <1>2, <1>3 DEF CallSound, RowSound
<1>5. \A d \in Clients \ {c} : call[d].op = "create" => call[d].run # r
  BY <1>3 DEF LInv, CallSound, AbsentRow
<1> QED BY <1>1, <1>2, <1>4, <1>5, RequestReads

\* The row is inserted: a run that nobody knew begins to wait.
LEMMA CreateCommitStep ==
  ASSUME LInv, IInv', NEW c \in Clients, CreateCommit(c)
  PROVE  LInv' /\ LifeStep
<1>1. PICK r : r = call[c].run
  OBVIOUS
<1>2. /\ call[c].op = "create" /\ r \in Runs /\ call[c].read = AbsentRow /\ run[r] = AbsentRow
      /\ \A d \in Clients \ {c} : call[d] # NoCall => call[d].run # r
  <2>1. call[c].op = "create" /\ CallSound(c)
    BY DEF CreateCommit, Reply, LInv
  <2>2. r \in Runs
    BY <1>1, <2>1, CallShape DEF LInv, IInv, TypeOK
  <2> QED BY <1>1, <2>1, <2>2 DEF CallSound
<1>3. PICK new : new = Flush(AbsentRow, AbsentRow, NewRow)
  OBVIOUS
<1>4. /\ new.status = "queued" /\ new.locked_by = None /\ new.heartbeat = "none"
       /\ new.attempts = 0
  <2>1. /\ NewRow.status = "queued" /\ NewRow.locked_by = None /\ NewRow.attempts = 0
        /\ NewRow.heartbeat = "none"
    BY DEF NewRow, AbsentRow
  <2>2. /\ AbsentRow.status = "absent" /\ AbsentRow.locked_by = None /\ AbsentRow.attempts = 0
        /\ AbsentRow.heartbeat = "none"
    BY DEF AbsentRow
  <2> QED BY <1>3, <2>1, <2>2 DEF Flush, Written
<1>5. /\ run' = [run EXCEPT ![r] = new] /\ call' = [call EXCEPT ![c] = NoCall]
      /\ UNCHANGED <<attempt, lastRun, workerVars, child, boundVars>>
  BY <1>1, <1>2, <1>3 DEF CreateCommit, Reply
<1>6. run'[r] = new /\ \A q \in Runs \ {r} : run'[q] = run[q]
  BY <1>2, <1>5 DEF LInv, IInv, TypeOK
<1>7. \A w \in Workers : SameWorker(w)
  BY <1>5 DEF SameWorker, workerVars
<1>8. \A w \in Workers, q \in Runs : Attends(w, q)' <=> Attends(w, q)
  BY <1>7, SameAttendance
<1>9. \A w \in Workers : ~Attends(w, r)
  BY <1>2 DEF LInv, AttendSound, AbsentRow
<1>10. \A q \in Runs \ {r} : Quiet(q)
  BY <1>5, <1>6, <1>8, SameRow
<1>11. Changed(r)
  <2>1. ~run[r].cancel_requested
    BY <1>2 DEF AbsentRow
  <2>2. RowSound(r)'
    BY <1>6, <1>4, BoundAssumption DEF RowSound, Agrees
  <2>3. \A w \in Workers : AttendSound(w, r)'
    BY <1>2, <1>8, <1>9 DEF AttendSound
  <2>4. ASSUME NEW w \in Workers, job'[w].op \in {"startfail", "finalize"} PROVE job'[w].run # r
    <3>1. JobSound(w) /\ job'[w] = job[w]
      BY <1>7 DEF LInv, SameWorker
    <3> QED BY <1>9, <2>4, <3>1 DEF JobSound, Attends, NoJob
  <2> QED BY <1>6, <1>4, <2>1, <2>2, <2>3, <2>4 DEF Changed
<1>12. CallsGoOn
  BY <1>2, <1>5, <1>6, CallShape DEF CallsGoOn, NoCall, LInv, IInv, TypeOK
<1>13. SuccessesStay
  BY <1>5 DEF SuccessesStay
<1>14. LInv'
  BY <1>5, <1>7, <1>10, <1>11, <1>12, <1>13, SoundStep
<1>15. Submits(r)
  <2>1. StageIs(r) /\ StageIs(r)'
    BY <1>2, <1>14, StageOf, StageOfNext
  <2> QED BY <1>2, <1>6, <1>4, <2>1 DEF Submits, StageIs, AbsentRow
<1>16. \A q \in Runs \ {r} : Stays(q)
  BY <1>6, <1>8, <1>14, Unmoved DEF Attended
<1> QED BY <1>2, <1>14, <1>15, <1>16 DEF LifeStep

\* What a cancellation writes, whatever the run has become since it was read.
LEMMA CancelWrites ==
  ASSUME NEW row \in Row, NEW was \in Row, was.status \in ActiveStatuses,
         was.status = "queued" => was.locked_by = None /\ was.heartbeat = "none",
         was.cancel_requested => row.cancel_requested
  PROVE  LET new == Flush(row, was, CancelRequested(was))
         IN  /\ new.status = IF was.status = "queued" THEN "cancelled" ELSE row.status
             /\ new.cancel_requested /\ new.locked_by = row.locked_by
             /\ new.heartbeat = row.heartbeat /\ new.attempts = row.attempts
<1> DEFINE wanted == CancelRequested(was)
<1>1. /\ wanted.status = IF was.status = "queued" THEN "cancelled" ELSE was.status
      /\ wanted.cancel_requested = TRUE /\ wanted.locked_by = was.locked_by
      /\ wanted.heartbeat = was.heartbeat /\ wanted.attempts = was.attempts
  BY DEF CancelRequested, Unlocked, Row, ActiveStatuses, TerminalStatuses
<1>2. row.cancel_requested \in BOOLEAN /\ was.cancel_requested \in BOOLEAN
  BY DEF Row
<1> HIDE DEF wanted
<1>3. /\ Written(row.cancel_requested, was.cancel_requested, wanted.cancel_requested) = TRUE
      /\ Written(row.locked_by, was.locked_by, wanted.locked_by) = row.locked_by
      /\ Written(row.heartbeat, was.heartbeat, wanted.heartbeat) = row.heartbeat
      /\ Written(row.attempts, was.attempts, wanted.attempts) = row.attempts
  BY <1>1, <1>2 DEF Written
<1>4. Written(row.status, was.status, wanted.status)
        = IF was.status = "queued" THEN "cancelled" ELSE row.status
  BY <1>1 DEF Written
<1> HIDE DEF Written
<1> QED BY <1>3, <1>4 DEF Flush, wanted

\* Withdrawing a run that waits, or telling the worker of one that does not; if
\* the run was claimed in between, its worker goes on.
LEMMA CancelCommitStep ==
  ASSUME LInv, IInv', NEW c \in Clients, CancelCommit(c)
  PROVE  LInv' /\ LifeStep
<1>1. PICK r, was : r = call[c].run /\ was = call[c].read
  OBVIOUS
<1>2. /\ call[c].op = "cancel" /\ r \in Runs /\ was \in Row /\ run[r] \in Row
      /\ was.status \in ActiveStatuses /\ run[r].status # "absent"
      /\ was.status = "queued" => was.locked_by = None /\ was.heartbeat = "none"
      /\ was.cancel_requested => run[r].cancel_requested
  <2>1. call[c].op = "cancel" /\ CallSound(c)
    BY DEF CancelCommit, Reply, LInv
  <2>2. r \in Runs /\ was \in Row
    BY <1>1, <2>1, CallShape DEF LInv, IInv, TypeOK
  <2> QED BY <1>1, <2>1, <2>2 DEF CallSound, LInv, IInv, TypeOK
<1>3. PICK new : /\ new = Flush(run[r], was, CancelRequested(was))
                 /\ run' = [run EXCEPT ![r] = new] /\ call' = [call EXCEPT ![c] = NoCall]
                 /\ UNCHANGED <<attempt, lastRun, workerVars, child, boundVars>>
  BY <1>1 DEF CancelCommit, Reply
<1>4. /\ new.status \in {run[r].status, "cancelled"} /\ new.cancel_requested
      /\ new.locked_by = run[r].locked_by /\ new.heartbeat = run[r].heartbeat
      /\ new.attempts = run[r].attempts
  BY <1>2, <1>3, CancelWrites
<1>5. run'[r] = new /\ \A q \in Runs \ {r} : run'[q] = run[q]
  BY <1>2, <1>3 DEF LInv, IInv, TypeOK
<1>6. \A w \in Workers : SameWorker(w)
  BY <1>3 DEF SameWorker, workerVars
<1>7. \A w \in Workers, q \in Runs : Attends(w, q)' <=> Attends(w, q)
  BY <1>6, SameAttendance
<1>8. \A q \in Runs \ {r} : Quiet(q)
  BY <1>3, <1>5, <1>7, SameRow
<1>9. Quiet(r)
  BY <1>2, <1>3, <1>4, <1>5, <1>7 DEF Quiet
<1>10. CallsGoOn
  <2>1. \A d \in Clients : call[d].op = "create" => call[d].run # r
    BY <1>2 DEF LInv, CallSound, AbsentRow
  <2> QED BY <1>3, <1>5, <2>1, CallShape DEF CallsGoOn, NoCall, LInv, IInv, TypeOK
<1>11. SuccessesStay
  BY <1>3 DEF SuccessesStay
<1>12. LInv'
  BY <1>3, <1>6, <1>8, <1>9, <1>10, <1>11, SoundStep
<1>13. \A q \in Runs \ {r} : Stays(q)
  BY <1>5, <1>7, <1>12, Unmoved DEF Attended
<1>14. Attended(r)' <=> Attended(r)
  BY <1>2, <1>7 DEF Attended
<1>15. Stays(r) \/ Withdraws(r) \/ Ends(r)
  <2>1. StageIs(r) /\ StageIs(r)'
    BY <1>2, <1>12, StageOf, StageOfNext
  <2>2. run'[r].attempts = run[r].attempts
    BY <1>4, <1>5
  <2>3. CASE new.status = run[r].status
    BY <1>2, <1>5, <1>12, <1>14, <2>2, <2>3, Unmoved
  <2>4. CASE new.status = "cancelled" /\ run[r].status = "queued"
    <3>1. ~Attended(r)
      BY <1>2, <2>4 DEF Attended, LInv, AttendSound
    <3> QED BY <1>5, <1>14, <2>1, <2>2, <2>4, <3>1 DEF StageIs, Withdraws
  <2>5. CASE new.status = "cancelled" /\ run[r].status # "queued"
    BY <1>2, <1>5, <1>14, <2>1, <2>2, <2>5 DEF StageIs, Stays, Ends
  <2> QED BY <1>4, <2>3, <2>4, <2>5
<1> QED BY <1>2, <1>12, <1>13, <1>15 DEF LifeStep

\* Every request, when nobody retries a run by hand.
LEMMA RequestSteps ==
  ASSUME LInv, IInv', MaxRetries = 0, NEW c \in Clients, ApiStep(c)
  PROVE  LInv' /\ LifeStep
<1>1. ASSUME NEW r \in Runs PROVE ~RetryRead(c, r)
  BY DEF RetryRead, LInv, IInv, TypeOK
<1>2. ~RetryCommit(c)
  BY DEF RetryCommit, Reply, LInv, CallSound
<1> QED BY <1>1, <1>2, CreateCheckStep, CancelReadStep, CreateCommitStep, CancelCommitStep DEF ApiStep

-----------------------------------------------------------------------------
(* Claiming and starting.                                                  *)

\* Who is busy with a run owns it, and nobody else is.
LEMMA AttendedAlone ==
  ASSUME LInv, NEW w \in Workers, NEW r \in Runs, Attends(w, r)
  PROVE  /\ run[r].locked_by = w /\ run[r].status \in {"running", "cancelled"}
         /\ run[r].heartbeat = "fresh" /\ run[r].attempts \in AttemptNo /\ Last(r) = "running"
         /\ \A v \in Workers \ {w} : ~Attends(v, r)
BY DEF LInv, AttendSound, Owns

\* A worker inside a handler is busy with the run of that handler.
LEMMA Handling ==
  ASSUME LInv, NEW w \in Workers, job[w].op # "none"
  PROVE  /\ job[w] \in Job /\ job[w].run \in Runs /\ job[w].read \in Row
         /\ mode[w] # "down" /\ Attends(w, job[w].run) /\ JobSound(w)
<1>1. job[w] \in Job /\ job[w].run \in Runs /\ job[w].read \in Row
  BY JobShape DEF LInv, IInv, TypeOK
<1>2. job[w] # NoJob
  BY DEF NoJob
<1> QED BY <1>1, <1>2 DEF LInv, JobSound, Attends

\* A run is claimed while nobody is busy with it.
LEMMA ClaimMoves ==
  ASSUME LInv, IInv', NEW w \in Workers, NEW r \in Runs, Claim(w, r)
  PROVE  LInv' /\ LifeStep
<1>1. PICK n : n = NextAttempt(r)
  OBVIOUS
<1>2. /\ n = run[r].attempts + 1 /\ n \in AttemptNo /\ n <= MaxAttempts
      /\ run[r] \in Row /\ run[r].status = "queued" /\ run[r].attempts < MaxAttempts
      /\ job[w] = NoJob /\ mode[w] # "down"
  <2>1. n = run[r].attempts + 1 /\ n <= MaxClaims /\ run[r].attempts \in Nat /\ run[r] \in Row
    BY <1>1, NextAttemptNumber DEF Claim, LInv, IInv, TypeOK, Row
  <2>2. run[r].status = "queued" /\ run[r].attempts < MaxAttempts
    BY DEF Claim, Claimable, LInv, RowSound
  <2> QED BY <2>1, <2>2, BoundAssumption DEF AttemptNo, Claim, Idle
<1>3. /\ run' = [run EXCEPT ![r] = Claimed(run[r], w, n)]
      /\ attempt' = [attempt EXCEPT ![r][n] = [status |-> "running", worker_id |-> w]]
      /\ job' = [job EXCEPT ![w] = [op |-> "start", run |-> r, number |-> n,
                                    forced |-> "none", read |-> AbsentRow]]
      /\ UNCHANGED <<lastRun, mode, active, sent, child, call, boundVars>>
  BY <1>1 DEF Claim
<1>4. \A v \in Workers : ~Attends(v, r)
  BY <1>2, AttendedAlone
<1>5. /\ run'[r].status = "running" /\ run'[r].attempts = n /\ run'[r].locked_by = w
      /\ run'[r].heartbeat = "fresh" /\ run'[r].cancel_requested = run[r].cancel_requested
      /\ \A q \in Runs \ {r} : run'[q] = run[q]
  BY <1>2, <1>3 DEF Claimed, Row, LInv, IInv, TypeOK
<1>6. /\ attempt'[r][n].status = "running"
      /\ \A q \in Runs, m \in AttemptNo : q # r \/ m # n => attempt'[q][m] = attempt[q][m]
      /\ \A q \in Runs \ {r} : attempt'[q] = attempt[q]
  BY <1>2, <1>3 DEF LInv, IInv, TypeOK
<1>7. /\ \A v \in Workers \ {w} : SameWorker(v)
      /\ job'[w].op = "start" /\ job'[w].run = r
  BY <1>3 DEF SameWorker, LInv, IInv, TypeOK
<1>8. /\ \A v \in Workers \ {w}, q \in Runs : Attends(v, q)' <=> Attends(v, q)
      /\ \A q \in Runs \ {r} : Attends(w, q)' <=> Attends(w, q)
      /\ Attends(w, r)'
  <2>1. \A v \in Workers \ {w}, q \in Runs : Attends(v, q)' <=> Attends(v, q)
    BY <1>7, SameAttendance
  <2>2. job'[w] # NoJob
    BY <1>7 DEF NoJob
  <2> QED BY <1>2, <1>3, <1>7, <2>1, <2>2 DEF Attends
<1>9. \A q \in Runs \ {r} : Quiet(q)
  BY <1>5, <1>6, <1>8, SameRow
<1>10. Changed(r)
  <2>1. RowSound(r)'
    BY <1>2, <1>5, <1>6 DEF RowSound, Agrees
  <2>2. \A v \in Workers : AttendSound(v, r)'
    BY <1>2, <1>4, <1>5, <1>6, <1>8 DEF AttendSound, Owns, Last
  <2>3. \A v \in Workers \ {w} : job'[v].op \in {"startfail", "finalize"} => job'[v].run # r
    BY <1>4, <1>7, Handling DEF SameWorker
  <2> QED BY <1>5, <1>7, <2>1, <2>2, <2>3 DEF Changed
<1>11. JobSound(w)'
  <2>1. active[w][r] = 0
    BY <1>2, <1>4 DEF Attends
  <2> QED BY <1>2, <1>3, <1>7, <2>1 DEF JobSound
<1>12. CallsGoOn
  <2>1. \A c \in Clients : call[c].op = "create" => call[c].run # r
    BY <1>2 DEF LInv, CallSound, AbsentRow
  <2> QED BY <1>3, <1>5, <2>1, CallShape DEF CallsGoOn, LInv, IInv, TypeOK
<1>13. SuccessesStay
  <2>1. attempt[r][n].status = "none"
    BY <1>2 DEF LInv, IInv, AttemptLedger, Row, AttemptNo
  <2> QED BY <1>6, <2>1 DEF SuccessesStay
<1>14. LInv'
  BY <1>3, <1>7, <1>9, <1>10, <1>11, <1>12, <1>13, SoundStep
<1>15. Begins(r)
  <2>1. StageIs(r) /\ StageIs(r)'
    BY <1>14, StageOf, StageOfNext
  <2> QED BY <1>2, <1>5, <2>1 DEF Begins, StageIs
<1>16. \A q \in Runs \ {r} : Stays(q)
  BY <1>5, <1>8, <1>14, Unmoved DEF Attended
<1> QED BY <1>14, <1>15, <1>16 DEF LifeStep

\* The ownership check of start_run.
LEMMA StartCheckMoves ==
  ASSUME LInv, IInv', NEW w \in Workers, StartCheck(w)
  PROVE  LInv' /\ LifeStep
<1>1. /\ job[w].op = "start" /\ JobSound(w) /\ mode[w] # "down" /\ job[w] \in Job
      /\ active[w][job[w].run] = 0
  <2>1. job[w].op = "start"
    BY DEF StartCheck
  <2> QED BY <2>1, Handling DEF JobSound, NoJob
<1>2. /\ job'[w].op \in {"launch", "refused"} /\ job'[w].run = job[w].run
      /\ UNCHANGED <<run, attempt, lastRun, call, mode, active>>
      /\ \A v \in Workers \ {w} : SameWorker(v)
  BY <1>1 DEF StartCheck, dbVars, SameWorker, LInv, IInv, TypeOK, Job
<1>3. JobSound(w)'
  BY <1>1, <1>2 DEF JobSound
<1>4. \A r \in Runs : Attends(w, r)' <=> Attends(w, r)
  BY <1>1, <1>2 DEF Attends, NoJob
<1> QED BY <1>2, <1>3, <1>4, WorkerStep

\* The handler hands the run over to the monitor.
LEMMA LaunchMoves ==
  ASSUME LInv, IInv', NEW w \in Workers, Launch(w)
  PROVE  LInv' /\ LifeStep
<1>1. PICK r, n : r = job[w].run /\ n = job[w].number
  OBVIOUS
<1>2. job[w].op = "launch" /\ mode[w] # "down" /\ r \in Runs /\ n # 0
  <2>1. job[w].op = "launch"
    BY DEF Launch
  <2> QED BY <1>1, <2>1, Handling DEF LInv, IInv, AttemptHasOneExecutor, AttemptNo
<1>3. /\ active' = [active EXCEPT ![w][r] = n] /\ job' = [job EXCEPT ![w] = NoJob]
      /\ UNCHANGED <<run, attempt, lastRun, call, mode>>
  BY <1>1 DEF Launch, dbVars
<1>4. /\ job'[w] = NoJob /\ active'[w][r] = n
      /\ \A q \in Runs \ {r} : active'[w][q] = active[w][q]
      /\ \A v \in Workers \ {w} : SameWorker(v)
  BY <1>2, <1>3 DEF SameWorker, LInv, IInv, TypeOK
<1>5. JobSound(w)'
  BY <1>4 DEF JobSound, NoJob
<1>6. \A q \in Runs : Attends(w, q)' <=> Attends(w, q)
  BY <1>1, <1>2, <1>3, <1>4 DEF Attends, NoJob
<1> QED BY <1>3, <1>4, <1>5, <1>6, WorkerStep

\* start_run raised: the run is loaded again, by its owner still.
LEMMA StartRaisedMoves ==
  ASSUME LInv, IInv', NEW w \in Workers, StartRaised(w)
  PROVE  LInv' /\ LifeStep
<1>1. PICK r : r = job[w].run
  OBVIOUS
<1>2. /\ job[w].op \in {"launch", "refused"} /\ JobSound(w) /\ mode[w] # "down" /\ job[w] \in Job
      /\ r \in Runs /\ Attends(w, r) /\ active[w][r] = 0
  <2>1. job[w].op \in {"launch", "refused"}
    BY DEF StartRaised
  <2> QED BY <1>1, <2>1, Handling DEF JobSound, NoJob
<1>3. /\ job'[w].op = "startfail" /\ job'[w].run = r /\ job'[w].read = run[r]
      /\ UNCHANGED <<run, attempt, lastRun, call, mode, active>>
      /\ \A v \in Workers \ {w} : SameWorker(v)
  BY <1>1, <1>2 DEF StartRaised, dbVars, SameWorker, LInv, IInv, TypeOK, Job
<1>4. JobSound(w)'
  <2>1. RowSound(r)
    BY <1>2 DEF LInv
  <2> QED BY <1>2, <1>3, <2>1, AttendedAlone DEF JobSound, RowSound
<1>5. \A q \in Runs : Attends(w, q)' <=> Attends(w, q)
  BY <1>1, <1>2, <1>3 DEF Attends, NoJob
<1> QED BY <1>3, <1>4, <1>5, WorkerStep

-----------------------------------------------------------------------------
(* The end of an attempt.                                                  *)

\* How an attempt may end: only failures are retryable.
Verdicts == (ExitStates \X BOOLEAN) \ ({"succeeded", "cancelled"} \X {TRUE})

\* What the end of an attempt wants of the row that was read.
Wants(was, status, wanted, out) ==
  /\ wanted.locked_by = None /\ wanted.heartbeat = "none"
  /\ wanted.attempts = was.attempts
  /\ wanted.cancel_requested \in {was.cancel_requested, TRUE}
  /\ status = "succeeded" => out = "succeeded"
  /\ \/ /\ wanted.status = "queued" /\ out = "retry_wait"
        /\ was.attempts < MaxAttempts /\ ~was.cancel_requested
     \/ /\ wanted.status = status /\ out = status /\ status \in {"succeeded", "failed", "timed_out"}
        /\ status = "succeeded" \/ ~was.cancel_requested
     \/ /\ wanted.status = "cancelled" /\ out \in ExitStates
        /\ wanted.cancel_requested = TRUE

\* finalize_active unlocks the row and requeues, fails or cancels the run.
LEMMA EndWants ==
  ASSUME NEW was \in Row, was.status = "cancelled" => was.cancel_requested,
         NEW v \in Verdicts
  PROVE  Wants(was, v[1], Finalized(was, v[1], v[2]), AttemptOutcome(was, v[1], v[2]))
<1> DEFINE can == CanRetry(was, v[1], v[2])
<1>0. /\ v[1] \in ExitStates /\ v[2] \in BOOLEAN
      /\ v[1] \in {"succeeded", "cancelled"} => v[2] = FALSE
  BY DEF Verdicts
<1>1. /\ Unlocked(was) \in Row /\ Unlocked(was).locked_by = None
      /\ Unlocked(was).heartbeat = "none" /\ Unlocked(was).attempts = was.attempts
      /\ Unlocked(was).cancel_requested = was.cancel_requested
  BY DEF Unlocked, Row
<1>2. CASE v[1] = "succeeded"
  BY <1>1, <1>0, <1>2 DEF Wants, Finalized, AttemptOutcome, CanRetry, Retriable, Row
<1>3. CASE v[1] = "cancelled"
  <2> DEFINE flagged == [was EXCEPT !.cancel_requested = TRUE]
  <2>1. /\ flagged \in Row /\ flagged.cancel_requested = TRUE /\ flagged.attempts = was.attempts
    BY DEF Row
  <2> HIDE DEF flagged
  <2>2. Finalized(was, v[1], v[2]) = FailedOrRequeued(flagged, "cancelled", FALSE)
    BY <1>3 DEF Finalized, flagged
  <2>3. /\ Unlocked(flagged) \in Row /\ Unlocked(flagged).locked_by = None
        /\ Unlocked(flagged).heartbeat = "none" /\ Unlocked(flagged).attempts = was.attempts
        /\ Unlocked(flagged).cancel_requested = TRUE
    BY <2>1 DEF Unlocked, Row
  <2>4. ~CanRetry(flagged, "cancelled", FALSE) /\ ~can
    BY <1>0, <1>3 DEF CanRetry, Retriable
  <2> QED BY <1>3, <2>1, <2>2, <2>3, <2>4 DEF Wants, FailedOrRequeued, AttemptOutcome, Row, ExitStates
<1>4. CASE v[1] \in {"failed", "timed_out"}
  <2>1. Finalized(was, v[1], v[2]) = FailedOrRequeued(was, v[1], v[2])
    BY <1>4 DEF Finalized
  <2>2. CASE can
    <3>1. was.attempts < MaxAttempts /\ ~was.cancel_requested
      BY <2>2 DEF CanRetry
    <3> QED BY <1>1, <1>4, <2>1, <2>2, <3>1 DEF Wants, FailedOrRequeued, AttemptOutcome, Row
  <2>3. CASE ~can
    <3>1. was.cancel_requested \in BOOLEAN
      BY DEF Row
    <3> QED BY <1>1, <1>4, <2>1, <2>3, <3>1 DEF Wants, FailedOrRequeued, AttemptOutcome, Row, ExitStates
  <2> QED BY <2>2, <2>3
<1> QED BY <1>2, <1>3, <1>4, <1>0 DEF ExitStates

\* What it writes, when the row has at most been cancelled since.
LEMMA EndWrites ==
  ASSUME NEW was \in Row, NEW row \in Row, was.locked_by # None, was.heartbeat = "fresh",
         was.status \in {"running", "cancelled"}, was.attempts = row.attempts,
         was.status = "cancelled" => row.status = "cancelled" /\ was.cancel_requested,
         was.cancel_requested => row.cancel_requested,
         row.status = "cancelled" => row.cancel_requested,
         NEW v1 \in ExitStates, NEW wanted, NEW out, Wants(was, v1, wanted, out)
  PROVE  LET new == Flush(row, was, wanted)
         IN  /\ new.locked_by = None /\ new.heartbeat = "none" /\ new.attempts = row.attempts
             /\ row.cancel_requested => new.cancel_requested
             /\ v1 = "succeeded" => out = "succeeded"
             /\ \/ new.status = "queued" /\ out = "retry_wait" /\ row.attempts < MaxAttempts
                \/ new.status = out /\ out \in {"succeeded", "failed", "timed_out"}
                \/ new.status = "cancelled" /\ new.cancel_requested /\ out \in ExitStates
<1> DEFINE new == Flush(row, was, wanted)
<1>3. /\ new.status = Written(row.status, was.status, wanted.status)
      /\ new.cancel_requested
           = Written(row.cancel_requested, was.cancel_requested, wanted.cancel_requested)
      /\ new.locked_by = Written(row.locked_by, was.locked_by, wanted.locked_by)
      /\ new.attempts = Written(row.attempts, was.attempts, wanted.attempts)
      /\ new.heartbeat = Written(row.heartbeat, was.heartbeat, wanted.heartbeat)
  <2> HIDE DEF Written
  <2> QED BY DEF Flush
<1> HIDE DEF new
<1>4. /\ new.locked_by = None /\ new.heartbeat = "none" /\ new.attempts = row.attempts
  BY <1>3 DEF Written, Wants
<1>5. /\ row.cancel_requested \in BOOLEAN /\ was.cancel_requested \in BOOLEAN
      /\ new.cancel_requested \in {row.cancel_requested, TRUE}
      /\ wanted.cancel_requested = TRUE => new.cancel_requested = TRUE
  BY <1>3 DEF Written, Wants, Row
<1>6. new.status = wanted.status
  <2>1. CASE was.status = "running"
    BY <1>3, <2>1 DEF Written, Wants
  <2>2. CASE was.status = "cancelled"
    BY <1>3, <2>2 DEF Written, Wants
  <2> QED BY <2>1, <2>2
<1>7. /\ new.locked_by = None /\ new.heartbeat = "none" /\ new.attempts = row.attempts
      /\ row.cancel_requested => new.cancel_requested
      /\ v1 = "succeeded" => out = "succeeded"
      /\ \/ new.status = "queued" /\ out = "retry_wait" /\ row.attempts < MaxAttempts
         \/ new.status = out /\ out \in {"succeeded", "failed", "timed_out"}
         \/ new.status = "cancelled" /\ new.cancel_requested /\ out \in ExitStates
  BY <1>4, <1>5, <1>6 DEF Wants, ExitStates
<1> QED BY <1>7 DEF new

\* Settling changes one audit row.
LEMMA SettleWrites ==
  ASSUME TypeOK, NEW r \in Runs, NEW n \in AttemptNo, attempt[r][n].status # "none",
         NEW out, Settle(r, n, out)
  PROVE  /\ attempt'[r][n].status = out
         /\ \A q \in Runs, m \in AttemptNo : q # r \/ m # n => attempt'[q][m] = attempt[q][m]
         /\ \A q \in Runs \ {r} : attempt'[q] = attempt[q]
<1> DEFINE s == [attempt[r][n] EXCEPT !.status = out]
           f == [m \in AttemptNo |-> IF m = n THEN s ELSE attempt[r][m]]
<1>1. s.status = out
  BY DEF TypeOK, AttemptRow
<1>2. [m \in AttemptNo |-> IF m = n /\ attempt[r][m].status # "none"
                           THEN [attempt[r][m] EXCEPT !.status = out] ELSE attempt[r][m]] = f
  OBVIOUS
<1>3. attempt' = [attempt EXCEPT ![r] = f]
  BY <1>2 DEF Settle
<1> HIDE DEF s
<1> QED BY <1>1, <1>3 DEF TypeOK

\* The last commit of an attempt, of finalize_active and of the handler of a
\* failed start: nobody is busy with the run any more.
LEMMA AttemptEnds ==
  ASSUME LInv, IInv', NEW w \in Workers, job[w].op \in {"startfail", "finalize"},
         NEW r, r = job[w].run, NEW was, was = job[w].read,
         NEW v1 \in ExitStates, NEW wanted, NEW out, Wants(was, v1, wanted, out),
         run' = [run EXCEPT ![r] = Flush(run[r], was, wanted)],
         Settle(r, was.attempts, out),
         lastRun' = lastRun \/ (v1 = "succeeded" /\ lastRun' = r),
         job' = [job EXCEPT ![w] = NoJob], active'[w][r] = 0,
         \A q \in Runs \ {r} : active'[w][q] = active[w][q],
         \A v \in Workers \ {w} : active'[v] = active[v], UNCHANGED <<mode, call>>
  PROVE  LInv' /\ LifeStep
<1>1. /\ r \in Runs /\ was \in Row /\ mode[w] # "down" /\ Attends(w, r) /\ JobSound(w)
      /\ run[r] \in Row /\ RowSound(r)
  BY Handling DEF LInv, IInv, TypeOK
<1>2. /\ run[r].status \in {"running", "cancelled"} /\ run[r].attempts \in AttemptNo
      /\ Last(r) = "running" /\ \A v \in Workers \ {w} : ~Attends(v, r)
  BY <1>1, AttendedAlone
<1>3. /\ was.locked_by = w /\ was.status \in {"running", "cancelled"}
      /\ was.heartbeat = "fresh" /\ was.attempts = run[r].attempts
      /\ was.status = "cancelled" => run[r].status = "cancelled" /\ was.cancel_requested
      /\ was.cancel_requested => run[r].cancel_requested
      /\ run[r].status = "cancelled" => run[r].cancel_requested
  BY <1>1 DEF JobSound, RowSound
<1>4. PICK new, n : new = Flush(run[r], was, wanted) /\ n = run[r].attempts
  OBVIOUS
<1>5. /\ new.locked_by = None /\ new.heartbeat = "none" /\ new.attempts = n
      /\ run[r].cancel_requested => new.cancel_requested
      /\ v1 = "succeeded" => out = "succeeded"
      /\ \/ new.status = "queued" /\ out = "retry_wait" /\ n < MaxAttempts
         \/ new.status = out /\ out \in {"succeeded", "failed", "timed_out"}
         \/ new.status = "cancelled" /\ new.cancel_requested /\ out \in ExitStates
  BY <1>1, <1>3, <1>4, EndWrites, NoneAssumption
<1>6. run'[r] = new /\ \A q \in Runs \ {r} : run'[q] = run[q]
  BY <1>1, <1>4 DEF LInv, IInv, TypeOK
<1>7. /\ attempt'[r][n].status = out
      /\ \A q \in Runs, m \in AttemptNo : q # r \/ m # n => attempt'[q][m] = attempt[q][m]
      /\ \A q \in Runs \ {r} : attempt'[q] = attempt[q]
  <2>1. n \in AttemptNo /\ attempt[r][n].status # "none" /\ TypeOK /\ Settle(r, n, out)
    BY <1>2, <1>3, <1>4 DEF Last, LInv, IInv
  <2> QED BY <1>1, <2>1, SettleWrites
<1>8. /\ job'[w] = NoJob /\ \A v \in Workers \ {w} : SameWorker(v)
  BY DEF SameWorker, LInv, IInv, TypeOK
<1>9. /\ \A v \in Workers, q \in Runs \ {r} : Attends(v, q)' <=> Attends(v, q)
      /\ \A v \in Workers : ~Attends(v, r)'
  <2>1. \A v \in Workers \ {w}, q \in Runs : Attends(v, q)' <=> Attends(v, q)
    BY <1>8, SameAttendance
  <2>2. \A q \in Runs \ {r} : Attends(w, q)' <=> Attends(w, q)
    BY <1>8 DEF Attends
  <2>3. ~Attends(w, r)'
    BY <1>8 DEF Attends
  <2> QED BY <1>1, <1>2, <2>1, <2>2, <2>3
<1>10. \A q \in Runs \ {r} : Quiet(q)
  BY <1>6, <1>7, <1>9, SameRow
<1>11. new.status # "absent" /\ n \in AttemptNo /\ n <= MaxAttempts
  BY <1>1, <1>2, <1>4, <1>5 DEF RowSound, ExitStates
<1>12. Changed(r)
  <2>1. Agrees(r)'
    BY <1>5, <1>6, <1>7 DEF Agrees, ExitStates
  <2>2. RowSound(r)'
    BY <1>5, <1>6, <1>11, <2>1 DEF RowSound
  <2>3. \A v \in Workers : AttendSound(v, r)'
    BY <1>1, <1>9 DEF AttendSound
  <2>4. \A v \in Workers : job'[v].op \in {"startfail", "finalize"} => job'[v].run # r
    BY <1>2, <1>8, Handling DEF SameWorker, NoJob
  <2> QED BY <1>5, <1>6, <1>11, <2>2, <2>3, <2>4 DEF Changed
<1>13. JobSound(w)'
  BY <1>8 DEF JobSound, NoJob
<1>14. CallsGoOn
  <2>1. \A c \in Clients : call[c].op = "create" => call[c].run # r
    BY <1>2 DEF LInv, CallSound, AbsentRow
  <2> QED BY <1>6, <2>1, CallShape DEF CallsGoOn, LInv, IInv, TypeOK
<1>15. SuccessesStay
  BY <1>2, <1>4, <1>7 DEF SuccessesStay, Last
<1>16. LastRunSucceeded' \/ UNCHANGED lastRun
  BY <1>1, <1>5, <1>7, <1>11 DEF LastRunSucceeded
<1>17. LInv'
  BY <1>8, <1>10, <1>12, <1>13, <1>14, <1>15, <1>16, SoundStep
<1>18. Ends(r)
  <2>1. StageIs(r) /\ StageIs(r)' /\ Attended(r) /\ ~Attended(r)'
    BY <1>1, <1>9, <1>17, StageOf, StageOfNext DEF Attended
  <2> QED BY <1>4, <1>5, <1>6, <2>1 DEF Ends, StageIs, ExitStates
<1>19. \A q \in Runs \ {r} : Stays(q)
  BY <1>6, <1>9, <1>17, Unmoved DEF Attended
<1> QED BY <1>17, <1>18, <1>19 DEF LifeStep

\* WORKER_START_FAILED is written by the owner of the run.
LEMMA StartFailedMoves ==
  ASSUME LInv, IInv', NEW w \in Workers, StartFailed(w)
  PROVE  LInv' /\ LifeStep
<1>1. PICK r, was : r = job[w].run /\ was = job[w].read
  OBVIOUS
<1>2. /\ job[w].op = "startfail" /\ active[w][r] = 0
  BY <1>1, Handling DEF StartFailed, JobSound, NoJob
<1>3. /\ run' = [run EXCEPT ![r] = Flush(run[r], was, Finalized(was, "failed", TRUE))]
      /\ Settle(r, was.attempts, AttemptOutcome(was, "failed", TRUE))
      /\ job' = [job EXCEPT ![w] = NoJob] /\ UNCHANGED <<lastRun, mode, active, call>>
  <2>1. FailedOrRequeued(was, "failed", TRUE) = Finalized(was, "failed", TRUE)
    BY DEF Finalized
  <2> QED BY <1>1, <2>1 DEF StartFailed
<1>4. PICK wanted, out : /\ wanted = Finalized(was, "failed", TRUE)
                         /\ out = AttemptOutcome(was, "failed", TRUE)
  OBVIOUS
<1>5. Wants(was, "failed", wanted, out)
  <2>1. <<"failed", TRUE>> \in Verdicts
    BY DEF Verdicts, ExitStates
  <2>2. was \in Row /\ (was.status = "cancelled" => was.cancel_requested)
    BY <1>1, <1>2, Handling DEF JobSound, LInv, IInv, TypeOK, Job
  <2> DEFINE v == <<"failed", TRUE>>
  <2>3. Wants(was, v[1], Finalized(was, v[1], v[2]), AttemptOutcome(was, v[1], v[2]))
    <3> HIDE DEF v
    <3> QED BY <2>1, <2>2, EndWants DEF v
  <2> QED BY <1>4, <2>3
<1>6. "failed" \in ExitStates
  BY DEF ExitStates
<1> QED BY <1>1, <1>2, <1>3, <1>4, <1>5, <1>6, AttemptEnds

\* The commit of finalize_active.
LEMMA FinalizeMoves ==
  ASSUME LInv, IInv', NEW w \in Workers, FinalizeCommit(w)
  PROVE  LInv' /\ LifeStep
<1>1. PICK r, was : r = job[w].run /\ was = job[w].read
  OBVIOUS
<1>2. /\ job[w].op = "finalize" /\ job[w] \in Job /\ r \in Runs
  BY <1>1, Handling DEF FinalizeCommit
<1>3. FinalBase(w) \in ExitStates
  BY <1>2 DEF FinalBase, LInv, IInv, Bookkeeping, FinalizesExited, Job, ExitStates
<1>4. PICK v \in FinalVerdicts(w) :
         /\ run' = [run EXCEPT ![r] = Flush(run[r], was, Finalized(was, v[1], v[2]))]
         /\ Settle(r, was.attempts, AttemptOutcome(was, v[1], v[2]))
         /\ lastRun' = LastRunAfter(w, v[1])
  BY <1>1 DEF FinalizeCommit
<1>5. PICK status, wanted, out : /\ status = v[1] /\ wanted = Finalized(was, v[1], v[2])
                                 /\ out = AttemptOutcome(was, v[1], v[2])
  OBVIOUS
<1>6. /\ run' = [run EXCEPT ![r] = Flush(run[r], was, wanted)]
      /\ Settle(r, was.attempts, out)
      /\ lastRun' = lastRun \/ (status = "succeeded" /\ lastRun' = r)
  BY <1>1, <1>4, <1>5 DEF LastRunAfter
<1>10. status \in ExitStates /\ Wants(was, status, wanted, out)
  <2>1. v \in Verdicts
    BY <1>3 DEF FinalVerdicts, Verdicts, ExitStates
  <2>2. was \in Row /\ (was.status = "cancelled" => was.cancel_requested)
    BY <1>1, Handling DEF FinalizeCommit, JobSound
  <2>3. Wants(was, v[1], Finalized(was, v[1], v[2]), AttemptOutcome(was, v[1], v[2]))
    BY <2>1, <2>2, EndWants
  <2> QED BY <1>5, <2>1, <2>3 DEF Verdicts
<1>7. /\ job' = [job EXCEPT ![w] = NoJob] /\ UNCHANGED <<mode, call>>
      /\ active' = [active EXCEPT ![w][r] = 0]
  BY <1>1 DEF FinalizeCommit, Drop
<1>8. /\ active'[w][r] = 0 /\ \A q \in Runs \ {r} : active'[w][q] = active[w][q]
      /\ \A u \in Workers \ {w} : active'[u] = active[u]
  BY <1>2, <1>7 DEF LInv, IInv, TypeOK
<1>9. job[w].op \in {"startfail", "finalize"}
  BY <1>2
<1> QED BY <1>1, <1>6, <1>7, <1>8, <1>9, <1>10, AttemptEnds

-----------------------------------------------------------------------------
(* Monitoring.                                                             *)

\* The owner check of finalize_active always passes.
LEMMA BeginFinalizeMoves ==
  ASSUME LInv, IInv', NEW w \in Workers, NEW r \in Runs, Monitors(w, r, mode[w]), NEW forced,
         BeginFinalize(w, r, forced), UNCHANGED <<run, attempt, lastRun, mode, call>>
  PROVE  LInv' /\ LifeStep
<1>1. mode[w] # "down" /\ job[w] = NoJob /\ active[w][r] # 0 /\ Attends(w, r) /\ RowSound(r)
  BY DEF Monitors, Idle, Attends, LInv
<1>2. Owns(w, r)
  BY <1>1, AttendedAlone DEF Owns
<1>3. /\ job' = [job EXCEPT ![w] = [op |-> "finalize", run |-> r, number |-> active[w][r],
                                    forced |-> forced, read |-> run[r]]]
      /\ UNCHANGED active
  BY <1>2 DEF BeginFinalize
<1>4. /\ job'[w].op = "finalize" /\ job'[w].run = r /\ job'[w].read = run[r]
      /\ \A v \in Workers \ {w} : SameWorker(v)
  BY <1>3 DEF SameWorker, LInv, IInv, TypeOK
<1>5. JobSound(w)'
  BY <1>1, <1>4, AttendedAlone DEF JobSound, RowSound
<1>6. \A q \in Runs : Attends(w, q)' <=> Attends(w, q)
  BY <1>1, <1>3, <1>4 DEF Attends, NoJob
<1> QED BY <1>3, <1>4, <1>5, <1>6, WorkerStep

\* Steps that concern the child or the signals only.
LEMMA SilentStep ==
  ASSUME LInv, IInv', UNCHANGED <<run, attempt, lastRun, call, mode, active, job>>
  PROVE  LInv' /\ LifeStep
<1>1. \A w \in Workers : SameWorker(w)
  BY DEF SameWorker
<1>2. \A w \in Workers, r \in Runs : Attends(w, r)' <=> Attends(w, r)
  BY <1>1, SameAttendance
<1>3. \A r \in Runs : Quiet(r)
  BY <1>2, SameRow
<1>4. CallsGoOn /\ SuccessesStay
  BY DEF CallsGoOn, SuccessesStay
<1>5. LInv'
  BY <1>1, <1>3, <1>4, SoundStep
<1> QED BY <1>2, <1>5, NothingMoves DEF Attended

\* Every step of monitor_active and of the shutdown loop; no heartbeat is ever
\* overdue, and no run is lost.
LEMMA MonitorMoves ==
  ASSUME LInv, IInv', NEW w \in Workers, NEW r \in Runs, MonitorStep(w, r)
  PROVE  LInv' /\ LifeStep
<1>1. ASSUME Monitors(w, r, mode[w]) PROVE Owns(w, r) /\ run[r].heartbeat = "fresh"
  <2>1. Attends(w, r)
    BY <1>1 DEF Monitors, Idle, Attends
  <2> QED BY <2>1, AttendedAlone DEF Owns
<1>2. ASSUME NEW m, Monitors(w, r, m) PROVE Monitors(w, r, mode[w])
  BY <1>2 DEF Monitors
<1>3. CASE MonitorExit(w, r)
  BY <1>2, <1>3, BeginFinalizeMoves DEF MonitorExit, dbVars
<1>4. CASE MonitorTimeout(w, r)
  BY <1>2, <1>4, BeginFinalizeMoves DEF MonitorTimeout, dbVars
<1>5. ~MonitorLost(w, r) /\ ~Heartbeat(w, r)
  BY <1>1, <1>2 DEF MonitorLost, Heartbeat
<1>6. CASE MonitorCancel(w, r)
  BY <1>6, SilentStep DEF MonitorCancel, dbVars
<1>7. CASE MonitorCancelled(w, r)
  BY <1>2, <1>7, BeginFinalizeMoves DEF MonitorCancelled, dbVars
<1>8. CASE StopActive(w, r)
  <2>1. /\ Monitors(w, r, mode[w]) /\ UNCHANGED <<run, attempt, lastRun, mode, call>>
        /\ UNCHANGED <<active, job>> \/ BeginFinalize(w, r, "failed")
    BY <1>2, <1>8 DEF StopActive, dbVars
  <2>2. CASE UNCHANGED <<active, job>>
    BY <2>1, <2>2, SilentStep
  <2>3. CASE BeginFinalize(w, r, "failed")
    BY <2>1, <2>3, BeginFinalizeMoves
  <2> QED BY <2>1, <2>2, <2>3
<1> QED BY <1>3, <1>4, <1>5, <1>6, <1>7, <1>8 DEF MonitorStep

-----------------------------------------------------------------------------
(* Recovery, outages and the passing of time.                              *)

\* What recovery makes of a row.
LEMMA RecoveryWrites ==
  ASSUME NEW row \in Row, row.status = "running"
  PROVE  LET new == FailedOrRequeued(row, "failed", TRUE)
             out == AttemptOutcome(row, "failed", TRUE)
         IN  /\ new.locked_by = None /\ new.heartbeat = "none" /\ new.attempts = row.attempts
             /\ new.cancel_requested = row.cancel_requested
             /\ \/ new.status = "queued" /\ out = "retry_wait" /\ row.attempts < MaxAttempts
                \/ new.status = "failed" /\ out = "failed"
                \/ new.status = "cancelled" /\ out = "failed" /\ row.cancel_requested
<1>1. /\ Unlocked(row) \in Row /\ Unlocked(row).locked_by = None
      /\ Unlocked(row).heartbeat = "none" /\ Unlocked(row).attempts = row.attempts
      /\ Unlocked(row).cancel_requested = row.cancel_requested
  BY DEF Unlocked, Row
<1>2. CASE CanRetry(row, "failed", TRUE)
  <2>1. row.attempts < MaxAttempts
    BY <1>2 DEF CanRetry
  <2> QED BY <1>1, <1>2, <2>1 DEF FailedOrRequeued, AttemptOutcome, Row
<1>3. CASE ~CanRetry(row, "failed", TRUE)
  <2>1. row.cancel_requested \in BOOLEAN
    BY DEF Row
  <2> QED BY <1>1, <1>3, <2>1 DEF FailedOrRequeued, AttemptOutcome, Row
<1> QED BY <1>2, <1>3

\* The runs that are recovered are those that nobody is busy with.
LEMMA RecoverMoves ==
  ASSUME LInv, IInv', RecoverStaleRuns
  PROVE  LInv' /\ LifeStep
<1>1. PICK S \in SUBSET StaleRuns :
        /\ run' = [r \in Runs |-> IF r \in S THEN FailedOrRequeued(run[r], "failed", TRUE)
                                             ELSE run[r]]
        /\ attempt' = [r \in Runs |->
             [n \in AttemptNo |->
               IF r \in S /\ n = run[r].attempts /\ attempt[r][n].status # "none"
               THEN [attempt[r][n] EXCEPT !.status = AttemptOutcome(run[r], "failed", TRUE)]
               ELSE attempt[r][n]]]
        /\ UNCHANGED <<lastRun, workerVars, child, call, boundVars>>
  BY DEF RecoverStaleRuns
<1>2. \A w \in Workers : SameWorker(w)
  BY <1>1 DEF SameWorker, workerVars
<1>3. \A w \in Workers, r \in Runs : Attends(w, r)' <=> Attends(w, r)
  BY <1>2, SameAttendance
<1>4. \A r \in S : /\ r \in Runs /\ run[r].status = "running"
                   /\ \A w \in Workers : ~Attends(w, r)
  BY AttendedAlone DEF StaleRuns, Stale
<1>5. ASSUME NEW r \in Runs, r \notin S PROVE run'[r] = run[r] /\ attempt'[r] = attempt[r]
  <2>1. attempt'[r] = [n \in AttemptNo |-> attempt[r][n]]
    BY <1>1, <1>5
  <2> QED BY <1>1, <1>5, <2>1 DEF LInv, IInv, TypeOK
<1>6. ASSUME NEW r \in S
      PROVE  /\ run'[r].locked_by = None /\ run'[r].heartbeat = "none"
             /\ run'[r].attempts = run[r].attempts
             /\ run'[r].cancel_requested = run[r].cancel_requested
             /\ \/ run'[r].status = "queued" /\ run[r].attempts < MaxAttempts
                \/ run'[r].status = "failed"
                \/ run'[r].status = "cancelled" /\ run[r].cancel_requested
             /\ Agrees(r)'
             /\ \A n \in AttemptNo : attempt[r][n].status = "succeeded" => attempt'[r][n] = attempt[r][n]
  <2>1. PICK row, new, out : /\ row = run[r] /\ new = FailedOrRequeued(row, "failed", TRUE)
                             /\ out = AttemptOutcome(row, "failed", TRUE)
    OBVIOUS
  <2>2. row \in Row /\ row.status = "running" /\ RowSound(r) /\ r \in Runs /\ run'[r] = new
    BY <1>1, <1>4, <2>1 DEF LInv, IInv, TypeOK
  <2>3. /\ new.locked_by = None /\ new.heartbeat = "none" /\ new.attempts = row.attempts
        /\ new.cancel_requested = row.cancel_requested
        /\ \/ new.status = "queued" /\ out = "retry_wait" /\ row.attempts < MaxAttempts
           \/ new.status = "failed" /\ out = "failed"
           \/ new.status = "cancelled" /\ out = "failed" /\ row.cancel_requested
    BY <2>1, <2>2, RecoveryWrites
  <2>4. row.attempts # 0 => row.attempts \in AttemptNo /\ attempt[r][row.attempts].status = "running"
    BY <2>1, <2>2, BoundAssumption DEF RowSound, Agrees, Row, AttemptNo
  <2>5. ASSUME row.attempts # 0 PROVE attempt'[r][row.attempts].status = out
    <3> DEFINE s == [attempt[r][row.attempts] EXCEPT !.status = out]
    <3>1. s.status = out
      BY <2>2, <2>4, <2>5 DEF LInv, IInv, TypeOK, AttemptRow
    <3>2. attempt'[r][row.attempts] = s
      BY <1>1, <2>1, <2>2, <2>4, <2>5
    <3> HIDE DEF s
    <3> QED BY <3>1, <3>2
  <2>6. \A n \in AttemptNo : attempt[r][n].status = "succeeded" => attempt'[r][n] = attempt[r][n]
    BY <1>1, <2>1, <2>2, <2>4 DEF AttemptNo
  <2>7. Agrees(r)'
    BY <2>2, <2>3, <2>5 DEF Agrees
  <2> QED BY <2>1, <2>2, <2>3, <2>6, <2>7
<1>7. \A r \in Runs : Quiet(r) \/ Changed(r)
  <2> SUFFICES ASSUME NEW r \in Runs PROVE Quiet(r) \/ Changed(r)
    OBVIOUS
  <2>1. CASE r \notin S
    BY <1>3, <1>5, <2>1, SameRow
  <2>2. CASE r \in S
    <3>1. RowSound(r)'
      BY <1>6, <2>2 DEF RowSound, LInv
    <3>2. \A w \in Workers : AttendSound(w, r)'
      BY <1>3, <1>4, <2>2 DEF AttendSound
    <3>3. \A w \in Workers : job'[w].op \in {"startfail", "finalize"} => job'[w].run # r
      BY <1>2, <1>4, <2>2, Handling DEF SameWorker
    <3> QED BY <1>6, <2>2, <3>1, <3>2, <3>3 DEF Changed
  <2> QED BY <2>1, <2>2
<1>8. CallsGoOn
  <2>1. \A c \in Clients : call[c].op = "create" => call[c].run \notin S
    BY <1>4 DEF LInv, CallSound, AbsentRow
  <2> QED BY <1>1, <1>5, <2>1, CallShape DEF CallsGoOn, LInv, IInv, TypeOK
<1>9. SuccessesStay
  BY <1>5, <1>6 DEF SuccessesStay
<1>10. LInv'
  BY <1>1, <1>2, <1>7, <1>8, <1>9, SoundStep
<1>11. \A r \in Runs : Stays(r) \/ Ends(r)
  <2> SUFFICES ASSUME NEW r \in Runs PROVE Stays(r) \/ Ends(r)
    OBVIOUS
  <2>1. CASE r \notin S
    BY <1>3, <1>5, <1>10, <2>1, Unmoved DEF Attended
  <2>2. CASE r \in S
    <3>1. StageIs(r) /\ StageIs(r)' /\ ~Attended(r)'
      BY <1>3, <1>4, <1>10, <2>2, StageOf, StageOfNext DEF Attended
    <3> QED BY <1>4, <1>6, <2>2, <3>1 DEF Ends, StageIs
  <2> QED BY <2>1, <2>2
<1> QED BY <1>10, <1>11 DEF LifeStep

\* A worker that comes or goes leaves its runs behind, settled already or to be
\* recovered.
LEMMA OutageMoves ==
  ASSUME LInv, IInv', NEW w \in Workers, Outage(w)
  PROVE  LInv' /\ LifeStep
<1>1. /\ UNCHANGED <<run, attempt, lastRun, call>> /\ \A v \in Workers \ {w} : SameWorker(v)
      /\ job'[w] = NoJob /\ \A r \in Runs : Attends(w, r)' => Attends(w, r)
  <2>1. CASE Stop(w)
    BY <2>1 DEF Stop, dbVars, SameWorker, Attends, LInv, IInv, TypeOK
  <2>2. CASE Exit(w)
    BY <2>2 DEF Exit, dbVars, SameWorker, Attends, LInv, IInv, TypeOK
  <2>3. CASE Crash(w)
    BY <2>3 DEF Crash, Forget, dbVars, SameWorker, Attends, LInv, IInv, TypeOK
  <2>4. CASE Restart(w)
    BY <2>4 DEF Restart, Forget, dbVars, SameWorker, Attends, LInv, IInv, TypeOK
  <2> QED BY <2>1, <2>2, <2>3, <2>4 DEF Outage
<1>2. \A v \in Workers, r \in Runs : Attends(v, r)' => Attends(v, r)
  BY <1>1, SameAttendance
<1>3. \A r \in Runs : Quiet(r)
  BY <1>1, <1>2, SameRow
<1>4. JobSound(w)'
  BY <1>1 DEF JobSound, NoJob
<1>5. CallsGoOn /\ SuccessesStay
  BY <1>1 DEF CallsGoOn, SuccessesStay
<1>6. LInv'
  BY <1>1, <1>3, <1>4, <1>5, SoundStep
<1>7. \A r \in Runs : Stays(r) \/ Ends(r)
  <2> SUFFICES ASSUME NEW r \in Runs PROVE Stays(r) \/ Ends(r)
    OBVIOUS
  <2>1. CASE Attended(r)' <=> Attended(r)
    BY <1>1, <1>6, <2>1, Unmoved
  <2>2. CASE Attended(r) /\ ~Attended(r)'
    <3>1. StageIs(r) /\ StageIs(r)' /\ run[r].status \in {"running", "cancelled"}
      BY <1>6, <2>2, StageOf, StageOfNext, AttendedAlone DEF Attended
    <3> QED BY <1>1, <2>2, <3>1 DEF StageIs, Stays, Ends
  <2> QED BY <1>2, <2>1, <2>2 DEF Attended
<1> QED BY <1>6, <1>7 DEF LifeStep

\* The end of a backoff concerns nobody.
LEMMA BackoffMoves ==
  ASSUME LInv, IInv', NEW r \in Runs, BackoffElapses(r)
  PROVE  LInv' /\ LifeStep
<1>1. /\ ~run[r].next_attempt_due /\ run' = [run EXCEPT ![r].next_attempt_due = TRUE]
      /\ UNCHANGED <<attempt, lastRun, workerVars, call>>
  BY DEF BackoffElapses
<1>2. /\ run'[r].status = run[r].status /\ run'[r].attempts = run[r].attempts
      /\ run'[r].locked_by = run[r].locked_by /\ run'[r].heartbeat = run[r].heartbeat
      /\ run'[r].cancel_requested = run[r].cancel_requested
      /\ \A q \in Runs \ {r} : run'[q] = run[q]
  BY <1>1 DEF Row, LInv, IInv, TypeOK
<1>3. run[r].status # "absent"
  BY <1>1 DEF LInv, RowSound, AbsentRow
<1>4. \A w \in Workers : SameWorker(w)
  BY <1>1 DEF SameWorker, workerVars
<1>5. \A w \in Workers, q \in Runs : Attends(w, q)' <=> Attends(w, q)
  BY <1>4, SameAttendance
<1>6. \A q \in Runs : Quiet(q)
  BY <1>1, <1>2, <1>3, <1>5 DEF Quiet
<1>7. CallsGoOn
  <2>1. \A c \in Clients : call[c].op = "create" => call[c].run # r
    BY <1>3 DEF LInv, CallSound, AbsentRow
  <2> QED BY <1>1, <1>2, <2>1, CallShape DEF CallsGoOn, LInv, IInv, TypeOK
<1>8. SuccessesStay
  BY <1>1 DEF SuccessesStay
<1>9. LInv'
  BY <1>1, <1>4, <1>6, <1>7, <1>8, SoundStep
<1> QED BY <1>2, <1>5, <1>9, NothingMoves DEF Attended

\* A heartbeat expires when nobody is busy with the run.
LEMMA HeartbeatMoves ==
  ASSUME LInv, IInv', Timely, NEW r \in Runs, HeartbeatExpires(r)
  PROVE  LInv' /\ LifeStep
<1>1. /\ run[r].status = "running" /\ run' = [run EXCEPT ![r].heartbeat = "expired"]
      /\ \A w \in Workers : Owns(w, r) => ~Attends(w, r)
      /\ UNCHANGED <<attempt, lastRun, workerVars, call>>
  BY DEF HeartbeatExpires
<1>2. /\ run'[r].status = run[r].status /\ run'[r].attempts = run[r].attempts
      /\ run'[r].locked_by = run[r].locked_by
      /\ run'[r].cancel_requested = run[r].cancel_requested
      /\ \A q \in Runs \ {r} : run'[q] = run[q]
  BY <1>1 DEF Row, LInv, IInv, TypeOK
<1>3. \A w \in Workers : ~Attends(w, r)
  BY <1>1, AttendedAlone DEF Owns
<1>4. \A w \in Workers : SameWorker(w)
  BY <1>1 DEF SameWorker, workerVars
<1>5. \A w \in Workers, q \in Runs : Attends(w, q)' <=> Attends(w, q)
  BY <1>4, SameAttendance
<1>6. \A q \in Runs \ {r} : Quiet(q)
  BY <1>1, <1>2, <1>5, SameRow
<1>7. Changed(r)
  <2>1. RowSound(r)'
    BY <1>1, <1>2 DEF LInv, RowSound, Agrees
  <2>2. \A w \in Workers : AttendSound(w, r)'
    BY <1>3, <1>5 DEF AttendSound
  <2>3. \A w \in Workers : job'[w].op \in {"startfail", "finalize"} => job'[w].run # r
    BY <1>3, <1>4, Handling DEF SameWorker
  <2> QED BY <1>1, <1>2, <2>1, <2>2, <2>3 DEF Changed
<1>8. CallsGoOn
  <2>1. \A c \in Clients : call[c].op = "create" => call[c].run # r
    BY <1>1 DEF LInv, CallSound, AbsentRow
  <2> QED BY <1>1, <1>2, <2>1, CallShape DEF CallsGoOn, LInv, IInv, TypeOK
<1>9. SuccessesStay
  BY <1>1 DEF SuccessesStay
<1>10. LInv'
  BY <1>1, <1>4, <1>6, <1>7, <1>8, <1>9, SoundStep
<1> QED BY <1>2, <1>5, <1>10, NothingMoves DEF Attended

-----------------------------------------------------------------------------
(* The theorems.                                                           *)

\* The queue is empty at first.
LEMMA LInit == Init => LInv
<1> SUFFICES ASSUME Init PROVE LInv
  OBVIOUS
<1>1. IInv
  BY Initially
<1>2. \A r \in Runs : RowSound(r)
  BY BoundAssumption DEF Init, RowSound, Agrees, AbsentRow
<1>3. \A w \in Workers : /\ JobSound(w) /\ \A r \in Runs : ~Attends(w, r)
  BY DEF Init, JobSound, Attends, NoJob
<1>4. \A c \in Clients : CallSound(c)
  BY DEF Init, CallSound, NoCall
<1>5. LastRunSucceeded
  BY DEF Init, LastRunSucceeded
<1> QED BY <1>1, <1>2, <1>3, <1>4, <1>5 DEF LInv, AttendSound

\* Every step of the queue keeps LInv and is one of the lifecycle.
LEMMA LNext ==
  ASSUME Timely, MaxRetries = 0, LInv, [Next]_vars
  PROVE  LInv' /\ LifeStep
<1>0. IInv'
  BY Inductively DEF LInv
<1>1. ASSUME NEW c \in Clients, ApiStep(c) PROVE LInv' /\ LifeStep
  BY <1>0, <1>1, RequestSteps
<1>2. ASSUME NEW w \in Workers, HandlerStep(w) PROVE LInv' /\ LifeStep
  BY <1>0, <1>2, StartCheckMoves, LaunchMoves, StartRaisedMoves, StartFailedMoves, FinalizeMoves
     DEF HandlerStep
<1>3. ASSUME NEW w \in Workers, NEW r \in Runs, Claim(w, r) \/ MonitorStep(w, r)
      PROVE  LInv' /\ LifeStep
  BY <1>0, <1>3, ClaimMoves, MonitorMoves
<1>4. ASSUME RecoverStaleRuns PROVE LInv' /\ LifeStep
  BY <1>0, <1>4, RecoverMoves
<1>5. ASSUME NEW w \in Workers, Outage(w) PROVE LInv' /\ LifeStep
  BY <1>0, <1>5, OutageMoves
<1>6. ASSUME NEW r \in Runs, BackoffElapses(r) \/ HeartbeatExpires(r) PROVE LInv' /\ LifeStep
  BY <1>0, <1>6, BackoffMoves, HeartbeatMoves
<1>7. ASSUME NEW r \in Runs, NEW n \in AttemptNo, NEW exit \in ExitStates, ChildExit(r, n, exit)
      PROVE  LInv' /\ LifeStep
  BY <1>0, <1>7, SilentStep DEF ChildExit, dbVars, workerVars
<1>8. CASE UNCHANGED vars
  BY <1>0, <1>8, SilentStep DEF vars, dbVars, workerVars
<1> QED BY <1>1, <1>2, <1>3, <1>4, <1>5, <1>6, <1>7, <1>8
        DEF Next, WorkerRecover, MaintenanceStaleRuns

\* While heartbeats are timely and nobody retries by hand, LInv always holds.
THEOREM Coherence ==
  ASSUME Timely, MaxRetries = 0
  PROVE  Spec => []LInv
<1>1. LInv /\ [Next]_vars => LInv'
  BY LNext
<1> QED BY <1>1, LInit, PTL DEF Spec

\* Two live workers are never busy with the same run, although neither the
\* claim, nor a recovery, nor the end of an attempt holds a lock for long.
THEOREM ExecutionExclusive ==
  ASSUME Timely, MaxRetries = 0
  PROVE  Spec => []ExclusiveExecution
<1>1. LInv => ExclusiveExecution
  BY AttendedAlone DEF ExclusiveExecution
<1> QED BY <1>1, Coherence, PTL

\* The last audit row tells the same story as the run, whichever handlers
\* interleave.
THEOREM LedgerTruthful ==
  ASSUME Timely, MaxRetries = 0
  PROVE  Spec => []LedgerAgrees
<1>1. LInv => LedgerAgrees
  BY DEF LInv, RowSound, LedgerAgrees
<1> QED BY <1>1, Coherence, PTL

\* workflow.last_run_id names a run that has succeeded once, and no recovery,
\* late cancellation or failed start takes the success away.
THEOREM LastRunIsSuccess ==
  ASSUME Timely, MaxRetries = 0
  PROVE  Spec => []LastRunSucceeded
<1>1. LInv => LastRunSucceeded
  BY DEF LInv
<1> QED BY <1>1, Coherence, PTL

-----------------------------------------------------------------------------
(* The refinement.                                                         *)

\* The stages and counters of the runs, as RunLifecycle sees them.
Stages == [r \in Runs |-> Stage(r)]
Tries  == [r \in Runs |-> run[r].attempts]

\* A step that changes one stage is a step of the function of the stages.
LEMMA StageMoves ==
  ASSUME NEW r \in Runs, NEW from, NEW to, Stage(r) = from, Stage(r)' = to,
         \A q \in Runs \ {r} : Stage(q)' = Stage(q)
  PROVE  Lifecycle!Moves(r, from, to)
<1>1. Stages' = [Stages EXCEPT ![r] = to]
  BY DEF Stages
<1>2. Stages[r] = from
  BY DEF Stages
<1> QED BY <1>1, <1>2 DEF Stages, Lifecycle!Moves

\* The counters of a step that changes no run's attempts.
LEMMA TriesStay ==
  ASSUME \A r \in Runs : run'[r].attempts = run[r].attempts
  PROVE  Tries' = Tries
BY DEF Tries

\* What LifeStep allows, RunLifecycle allows.
LEMMA LifeStepIsNext ==
  ASSUME TypeOK, LifeStep
  PROVE  Lifecycle!Next \/ UNCHANGED <<Stages, Tries>>
<1>1. CASE \A r \in Runs : Stays(r) \/ Ends(r)
  <2> DEFINE S  == {r \in Runs : Ends(r)}
             to == [r \in S |-> Stage(r)']
  <2>1. S \in SUBSET Runs /\ \A r \in S : Stages[r] = "executing"
    BY DEF Stages, Ends
  <2>2. to \in [S -> {"waiting", "settled"}]
    BY DEF Ends
  <2>3. \A r \in S : to[r] = "waiting" => Tries[r] < MaxAttempts
    BY DEF Ends, Tries
  <2>4. Stages' = [r \in Runs |-> IF r \in S THEN to[r] ELSE Stages[r]]
    <3>1. \A r \in Runs : Stage(r)' = IF r \in S THEN to[r] ELSE Stages[r]
      BY <1>1 DEF Stays, Stages
    <3> QED BY <3>1 DEF Stages
  <2>5. Tries' = Tries
    BY <1>1, TriesStay DEF Stays, Ends
  <2> HIDE DEF S, to
  <2>6. Lifecycle!EndAttempts(S)
    BY <2>1, <2>2, <2>3, <2>4, <2>5 DEF Stages, Tries, Lifecycle!EndAttempts
  <2> QED BY <2>1, <2>6 DEF Lifecycle!Next
<1>2. ASSUME NEW r \in Runs, Submits(r) \/ Withdraws(r) \/ Begins(r),
             \A q \in Runs \ {r} : Stays(q)
      PROVE  Lifecycle!Next
  <2>1. \A q \in Runs \ {r} : Stage(q)' = Stage(q) /\ run'[q].attempts = run[q].attempts
    BY <1>2 DEF Stays
  <2>2. CASE Submits(r)
    <3>1. Lifecycle!Moves(r, "absent", "waiting")
      BY <2>1, <2>2, StageMoves DEF Submits
    <3>2. Tries' = Tries
      BY <2>1, <2>2, TriesStay DEF Submits
    <3> QED BY <3>1, <3>2 DEF Lifecycle!Next, Lifecycle!Submit, Tries
  <2>3. CASE Withdraws(r)
    <3>1. Lifecycle!Moves(r, "waiting", "settled")
      BY <2>1, <2>3, StageMoves DEF Withdraws
    <3>2. Tries' = Tries
      BY <2>1, <2>3, TriesStay DEF Withdraws
    <3> QED BY <3>1, <3>2 DEF Lifecycle!Next, Lifecycle!Withdraw, Tries
  <2>4. CASE Begins(r)
    <3>1. Lifecycle!Moves(r, "waiting", "executing")
      BY <2>1, <2>4, StageMoves DEF Begins
    <3>2. Tries[r] < MaxAttempts
      BY <2>4 DEF Begins, Tries
    <3>3. Tries' = [Tries EXCEPT ![r] = @ + 1]
      BY <2>1, <2>4 DEF Begins, Tries
    <3> QED BY <3>1, <3>2, <3>3 DEF Lifecycle!Next, Lifecycle!Begin, Tries
  <2> QED BY <1>2, <2>2, <2>3, <2>4
<1> QED BY <1>1, <1>2 DEF LifeStep

\* While heartbeats are timely and nobody retries by hand, the queue keeps the
\* promise of RunLifecycle: at most MaxAttempts attempts, one after the other,
\* and nothing after a run has settled, whatever crashes and whoever cancels.
THEOREM LifecycleImplemented ==
  ASSUME Timely, MaxRetries = 0
  PROVE  Spec => ImplementsLifecycle
<1>1. Init => Lifecycle!Init
  <2> SUFFICES ASSUME Init PROVE Lifecycle!Init
    OBVIOUS
  <2>1. \A r \in Runs : run[r] = AbsentRow
    BY DEF Init
  <2>2. \A r \in Runs : run[r].status = "absent" /\ run[r].attempts = 0
    BY <2>1 DEF AbsentRow
  <2>3. \A r \in Runs : Stage(r) = "absent"
    BY <2>2, LInit, StageOf DEF StageIs
  <2> QED BY <2>2, <2>3 DEF Lifecycle!Init
<1>2. LInv /\ [Next]_vars => [Lifecycle!Next]_<<Stages, Tries>>
  BY LNext, LifeStepIsNext DEF LInv, IInv
<1> QED BY <1>1, <1>2, Coherence, PTL
        DEF Spec, ImplementsLifecycle, Lifecycle!Spec, Stages, Tries
=============================================================================
