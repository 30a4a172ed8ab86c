------------------------------ MODULE RunQueue ------------------------------
(***************************************************************************)
(* The durable run queue: the runs and run_attempts tables, the API        *)
(* requests that create, cancel and retry runs, the worker processes of    *)
(* app/workers/reliable_worker.py and the children they fork.              *)
(*                                                                         *)
(* A handler that reads a row without locking it and commits later is two  *)
(* steps: the first keeps the row it read, the second flushes the columns  *)
(* the handler changed (RunRow!Flush).  A handler that reads the row with  *)
(* FOR UPDATE is one step.                                                 *)
(***************************************************************************)
EXTENDS RunRow, FiniteSets, FiniteSetsExt

CONSTANTS
  Runs,         \* run ids (one owner, one project, one workflow)
  Clients,      \* API requests that may be in flight together
  MaxActive,    \* max_active_runs_per_user
  Concurrency,  \* job_worker_concurrency
  Timely,       \* TRUE: a worker that attends a run heartbeats in time
  Reliable,     \* workers that neither crash nor stop
  MaxCancels,   \* bound: cancellation requests
  MaxRetries,   \* bound: manual retry requests
  MaxOutages    \* bound: worker crashes and shutdowns

ASSUME SizeAssumption == /\ MaxActive \in Nat
                         /\ Concurrency \in Nat
                         /\ Timely \in BOOLEAN
                         /\ Reliable \subseteq Workers
                         /\ {MaxCancels, MaxRetries, MaxOutages} \subseteq Nat

VARIABLES
  run,         \* the runs table
  attempt,     \* the run_attempts table: run -> number -> row
  child,       \* run -> attempt -> its child process, or the result it left
  mode,        \* worker -> up / stopping / down
  active,      \* worker -> the dict `active`: run -> attempt monitored, or 0
  sent,        \* worker -> runs with cancellation_sent_at set
  job,         \* worker -> the multi-step handler it is inside of
  call,        \* client -> the API request it is inside of
  lastRun,     \* workflow.last_run_id (what saving a workflow writes to it is left out)
  cancels, retries, outages   \* what the bounds count

dbVars      == <<run, attempt, lastRun>>
workerVars  == <<mode, active, sent, job>>
boundVars   == <<cancels, retries, outages>>
vars == <<dbVars, workerVars, child, call, boundVars>>

-----------------------------------------------------------------------------
AttemptStatuses == {"none", "running", "retry_wait", "succeeded", "failed",
                    "cancelled", "timed_out"}
AttemptRow == [status : AttemptStatuses, worker_id : Workers \cup {None}]
NoAttempt  == [status |-> "none", worker_id |-> None]

\* What finalize_active reads off the result file and the exit code: no usable
\* result is "failed", SIGXCPU is "timed_out".
ExitStates  == {"succeeded", "failed", "cancelled", "timed_out"}
\* "cancelling": running, with cancel.requested in its runtime directory.
Alive       == {"running", "cancelling"}
ChildStates == ExitStates \cup Alive \cup {"none"}

NoJob  == [op |-> "none"]
Job    == [op : {"start", "launch", "refused", "startfail", "finalize"}, run : Runs,
           number : AttemptNo \cup {0}, forced : {"none", "failed", "cancelled", "timed_out"},
           read : Row]
NoCall == [op |-> "none"]
Call   == [op : {"create", "cancel", "retry"}, run : Runs, read : Row]

TypeOK ==
  /\ run \in [Runs -> Row]
  /\ attempt \in [Runs -> [AttemptNo -> AttemptRow]]
  /\ child \in [Runs -> [AttemptNo -> ChildStates]]
  /\ mode \in [Workers -> {"up", "stopping", "down"}]
  /\ active \in [Workers -> [Runs -> 0..MaxClaims]]
  /\ sent \in [Workers -> SUBSET Runs]
  /\ job \in [Workers -> Job \cup {NoJob}]
  /\ call \in [Clients -> Call \cup {NoCall}]
  /\ lastRun \in Runs \cup {None}
  /\ cancels \in Nat /\ retries \in Nat /\ outages \in Nat

Init ==
  /\ run = [r \in Runs |-> AbsentRow]
  /\ attempt = [r \in Runs |-> [n \in AttemptNo |-> NoAttempt]]
  /\ child = [r \in Runs |-> [n \in AttemptNo |-> "none"]]
  /\ mode = [w \in Workers |-> "up"]
  /\ active = [w \in Workers |-> [r \in Runs |-> 0]]
  /\ sent = [w \in Workers |-> {}]
  /\ job = [w \in Workers |-> NoJob]
  /\ call = [c \in Clients |-> NoCall]
  /\ lastRun = None
  /\ cancels = 0 /\ retries = 0 /\ outages = 0

-----------------------------------------------------------------------------
(* API requests *)

ActiveRuns == {r \in Runs : run[r].status \in ActiveStatuses}

\* Mutant: > for >=.
QuotaAllowsOneMore == Cardinality(ActiveRuns) <= MaxActive

\* enforce_run_quotas: a count, not a lock.
QuotaAllows == Cardinality(ActiveRuns) < MaxActive

Enter(c, op, r) == call' = [call EXCEPT ![c] = [op |-> op, run |-> r, read |-> run[r]]]

\* Commit what a request wants of the row it read, and end the request.
Reply(c, op, wanted) ==
  /\ call[c].op = op
  /\ run' = [run EXCEPT ![call[c].run] = Flush(@, call[c].read, wanted)]
  /\ call' = [call EXCEPT ![c] = NoCall]
  /\ UNCHANGED <<attempt, lastRun, workerVars, child, boundVars>>

\* create_run up to the insert; r stands for the id the insert will get.
CreateCheck(c, r) ==
  /\ call[c] = NoCall
  /\ run[r].status = "absent"
  /\ \A d \in Clients : call[d] # NoCall => call[d].run # r
  /\ QuotaAllows
  /\ Enter(c, "create", r)
  /\ UNCHANGED <<dbVars, workerVars, child, boundVars>>

CreateCommit(c) == Reply(c, "create", NewRow)

\* cancel_run: a terminal run is returned as it is.
CancelRead(c, r) ==
  /\ call[c] = NoCall
  /\ run[r].status \in ActiveStatuses
  /\ cancels < MaxCancels
  /\ cancels' = cancels + 1
  /\ Enter(c, "cancel", r)
  /\ UNCHANGED <<dbVars, workerVars, child, retries, outages>>

CancelCommit(c) == Reply(c, "cancel", CancelRequested(call[c].read))

\* retry_run: refused (409, 429) unless the run is terminal and the quota allows.
RetryRead(c, r) ==
  /\ call[c] = NoCall
  /\ run[r].status \in TerminalStatuses
  /\ QuotaAllows
  /\ retries < MaxRetries
  /\ retries' = retries + 1
  /\ Enter(c, "retry", r)
  /\ UNCHANGED <<dbVars, workerVars, child, cancels, outages>>

RetryCommit(c) == Reply(c, "retry", QueuedForRetry(call[c].read))

-----------------------------------------------------------------------------
(* Claiming and starting *)

Idle(w) == mode[w] # "down" /\ job[w] = NoJob

Owns(w, r) == run[r].locked_by = w

LastAttempt(r) == Max({0} \cup {n \in AttemptNo : attempt[r][n].status # "none"})

\* Mutant: a retry continues the attempt it failed in.
NextAttemptReused(r) == Max({run[r].attempts, LastAttempt(r), 1})

NextAttempt(r) == Max({run[r].attempts, LastAttempt(r)}) + 1

Settle(r, n, outcome) ==
  attempt' = [attempt EXCEPT ![r] =
    [n2 \in AttemptNo |-> IF n2 = n /\ @[n2].status # "none"
                          THEN [@[n2] EXCEPT !.status = outcome] ELSE @[n2]]]

\* claim_next_run inside SessionLocal.begin(): one transaction, row locked.
Claim(w, r) ==
  /\ Idle(w) /\ mode[w] = "up"
  /\ Cardinality({q \in Runs : active[w][q] # 0}) < Concurrency
  /\ Claimable(run[r])
  /\ LET n == NextAttempt(r)
     IN  /\ n <= MaxClaims
         /\ run' = [run EXCEPT ![r] = Claimed(@, w, n)]
         /\ attempt' = [attempt EXCEPT ![r][n] = [status |-> "running", worker_id |-> w]]
         /\ job' = [job EXCEPT ![w] = [op |-> "start", run |-> r, number |-> n,
                                       forced |-> "none", read |-> AbsentRow]]
  /\ UNCHANGED <<lastRun, mode, active, sent, child, call, boundVars>>

\* Mutant: the owner is not compared.
MayStartUnowned(w, row) == row.status = "running"

MayStart(w, row) == row.status = "running" /\ row.locked_by = w

\* start_run: the ownership check, then the slow snapshot.
StartCheck(w) ==
  /\ job[w].op = "start"
  /\ LET row == run[job[w].run]
     IN  job' = [job EXCEPT ![w].op = IF MayStart(w, row) THEN "launch" ELSE "refused",
                            ![w].number = row.attempts]
  /\ UNCHANGED <<dbVars, mode, active, sent, child, call, boundVars>>

Forked(w) == [child EXCEPT ![job[w].run][job[w].number] = "running"]

\* start_run: fork the child in the attempt's directory and track it.
Launch(w) ==
  /\ job[w].op = "launch"
  /\ child' = Forked(w)
  /\ active' = [active EXCEPT ![w][job[w].run] = job[w].number]
  /\ sent' = [sent EXCEPT ![w] = @ \ {job[w].run}]
  /\ job' = [job EXCEPT ![w] = NoJob]
  /\ UNCHANGED <<dbVars, mode, call, boundVars>>

\* start_run raised: the run was not owned, the snapshot or the fork failed, or
\* the commit after the fork did and leaves a child nobody tracks.  run_worker
\* loads the run again ...
StartRaised(w) ==
  /\ \/ job[w].op \in {"refused", "launch"} /\ UNCHANGED child
     \/ job[w].op = "launch" /\ child' = Forked(w)
  /\ job' = [job EXCEPT ![w].op = "startfail", ![w].read = run[job[w].run]]
  /\ UNCHANGED <<dbVars, mode, active, sent, call, boundVars>>

\* ... and fails it as WORKER_START_FAILED, whoever owns it by then.
StartFailed(w) ==
  /\ job[w].op = "startfail"
  /\ LET r == job[w].run  was == job[w].read
     IN  /\ run' = [run EXCEPT ![r] = Flush(@, was, FailedOrRequeued(was, "failed", TRUE))]
         /\ Settle(r, was.attempts, AttemptOutcome(was, "failed", TRUE))
  /\ job' = [job EXCEPT ![w] = NoJob]
  /\ UNCHANGED <<lastRun, mode, active, sent, child, call, boundVars>>

-----------------------------------------------------------------------------
(* Monitoring and finalizing *)

Monitors(w, r, m) == Idle(w) /\ mode[w] = m /\ active[w][r] # 0

\* Mutant: a child asked to cancel is taken for one that has exited.
ChildAliveUntilAsked(w, r) == child[r][active[w][r]] = "running"

ChildAlive(w, r) == child[r][active[w][r]] \in Alive

\* _terminate_process, and touching the cancel file of a live child.
ChildBecomes(w, r, state) ==
  child' = [child EXCEPT ![r][active[w][r]] = IF @ \in Alive THEN state ELSE @]

Drop(w, r) == /\ active' = [active EXCEPT ![w][r] = 0]
              /\ sent' = [sent EXCEPT ![w] = @ \ {r}]

\* finalize_active up to its owner check.  The run is loaded without a lock;
\* a run somebody else owns by now is dropped.
BeginFinalize(w, r, forced) ==
  \/ /\ Owns(w, r)
     /\ job' = [job EXCEPT ![w] = [op |-> "finalize", run |-> r, number |-> active[w][r],
                                   forced |-> forced, read |-> run[r]]]
     /\ UNCHANGED <<active, sent>>
  \/ /\ ~Owns(w, r)
     /\ Drop(w, r)
     /\ UNCHANGED job

\* monitor_active: the child has exited.
MonitorExit(w, r) ==
  /\ Monitors(w, r, "up") /\ ~ChildAlive(w, r)
  /\ BeginFinalize(w, r, "none")
  /\ UNCHANGED <<dbVars, mode, child, call, boundVars>>

\* monitor_active: timeout_seconds have passed.
MonitorTimeout(w, r) ==
  /\ Monitors(w, r, "up") /\ ChildAlive(w, r)
  /\ ChildBecomes(w, r, "failed")
  /\ BeginFinalize(w, r, "timed_out")
  /\ UNCHANGED <<dbVars, mode, call, boundVars>>

\* monitor_active: the run now belongs to another worker, or to none.
MonitorLost(w, r) ==
  /\ Monitors(w, r, "up") /\ ChildAlive(w, r)
  /\ ~Owns(w, r)
  /\ ChildBecomes(w, r, "failed")
  /\ Drop(w, r)
  /\ UNCHANGED <<dbVars, mode, job, call, boundVars>>

\* monitor_active: the heartbeat, written while the run is still owned.
Heartbeat(w, r) ==
  /\ Monitors(w, r, "up") /\ ChildAlive(w, r)
  /\ Owns(w, r)
  /\ run[r].heartbeat # "fresh"
  /\ run' = [run EXCEPT ![r].heartbeat = "fresh"]
  /\ UNCHANGED <<attempt, lastRun, workerVars, child, call, boundVars>>

\* monitor_active: the first sight of cancel_requested leaves the child time
\* to notice the file ...
MonitorCancel(w, r) ==
  /\ Monitors(w, r, "up") /\ ChildAlive(w, r)
  /\ Owns(w, r) /\ run[r].cancel_requested
  /\ r \notin sent[w]
  /\ ChildBecomes(w, r, "cancelling")
  /\ sent' = [sent EXCEPT ![w] = @ \cup {r}]
  /\ UNCHANGED <<dbVars, mode, active, job, call, boundVars>>

\* ... a later one finalizes as cancelled: the grace period is over, or the
\* child has exited since the call began.
MonitorCancelled(w, r) ==
  /\ Monitors(w, r, "up")
  /\ Owns(w, r) /\ run[r].cancel_requested
  /\ r \in sent[w]
  /\ ChildBecomes(w, r, "failed")
  /\ BeginFinalize(w, r, "cancelled")
  /\ UNCHANGED <<dbVars, mode, call, boundVars>>

\* Mutant: the grace period has no end.
StopActivePatiently(w, r) ==
  /\ Monitors(w, r, "stopping")
  /\ \/ child[r][active[w][r]] = "running" /\ ChildBecomes(w, r, "cancelling")
        /\ UNCHANGED <<active, sent, job>>
     \/ ~ChildAlive(w, r) /\ BeginFinalize(w, r, "failed") /\ UNCHANGED child
  /\ UNCHANGED <<dbVars, mode, call, boundVars>>

\* run_worker while stopping: signal the child; an exited child, or one past
\* the grace period, is finalized as failed whatever result it left.
StopActive(w, r) ==
  /\ Monitors(w, r, "stopping")
  /\ \/ child[r][active[w][r]] = "running" /\ ChildBecomes(w, r, "cancelling")
        /\ UNCHANGED <<active, sent, job>>
     \/ ChildBecomes(w, r, "failed") /\ BeginFinalize(w, r, "failed")
  /\ UNCHANGED <<dbVars, mode, call, boundVars>>

\* The status finalize_active starts from.
FinalBase(w) ==
  IF job[w].forced # "none" THEN job[w].forced ELSE child[job[w].run][job[w].number]

\* A failed artifact publication or review-task intent turns any status into
\* failed; whether a failure is retryable is the error's, a timeout always is.
FinalVerdicts(w) ==
  {v \in {FinalBase(w), "failed"} \X BOOLEAN :
     /\ v[1] = "timed_out" => v[2]
     /\ v[1] \in {"succeeded", "cancelled"} => ~v[2]}

\* Mutant: the workflow points at its last finished run, successful or not.
LastRunAnyway(w, status) == job[w].run

LastRunAfter(w, status) == IF status = "succeeded" THEN job[w].run ELSE lastRun

\* finalize_active from the owner check to the commit.
FinalizeCommit(w) ==
  /\ job[w].op = "finalize"
  /\ LET r == job[w].run  was == job[w].read
     IN  /\ \E v \in FinalVerdicts(w) :
              /\ run' = [run EXCEPT ![r] = Flush(@, was, Finalized(was, v[1], v[2]))]
              /\ Settle(r, was.attempts, AttemptOutcome(was, v[1], v[2]))
              /\ lastRun' = LastRunAfter(w, v[1])
         /\ Drop(w, r)
  /\ job' = [job EXCEPT ![w] = NoJob]
  /\ UNCHANGED <<mode, child, call, boundVars>>

-----------------------------------------------------------------------------
(* Recovery of stale runs, outages, and the passing of time *)

StaleRuns == {r \in Runs : Stale(run[r])}

\* recover_stale_runs: rows locked by other transactions are skipped.
RecoverStaleRuns ==
  \E S \in SUBSET StaleRuns :
    /\ S # {}
    /\ run' = [r \in Runs |-> IF r \in S THEN FailedOrRequeued(run[r], "failed", TRUE)
                                         ELSE run[r]]
    /\ attempt' = [r \in Runs |->
         [n \in AttemptNo |->
           IF r \in S /\ n = run[r].attempts /\ attempt[r][n].status # "none"
           THEN [attempt[r][n] EXCEPT !.status = AttemptOutcome(run[r], "failed", TRUE)]
           ELSE attempt[r][n]]]
    /\ UNCHANGED <<lastRun, workerVars, child, call, boundVars>>

\* The worker loop, and `maintenance stale-runs`.
WorkerRecover(w)     == Idle(w) /\ RecoverStaleRuns
MaintenanceStaleRuns == RecoverStaleRuns

\* A child ends: execute() returns, or the kernel ends it.
ChildExit(r, n, exit) ==
  /\ child[r][n] \in Alive
  /\ exit = "cancelled" => child[r][n] = "cancelling"
  /\ child' = [child EXCEPT ![r][n] = exit]
  /\ UNCHANGED <<dbVars, workerVars, call, boundVars>>

\* SIGTERM, seen by the loop.
Stop(w) ==
  /\ mode[w] = "up" /\ job[w] = NoJob
  /\ w \notin Reliable /\ outages < MaxOutages
  /\ mode' = [mode EXCEPT ![w] = "stopping"]
  /\ outages' = outages + 1
  /\ UNCHANGED <<dbVars, active, sent, job, child, call, cancels, retries>>

Forget(w) ==
  /\ active' = [active EXCEPT ![w] = [r \in Runs |-> 0]]
  /\ sent' = [sent EXCEPT ![w] = {}]
  /\ job' = [job EXCEPT ![w] = NoJob]

\* The loop ends once nothing is active.
Exit(w) ==
  /\ mode[w] = "stopping" /\ job[w] = NoJob
  /\ \A r \in Runs : active[w][r] = 0
  /\ mode' = [mode EXCEPT ![w] = "down"]
  /\ UNCHANGED <<dbVars, active, sent, job, child, call, boundVars>>

\* The process dies at any point; an open transaction rolls back, the children
\* (sessions of their own) live on.
Crash(w) ==
  /\ mode[w] # "down"
  /\ w \notin Reliable /\ outages < MaxOutages
  /\ mode' = [mode EXCEPT ![w] = "down"]
  /\ outages' = outages + 1
  /\ Forget(w)
  /\ UNCHANGED <<dbVars, child, call, cancels, retries>>

\* The container restarts under the same WORKER_ID.
Restart(w) ==
  /\ mode[w] = "down"
  /\ mode' = [mode EXCEPT ![w] = "up"]
  /\ Forget(w)
  /\ UNCHANGED <<dbVars, child, call, boundVars>>

BackoffElapses(r) ==
  /\ ~run[r].next_attempt_due
  /\ run' = [run EXCEPT ![r].next_attempt_due = TRUE]
  /\ UNCHANGED <<attempt, lastRun, workerVars, child, call, boundVars>>

\* A live worker is busy with r: it monitors it or is inside a handler for it.
Attends(w, r) ==
  /\ mode[w] # "down"
  /\ active[w][r] # 0 \/ (job[w] # NoJob /\ job[w].run = r)

HeartbeatExpires(r) ==
  /\ run[r].status = "running" /\ run[r].heartbeat = "fresh"
  /\ Timely => \A w \in Workers : Owns(w, r) => ~Attends(w, r)
  /\ run' = [run EXCEPT ![r].heartbeat = "expired"]
  /\ UNCHANGED <<attempt, lastRun, workerVars, child, call, boundVars>>

-----------------------------------------------------------------------------
ApiStep(c) ==
  \/ \E r \in Runs : CreateCheck(c, r) \/ CancelRead(c, r) \/ RetryRead(c, r)
  \/ CreateCommit(c) \/ CancelCommit(c) \/ RetryCommit(c)

MonitorStep(w, r) ==
  \/ MonitorExit(w, r)   \/ MonitorTimeout(w, r) \/ MonitorLost(w, r) \/ Heartbeat(w, r)
  \/ MonitorCancel(w, r) \/ MonitorCancelled(w, r) \/ StopActive(w, r)

HandlerStep(w) ==
  StartCheck(w) \/ Launch(w) \/ StartRaised(w) \/ StartFailed(w) \/ FinalizeCommit(w)

Outage(w) == Stop(w) \/ Exit(w) \/ Crash(w) \/ Restart(w)

Next ==
  \/ \E c \in Clients : ApiStep(c)
  \/ \E w \in Workers : HandlerStep(w) \/ WorkerRecover(w) \/ Outage(w)
  \/ \E w \in Workers, r \in Runs : Claim(w, r) \/ MonitorStep(w, r)
  \/ MaintenanceStaleRuns
  \/ \E r \in Runs : BackoffElapses(r) \/ HeartbeatExpires(r)
  \/ \E r \in Runs, n \in AttemptNo, exit \in ExitStates : ChildExit(r, n, exit)

Spec == Init /\ [][Next]_vars

(***************************************************************************)
(* Fairness.  A request that has read its row commits; a live worker keeps *)
(* running its loop, which visits every active run, recovers stale runs    *)
(* and polls the queue; delays elapse.  Children need not exit (the wall   *)
(* clock timeout is the worker's), users need not ask for anything, and    *)
(* nobody is bound to run the maintenance command.                         *)
(***************************************************************************)
Fairness ==
  /\ \A c \in Clients : WF_vars(CreateCommit(c) \/ CancelCommit(c) \/ RetryCommit(c))
  /\ \A w \in Workers : WF_vars(HandlerStep(w)) /\ WF_vars(WorkerRecover(w)) /\ WF_vars(Exit(w))
  /\ \A w \in Workers, r \in Runs : WF_vars(Claim(w, r)) /\ WF_vars(MonitorStep(w, r))
  /\ \A r \in Runs : WF_vars(BackoffElapses(r)) /\ WF_vars(HeartbeatExpires(r))

FairSpec == Spec /\ Fairness

-----------------------------------------------------------------------------
(* Safety whatever the timing: workers may fall silent, requests may race *)

\* run_attempts holds exactly the numbers 1 .. runs.attempts: every claim gets
\* a number of its own, also after manual retries, so that the unique
\* constraint on (run_id, attempt_number) never stops a worker.
AttemptLedger ==
  \A r \in Runs, n \in AttemptNo :
    attempt[r][n].status # "none" <=> n <= run[r].attempts

\* A row is locked by the worker that claimed its latest attempt, never by the
\* worker of an earlier one.
LeaseMatchesLedger ==
  \A r \in Runs :
    run[r].locked_by # None =>
      /\ run[r].attempts \in AttemptNo
      /\ attempt[r][run[r].attempts].worker_id = run[r].locked_by

\* The attempt a worker starts or monitors is one it claimed itself, and the
\* child of an attempt is forked at most once: two processes never share the
\* directory run-<id>-attempt-<n>.
AttemptHasOneExecutor ==
  \A w \in Workers :
    /\ \A r \in Runs : active[w][r] # 0 => attempt[r][active[w][r]].worker_id = w
    /\ job[w].op \in {"start", "launch"} =>
         /\ job[w].number \in AttemptNo
         /\ attempt[job[w].run][job[w].number].worker_id = w
         /\ child[job[w].run][job[w].number] = "none"

\* The audit row of an attempt is never lost nor given to another worker.
AuditRowsStay ==
  \A r \in Runs, n \in AttemptNo :
    attempt[r][n].status # "none" =>
      /\ attempt'[r][n].status # "none"
      /\ attempt'[r][n].worker_id = attempt[r][n].worker_id

AuditKept == [][AuditRowsStay]_vars

\* The bookkeeping the four properties above rest on, together with which they
\* are inductive; its three parts follow.
\*
\* A number no attempt has used has left nothing behind, and a run that is not
\* in the table yet has no attempts.
UnusedIsBlank ==
  /\ \A r \in Runs, n \in AttemptNo :
       attempt[r][n].status = "none" => attempt[r][n].worker_id = None /\ child[r][n] = "none"
  /\ \A r \in Runs : run[r].status = "absent" => run[r].attempts = 0
  /\ \A c \in Clients : call[c].op = "create" => call[c].read.attempts = 0

\* A worker about to start an attempt has claimed no later one of that run, and
\* what it monitors has been forked.
StartsItsLatest ==
  \A w \in Workers :
    /\ job[w].op = "start" =>
         \A n \in AttemptNo : attempt[job[w].run][n].worker_id = w => n <= job[w].number
    /\ \A r \in Runs : active[w][r] # 0 => child[r][active[w][r]] # "none"

\* A finalizer without a forced status has an exited child to read the result of.
FinalizesExited ==
  \A w \in Workers :
    job[w].op = "finalize" /\ job[w].forced = "none" =>
      /\ job[w].number \in AttemptNo
      /\ child[job[w].run][job[w].number] \in ExitStates

Bookkeeping == UnusedIsBlank /\ StartsItsLatest /\ FinalizesExited

-----------------------------------------------------------------------------
(* Safety when heartbeats are timely and nobody retries a run by hand *)

\* Two live workers are never busy with the same run.
ExclusiveExecution ==
  \A r \in Runs, v, w \in Workers : Attends(v, r) /\ Attends(w, r) => v = w

\* Automatic retries stop at max_attempts: a run waits for another attempt only
\* while one is left, and is dead-lettered only when none is.
AttemptBudget ==
  \A r \in Runs :
    /\ run[r].attempts <= MaxAttempts
    /\ run[r].status = "queued" => run[r].attempts < MaxAttempts
    /\ run[r].dead_lettered => run[r].attempts = MaxAttempts

\* The audit row of the current attempt follows the status of the run.
Agrees(r) ==
  LET last == attempt[r][run[r].attempts].status IN
  run[r].attempts # 0 =>
    CASE run[r].status = "queued"  -> last = "retry_wait"
      [] run[r].status \in {"running", "succeeded", "failed", "timed_out"} ->
           last = run[r].status
      [] OTHER -> last # "none"

\* The last audit row tells the same story as the run.
LedgerAgrees == \A r \in Runs : Agrees(r)

\* workflow.last_run_id, as far as the workers write it, names a run one of
\* whose attempts has succeeded: no recovery, late cancellation or
\* failed start of another worker takes the success out of the audit rows.
LastRunSucceeded ==
  lastRun # None =>
    \E n \in AttemptNo : attempt[lastRun][n].status = "succeeded"

\* A worker never changes a result: once a run has succeeded, failed or timed
\* out, only a request that had read the run earlier can still touch it.
ResultsAreFinal ==
  [][\A r \in Runs :
       run[r].status \in {"succeeded", "failed", "timed_out"} /\ run'[r] # run[r]
         => \E c \in Clients : call[c] # NoCall /\ call[c].run = r /\ call'[c] = NoCall]_vars

\* enforce_run_quotas counts and inserts without a lock, so the limit may be
\* exceeded; but only by the requests that passed the check together.
QuotaOvershoot ==
  Cardinality(ActiveRuns) <= MaxActive + Cardinality(Clients) - 1

-----------------------------------------------------------------------------
(* Liveness, under FairSpec *)

Settled(r) == run[r].status \in TerminalStatuses

\* A queued run that carries a cancellation request: no worker may claim it.
Stranded(r) == run[r].status = "queued" /\ run[r].cancel_requested

\* As long as one worker survives every run settles, through crashes,
\* shutdowns, failures and backoff, unless a cancellation strands it.
EveryRunSettles ==
  \A r \in Runs : (run[r].status # "absent") ~> (Settled(r) \/ Stranded(r))

\* A worker that is told to stop does stop: nothing keeps its loop alive.
ShutdownCompletes ==
  \A w \in Workers : mode[w] = "stopping" ~> mode[w] # "stopping"

-----------------------------------------------------------------------------
(* What the documentation says and the code does not do *)

\* ARCHITECTURE.md: "Completion checks the active worker owner so a stale
\* worker cannot overwrite a recovered run."
StaleWorkerCannotOverwrite ==
  [][\A w \in Workers :
       job[w].op = "finalize" /\ job'[w] = NoJob /\ run' # run
         => Owns(w, job[w].run) /\ run[job[w].run].attempts = job[w].number]_vars

\* WORKFLOW_EXECUTION_AND_ERRORS.md: "During an active run, the same control
\* requests cancellation. The reliable worker ... terminates the child".
CancellationSettles ==
  \A r \in Runs : run[r].cancel_requested ~> Settled(r)
=============================================================================
