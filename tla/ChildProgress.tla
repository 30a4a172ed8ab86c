---------------------------- MODULE ChildProgress ----------------------------
(* What a run says about its nodes: the child process executes the nodes in  *)
(* order and writes their statuses, and in the end its result, to files of   *)
(* its attempt; the worker of the attempt copies the statuses to the row,    *)
(* hands a cancellation over as a file, and settles the run when the child   *)
(* has ended or it gives it up (workers/run_child.py, execution/executor.py, *)
(* workers/reliable_worker.py).                                              *)
(*                                                                           *)
(* One run, whose attempts may overlap: a worker that lost the run and the   *)
(* child it left behind go on.  Workers are told apart by the attempt they   *)
(* claimed; a worker has no second attempt of a run before it dropped the    *)
(* first.  Settling is one step here: RunQueue interleaves it.  There is no  *)
(* earlier successful run to take nodes from: RunExecution has it.           *)
EXTENDS Integers, Sequences, SequencesExt

CONSTANTS
  None,
  Order,        \* the nodes of the plan, in the order they are executed
  Aside,        \* nodes of the graph outside of the plan
  Inside,       \* node -> the nodes of its component, in order (none: no component)
  Follows,      \* node -> the nodes after it
  MayDefer,     \* nodes that may have nothing to read yet: Get Submissions
  MaxAttempts,  \* runs.max_attempts
  MaxClaims     \* bound: attempts ever made, retries by hand included

VARIABLES
  row,      \* runs: status, attempts, locked_by, cancel_requested, node_statuses
  child,    \* per attempt: the process and its memory
  files,    \* per directory: progress.json, result.json, cancel.requested
  monitor,  \* per attempt: the ActiveRun of its worker
  ended,    \* history: what the run was last settled as, and why
  stale     \* history: the statuses of the row are those of a worker that lost it

vars == <<row, child, files, monitor, ended, stale>>

Open == {"queued", "running"}
Terminal == {"succeeded", "failed", "cancelled", "timed_out"}
Attempts == 1..MaxClaims
Planned == ToSet(Order)
Initial == [n \in Planned \cup Aside |-> "queued"]

Mark(nodes, n, s) == [m \in DOMAIN nodes \cup {n} |-> IF m = n THEN s ELSE nodes[m]]

\* Mutant: the directory of a run, whatever its attempt.
OneDirectory(a) == 1

\* _runtime_paths
Directory(a) == a

Empty == [progress |-> None, result |-> None, cause |-> None, cancel |-> FALSE]
NoChild == [at |-> "none"]
NoMonitor == [at |-> "gone", why |-> None, read |-> None]

Init ==
  /\ row = [status |-> "queued", attempt |-> 0, by |-> None, cancel |-> FALSE, nodes |-> Initial]
  /\ child = [a \in Attempts |-> NoChild]
  /\ files = [d \in Attempts |-> Empty]
  /\ monitor = [a \in Attempts |-> NoMonitor]
  /\ ended = None /\ stale = FALSE

-----------------------------------------------------------------------------
(* The child: execute and execute_workflow *)

Alive(a) == child[a].at \in {"forked", "ready", "node", "inner", "over", "written"}
Node(a) == Order[child[a].pos]
Inner(a) == Inside[Node(a)][child[a].inner]
Told(a) == files[Directory(a)].cancel
Later(a) == {Order[p] : p \in child[a].pos + 1 .. Len(Order)}

\* A step of the child that reports to the worker: save_progress.
Report(a, nodes, to) ==
  /\ child' = [child EXCEPT ![a] = [to EXCEPT !.nodes = nodes]]
  /\ files' = [files EXCEPT ![Directory(a)].progress = nodes]
  /\ UNCHANGED <<row, monitor, ended, stale>>

Begin(a) ==
  /\ child[a].at = "forked"
  /\ Report(a, Initial, [child[a] EXCEPT !.at = "ready"])

Over(a, result, cause) == [child[a] EXCEPT !.at = "over", !.result = result, !.cause = cause]

\* The graph or its plan is refused: no node has a status other than queued.
RejectGraph(a) ==
  /\ child[a].at = "ready" /\ child[a].pos = 1
  /\ child' = [child EXCEPT ![a] = Over(a, "failed", "graph")]
  /\ UNCHANGED <<row, files, monitor, ended, stale>>

Ready(a) == child[a].at = "ready" /\ child[a].pos <= Len(Order)

SkipDeferred(a) ==
  /\ Ready(a) /\ Node(a) \in child[a].deferred
  /\ Report(a, Mark(child[a].nodes, Node(a), "skipped"), [child[a] EXCEPT !.pos = @ + 1])

Skipping(a, nodes) == [n \in DOMAIN nodes |-> IF n \in Later(a) THEN "skipped" ELSE nodes[n]]

SeeCancel(a) ==
  /\ Ready(a) /\ Node(a) \notin child[a].deferred /\ Told(a)
  /\ Report(a, Skipping(a, Mark(child[a].nodes, Node(a), "cancelled")), Over(a, "cancelled", None))

BeginNode(a) ==
  /\ Ready(a) /\ Node(a) \notin child[a].deferred /\ ~Told(a)
  /\ Report(a, Mark(child[a].nodes, Node(a), "running"), [child[a] EXCEPT !.at = "node", !.inner = 1])

InnerLeft(a) == child[a].at = "node" /\ child[a].inner <= Len(Inside[Node(a)])

\* execute_component: its nodes are reported under names of their own.
BeginInner(a) ==
  /\ InnerLeft(a) /\ ~Told(a)
  /\ Report(a, Mark(child[a].nodes, Inner(a), "running"), [child[a] EXCEPT !.at = "inner"])

EndInner(a) ==
  /\ child[a].at = "inner"
  /\ Report(a, Mark(child[a].nodes, Inner(a), "done"), [child[a] EXCEPT !.at = "node", !.inner = @ + 1])

\* Between two nodes of a component a cancellation leaves the statuses alone.
CancelInner(a) ==
  /\ InnerLeft(a) /\ Told(a)
  /\ child' = [child EXCEPT ![a] = Over(a, "cancelled", None)]
  /\ UNCHANGED <<row, files, monitor, ended, stale>>

\* A node is done when it succeeded or its result was cached; a cached result
\* stands for a component and its nodes.
EndNode(a, defers) ==
  LET n == Node(a) IN
  /\ child[a].at = "node" /\ (child[a].inner = 1 \/ ~InnerLeft(a))
  /\ defers => n \in MayDefer
  /\ Report(a, Mark(child[a].nodes, n, "done"),
            [child[a] EXCEPT !.at = "ready", !.pos = @ + 1,
                             !.deferred = @ \cup (IF defers THEN Follows[n] ELSE {})])

FailNode(a) ==
  /\ child[a].at \in {"node", "inner"}
  /\ Report(a, Skipping(a, Mark(child[a].nodes, Node(a), "failed")), Over(a, "failed", "node"))

\* A cancellation seen after the last node overrides what became of the nodes.
WriteResult(a) ==
  LET late == Told(a) /\ child[a].cause # "graph"
      result == IF child[a].at = "ready" THEN "succeeded" ELSE child[a].result IN
  /\ \/ child[a].at = "ready" /\ child[a].pos > Len(Order)
     \/ child[a].at = "over"
  /\ child' = [child EXCEPT ![a].at = "written"]
  /\ files' = [files EXCEPT ![Directory(a)].result = IF late THEN "cancelled" ELSE result,
                            ![Directory(a)].cause  = IF late THEN None ELSE child[a].cause]
  /\ UNCHANGED <<row, monitor, ended, stale>>

Exit(a) ==
  /\ child[a].at = "written"
  /\ child' = [child EXCEPT ![a].at = "exited"]
  /\ UNCHANGED <<row, files, monitor, ended, stale>>

\* The process is killed, or reaches its processor time.
Die(a, how) ==
  /\ Alive(a)
  /\ child' = [child EXCEPT ![a].at = how]
  /\ UNCHANGED <<row, files, monitor, ended, stale>>

-----------------------------------------------------------------------------
(* The row *)

\* fail_or_requeue
FailOrRequeue(nodes, status, retryable) ==
  IF status \in {"failed", "timed_out"} /\ retryable /\ ~row.cancel /\ row.attempt < MaxAttempts
  THEN [row EXCEPT !.status = "queued", !.by = None, !.nodes = Initial]
  ELSE [row EXCEPT !.status = IF row.cancel THEN "cancelled" ELSE status, !.by = None, !.nodes = nodes]

\* claim_next_run and start_run
Claim(a) ==
  /\ row.status = "queued" /\ ~row.cancel /\ a = row.attempt + 1
  /\ row' = [row EXCEPT !.status = "running", !.attempt = a, !.by = a]
  /\ child' = [child EXCEPT ![a] = [at |-> "forked", pos |-> 1, inner |-> 1, nodes |-> Initial,
                                    deferred |-> {}, result |-> None, cause |-> None]]
  /\ monitor' = [monitor EXCEPT ![a].at = "watching"]
  /\ ended' = None
  /\ UNCHANGED <<files, stale>>

Recover ==
  /\ row.status = "running"
  /\ row' = FailOrRequeue(row.nodes, "failed", TRUE)
  /\ stale' = (stale /\ row'.status # "queued")
  /\ UNCHANGED <<child, files, monitor, ended>>

RequestCancel ==
  /\ row.status \notin Terminal /\ ~row.cancel
  /\ row' = [row EXCEPT !.cancel = TRUE, !.status = IF @ = "queued" THEN "cancelled" ELSE @]
  /\ UNCHANGED <<child, files, monitor, ended, stale>>

QueueRetry ==
  /\ row.status \in Terminal /\ row.attempt < MaxClaims
  /\ row' = [row EXCEPT !.status = "queued", !.cancel = FALSE, !.nodes = Initial]
  /\ ended' = None /\ stale' = FALSE
  /\ UNCHANGED <<child, files, monitor>>

-----------------------------------------------------------------------------
(* The worker of an attempt: monitor_active, run_worker, finalize_active *)

Watching(a) == monitor[a].at = "watching"
Exited(a) == child[a].at \in {"exited", "killed", "cpu time"}
Shown(a) == files[Directory(a)].progress

\* The state check of a run nobody gave up reads the row and the file, and commits what it read: the
\* run may have been recovered, and claimed by another, in between.
ReadProgress(a) ==
  /\ Watching(a) /\ monitor[a].why \in {None, "cancelled"}
  /\ row.by = a /\ ~Exited(a) /\ Shown(a) \notin {None, row.nodes}
  /\ monitor' = [monitor EXCEPT ![a].at = "syncing", ![a].read = Shown(a)]
  /\ UNCHANGED <<row, child, files, ended, stale>>

WriteProgress(a) ==
  /\ monitor[a].at = "syncing"
  /\ row' = [row EXCEPT !.nodes = monitor[a].read]
  /\ stale' = (row.by # a)
  /\ monitor' = [monitor EXCEPT ![a].at = "watching", ![a].read = None]
  /\ UNCHANGED <<child, files, ended>>

GivesUp(a, why) ==
  /\ monitor' = [monitor EXCEPT ![a].why = why]
  /\ files' = [files EXCEPT ![Directory(a)].cancel = TRUE]
  /\ UNCHANGED <<row, child, ended, stale>>

SendCancel(a) ==
  /\ Watching(a) /\ row.by = a /\ row.cancel /\ monitor[a].why = None /\ ~Exited(a)
  /\ GivesUp(a, "cancelled")

\* The run takes too long, or the worker is told to stop.
GiveUp(a, why) ==
  /\ Watching(a) /\ monitor[a].why \in {None, "cancelled"}
  /\ why = "timed_out" => ~Exited(a)
  /\ GivesUp(a, why)

Leave(a) ==
  /\ monitor' = [monitor EXCEPT ![a] = NoMonitor]
  /\ child' = [child EXCEPT ![a] = NoChild]

DropLost(a) ==
  /\ Watching(a) /\ monitor[a].why \in {None, "cancelled"} /\ row.by # a
  /\ Leave(a)
  /\ UNCHANGED <<row, files, ended, stale>>

Verdict(a, forced, published) ==
  LET result == files[Directory(a)].result IN
  IF ~published THEN "failed"
  ELSE IF forced # None THEN forced
  ELSE IF child[a].at = "cpu time" THEN "timed_out"
  ELSE IF result = None THEN "failed" ELSE result

Settled(status, nodes) ==
  IF status \notin {"cancelled", "timed_out"} THEN nodes
  ELSE [n \in DOMAIN nodes |-> IF nodes[n] \notin Open THEN nodes[n]
                               ELSE IF status = "cancelled" THEN "cancelled" ELSE "failed"]

\* finalize_active; the artifacts, or the tasks the run assigns, may be refused.
Finalize(a, forced, published, retryable) ==
  LET status == Verdict(a, forced, published)
      shown == IF Shown(a) = None THEN row.nodes ELSE Shown(a)
      nodes == Settled(status, shown) IN
  /\ Leave(a)
  /\ IF row.by # a THEN UNCHANGED <<row, ended, stale>>
     ELSE /\ row' = CASE status = "succeeded" -> [row EXCEPT !.status = status, !.by = None, !.nodes = nodes]
                      [] status = "cancelled" -> [row EXCEPT !.status = status, !.by = None, !.nodes = nodes,
                                                             !.cancel = TRUE]
                      [] status = "timed_out" -> FailOrRequeue(nodes, status, TRUE)
                      [] status = "failed" -> FailOrRequeue(nodes, status, retryable)
          /\ ended' = IF row'.status = "queued" THEN None
                      ELSE [status |-> status,
                            cause |-> IF forced = None /\ published THEN files[Directory(a)].cause ELSE None]
          /\ stale' = (stale /\ Shown(a) = None /\ row'.status # "queued")
  /\ UNCHANGED files

\* A run that ended is settled by its result; one that was asked to stop may be
\* settled, after its grace, as cancelled instead.
SettleEnded(a, published, retryable) ==
  /\ Watching(a) /\ Exited(a) /\ monitor[a].why \in {None, "cancelled"}
  /\ Finalize(a, None, published, retryable)

SettleForced(a, published, retryable) ==
  /\ Watching(a) /\ monitor[a].why # None
  /\ monitor[a].why = "cancelled" => row.by = a
  /\ Finalize(a, monitor[a].why, published, retryable)

\* The worker dies.  Its child may go on, in a directory nobody reads again.
Crash(a) ==
  /\ monitor[a].at # "gone"
  /\ Leave(a)
  /\ UNCHANGED <<row, files, ended, stale>>

Next ==
  \/ \E a \in Attempts :
       \/ Claim(a) \/ Begin(a) \/ RejectGraph(a) \/ SkipDeferred(a) \/ SeeCancel(a) \/ BeginNode(a)
       \/ BeginInner(a) \/ CancelInner(a) \/ FailNode(a) \/ WriteResult(a) \/ Exit(a)
       \/ EndInner(a) \/ \E defers \in BOOLEAN : EndNode(a, defers)
       \/ \E how \in {"killed", "cpu time"} : Die(a, how)
       \/ ReadProgress(a) \/ WriteProgress(a) \/ SendCancel(a) \/ DropLost(a) \/ Crash(a)
       \/ \E why \in {"timed_out", "failed"} : GiveUp(a, why)
       \/ \E published, retryable \in BOOLEAN :
            SettleEnded(a, published, retryable) \/ SettleForced(a, published, retryable)
  \/ Recover \/ RequestCancel \/ QueueRetry

Spec == Init /\ [][Next]_vars

-----------------------------------------------------------------------------
(* What the row may say *)

Behind(shown, true) ==
  /\ DOMAIN shown \subseteq DOMAIN true
  /\ \A n \in DOMAIN shown : \/ shown[n] = true[n]
                             \/ shown[n] = "queued"
                             \/ shown[n] = "running" /\ true[n] # "queued"

\* While an attempt runs, its row shows what its own child did, and never more;
\* a run that waits shows nothing of the attempts before.
RowFollowsItsChild ==
  ~stale => /\ row.by # None => child[row.by] = NoChild \/ Behind(row.nodes, child[row.by].nodes)
            /\ row.status = "queued" => row.nodes = Initial

\* A run succeeded when its own child says so and no node of the plan was left
\* out, but for what follows a node that waits for answers.
SuccessIsComplete ==
  (row.status = "succeeded" /\ ~stale) =>
    /\ files[Directory(row.attempt)].result = "succeeded"
    /\ \A n \in DOMAIN row.nodes \ Aside :
         row.nodes[n] # "done" =>
           /\ row.nodes[n] = "skipped"
           /\ \E m \in MayDefer : row.nodes[m] = "done" /\ n \in Follows[m]

\* A failure a node reported is in one place: the nodes before it are done, or
\* skipped for what they waited for, and the nodes after it are skipped.
FailureIsLocated ==
  (row.status = "failed" /\ ~stale /\ ended # None /\ ended.cause = "node") =>
    \E p \in DOMAIN Order :
      /\ row.nodes[Order[p]] = "failed"
      /\ \A q \in DOMAIN Order :
           /\ q < p => row.nodes[Order[q]] \in {"done", "skipped"}
           /\ q > p => row.nodes[Order[q]] = "skipped"
      /\ \A n \in DOMAIN row.nodes \ (Planned \cup Aside) :
           row.nodes[n] # "done" => (row.nodes[n] = "running" /\ n \in ToSet(Inside[Order[p]]))

\* A run that ended with the result of an attempt that was cancelled or timed
\* out leaves no node waiting.  Runs that are cancelled before they are claimed,
\* or recovered with a cancellation, have no result to settle their nodes.
NothingLeftOpen ==
  (row.status \in Terminal /\ ~stale /\ ended # None /\ ended.status \in {"cancelled", "timed_out"}) =>
    \A n \in DOMAIN row.nodes : row.nodes[n] \notin Open

ProgressHolds ==
  RowFollowsItsChild /\ SuccessIsComplete /\ FailureIsLocated /\ NothingLeftOpen
=============================================================================
