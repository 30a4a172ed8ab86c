--------------------------- MODULE SubmissionWatch ---------------------------
(* From an assignment node to what its answers set off: the tasks a run      *)
(* assigns when it ends, the watches of a Get Submissions node that had      *)
(* nothing to read, the answers, and the continuation runs, which the answer *)
(* queues itself and the workers queue again from the cursor of a watch      *)
(* (nodes/tasks, domains/review_tasks/service.py, reliable_worker.py).       *)
(*                                                                           *)
(* One workflow: an assignment node for a batch of subjects, connected to    *)
(* one Get Submissions node.  A continuation run assigns nothing new and     *)
(* reads the tasks by task_id, so it is kept as its key only.                *)
EXTENDS WorkflowGraph, Integers

CONSTANTS
  None,
  Pairs,       \* what the node asks for, in order: a subject and a user named by the node
  Versions,    \* what a run may assign: form and context of a task
  SourceRuns,  \* runs of the workflow by its owner
  Workers,     \* worker processes, each running process_task_maintenance
  Flow,        \* the edges of the graph
  GetNode,     \* the Get Submissions node
  Limit,       \* submissions read per watch and check (200 in the code)
  MaxIds       \* bound: submission ids given out

VARIABLES
  source,    \* runs: has the snapshot been taken, was there nothing to read
  tasks,     \* review_tasks, by id
  watch,     \* task_submission_watches: <<run, group>> -> last_submission_id
  answered,  \* task_submissions: id -> task
  answering, \* requests of submit_task: the transaction of each task
  ids,       \* the sequence of task_submissions.id
  queued,    \* continuation runs, by what their idempotency key is made of
  reminded,  \* tasks whose assignee was told that they are overdue
  worker,    \* the open transaction of process_task_maintenance
  late       \* history: a submission and a watch that had passed its id, or was about to

vars == <<source, tasks, watch, answered, answering, ids, queued, reminded, worker, late>>

Unstarted == [at |-> "new", waits |-> FALSE, version |-> None]
Idle == [at |-> "idle"]
Down == [at |-> "down"]

Group(t)  == <<tasks[t].subject, tasks[t].version>>
WatchesOf(group) == {w \in DOMAIN watch : w[2] = group}
SmallestId(S) == CHOOSE i \in S : \A j \in S : i <= j

Init ==
  /\ source = [r \in SourceRuns |-> Unstarted]
  /\ tasks = <<>>
  /\ watch = [w \in {} |-> 0]
  /\ answered = [i \in {} |-> 0] /\ answering = [t \in {} |-> 0] /\ ids = 0
  /\ queued = {} /\ reminded = {} /\ late = {}
  /\ worker = [p \in Workers |-> Idle]

-----------------------------------------------------------------------------
(* A run of the workflow *)

\* The snapshot holds the answers of the latest assignment, if there is one;
\* without them Get Submissions defers what follows it.
StartRun(r) ==
  /\ source[r].at = "new"
  /\ source' = [source EXCEPT ![r].at = "running", ![r].waits = (tasks = <<>>)]
  /\ UNCHANGED <<tasks, watch, answered, answering, ids, queued, reminded, worker, late>>

\* The tasks asked for, subject by subject; one fingerprint has one row.
Wanted(r, v) ==
  [i \in DOMAIN Pairs |-> [subject |-> Pairs[i][1], version |-> v, who |-> Pairs[i][2], by |-> r]]
SameAs(row) == {t \in DOMAIN tasks : [tasks[t] EXCEPT !.by = row.by] = row}
Existing(r, v) == UNION {SameAs(row) : row \in ToSet(Wanted(r, v))}
Missing(r, v) == Picked(Wanted(r, v), {i \in DOMAIN Pairs : SameAs(Wanted(r, v)[i]) = {}})

\* Mutant: a task that another run assigned is not watched.
OwnTaskOnly(s, r, rows, existing) ==
  {t \in DOMAIN rows : rows[t].by = r /\ rows[t].subject = s}

\* persist_task_watches: a task of the run for the subject, else any unchanged
\* task of the assignment node, whatever its subject.
TasksToWatch(s, r, rows, existing) ==
  LET own == {t \in DOMAIN rows : rows[t].by = r /\ rows[t].subject = s}
  IN IF own # {} THEN own ELSE existing

WatchedGroups(r, rows, existing) ==
  {<<rows[t].subject, rows[t].version>> :
     t \in {SmallestId(T) : T \in {TasksToWatch(pair[1], r, rows, existing) : pair \in ToSet(Pairs)} \ {{}}}}

\* finalize_active: the assignments and then the watches, in one transaction.
FinishRun(r, v) ==
  LET rows == tasks \o Missing(r, v)
      new  == {<<r, g>> : g \in WatchedGroups(r, rows, Existing(r, v))}
  IN /\ source[r].at = "running"
     /\ source' = [source EXCEPT ![r].at = "done", ![r].version = v]
     /\ tasks' = rows
     /\ watch' = IF source[r].waits
                 THEN [w \in DOMAIN watch \cup new |-> IF w \in DOMAIN watch THEN watch[w] ELSE 0]
                 ELSE watch
     /\ UNCHANGED <<answered, answering, ids, queued, reminded, worker, late>>

-----------------------------------------------------------------------------
(* Continuations *)

\* _downstream_leaves: the ends of what follows the node.
Leaves(edges, n) ==
  LET reached == Downstream({n}, edges)
      ends == {m \in reached : Downstream({m}, edges) = {}}
  IN IF ends = {} THEN {n} ELSE ends

\* queue_submission_continuations: one run per watch and leaf.
Keys(id, watches) == {<<id, w, l>> : w \in watches, l \in Leaves(Flow, GetNode)}

-----------------------------------------------------------------------------
(* submit_task *)

Unanswered(t) == \A i \in DOMAIN answered : answered[i] # t

\* The submission gets its id, and the watches of its group are read.
BeginSubmit(t) ==
  /\ t \notin DOMAIN answering /\ Unanswered(t) /\ ids < MaxIds
  /\ ids' = ids + 1
  /\ answering' = [u \in DOMAIN answering \cup {t} |->
                     IF u = t THEN [id |-> ids + 1, watches |-> WatchesOf(Group(t))] ELSE answering[u]]
  /\ UNCHANGED <<source, tasks, watch, answered, queued, reminded, worker, late>>

EndSubmit(t) == answering' = [u \in DOMAIN answering \ {t} |-> answering[u]]

QueuedWith(t) == Keys(answering[t].id, answering[t].watches)

\* watch.last_submission_id = submissions[-1].id
Cursor(found) == IF found = {} THEN 0 ELSE CHOOSE i \in found : \A j \in found : j <= i

\* The cursor of a watch is past an id, or moves past it when a check commits.
Passes(id, w) ==
  \/ watch[w] >= id
  \/ \E p \in Workers : /\ worker[p].at = "checking" /\ w \in DOMAIN worker[p].found
                         /\ Cursor(worker[p].found[w]) >= id

CommitSubmit(t) ==
  LET id == answering[t].id IN
  /\ t \in DOMAIN answering
  /\ EndSubmit(t)
  /\ answered' = [i \in DOMAIN answered \cup {id} |-> IF i = id THEN t ELSE answered[i]]
  /\ queued' = queued \cup QueuedWith(t)
  /\ late' = late \cup {<<id, w>> : w \in {x \in WatchesOf(Group(t)) : Passes(id, x)}}
  /\ UNCHANGED <<source, tasks, watch, ids, reminded, worker>>

\* The request fails before it commits; its id is not given out again.
AbortSubmit(t) ==
  /\ t \in DOMAIN answering
  /\ EndSubmit(t)
  /\ UNCHANGED <<source, tasks, watch, answered, ids, queued, reminded, worker, late>>

-----------------------------------------------------------------------------
(* process_task_maintenance *)

After(w) == {i \in DOMAIN answered : Group(answered[i]) = w[2] /\ i > watch[w]}
FirstOf(S, n) == {i \in S : Cardinality({j \in S : j < i}) < n}

\* A worker reads what is due: tasks that are open and overdue, watches to
\* check, the answers after their cursors and the runs that exist.
BeginCheck(p, due, overdue) ==
  /\ worker[p].at = "idle"
  /\ worker' = [worker EXCEPT ![p] =
                  [at |-> "checking",
                   found   |-> [w \in due |-> FirstOf(After(w), Limit)],
                   queued  |-> queued,
                   overdue |-> {t \in overdue : Unanswered(t) /\ t \notin reminded}]]
  /\ UNCHANGED <<source, tasks, watch, answered, answering, ids, queued, reminded, late>>

NewKeys(p) ==
  LET found == worker[p].found
  IN (UNION {UNION {Keys(i, {w}) : i \in found[w]} : w \in DOMAIN found}) \ worker[p].queued

CommitCheck(p) ==
  /\ worker[p].at = "checking"
  /\ NewKeys(p) \cap queued = {}
  /\ queued' = queued \cup NewKeys(p)
  /\ watch' = [w \in DOMAIN watch |->
                 IF w \in DOMAIN worker[p].found /\ worker[p].found[w] # {}
                 THEN Cursor(worker[p].found[w]) ELSE watch[w]]
  /\ reminded' = reminded \cup worker[p].overdue
  /\ worker' = [worker EXCEPT ![p] = Idle]
  /\ UNCHANGED <<source, tasks, answered, answering, ids, late>>

\* Another worker queued one of the runs meanwhile: the insert violates the
\* idempotency key, nothing is written, and run_worker ends with the exception.
ConflictCheck(p) ==
  /\ worker[p].at = "checking"
  /\ NewKeys(p) \cap queued # {}
  /\ worker' = [worker EXCEPT ![p] = Down]
  /\ UNCHANGED <<source, tasks, watch, answered, answering, ids, queued, reminded, late>>

\* The service manager starts the worker again.
RestartWorker(p) ==
  /\ worker[p].at = "down"
  /\ worker' = [worker EXCEPT ![p] = Idle]
  /\ UNCHANGED <<source, tasks, watch, answered, answering, ids, queued, reminded, late>>

Next ==
  \/ \E r \in SourceRuns : StartRun(r) \/ \E v \in Versions : FinishRun(r, v)
  \/ \E t \in DOMAIN tasks : BeginSubmit(t) \/ CommitSubmit(t) \/ AbortSubmit(t)
  \/ \E p \in Workers :
       \/ \E due \in SUBSET DOMAIN watch, overdue \in {{}, DOMAIN tasks} : BeginCheck(p, due, overdue)
       \/ CommitCheck(p) \/ ConflictCheck(p) \/ RestartWorker(p)

Spec == Init /\ [][Next]_vars

-----------------------------------------------------------------------------
(* What answers promise *)

\* An answer the cursor of a watch has passed has its continuations, unless it
\* was committed after an answer with a later id had moved the cursor, or had
\* been read by a check that was about to.
PassedIsContinued ==
  \A i \in DOMAIN answered : \A w \in WatchesOf(Group(answered[i])) :
    watch[w] >= i => \/ <<i, w>> \in late
                     \/ Keys(i, {w}) \subseteq queued

\* What is queued is queued for an answer that was given, and to its group.
QueuedIsAnswered ==
  \A k \in queued : k[1] \in DOMAIN answered /\ k[2] \in WatchesOf(Group(answered[k[1]]))

\* A run that deferred what follows Get Submissions is not forgotten: it
\* watches what it assigned, and at least one group of answers.
DeferredIsWatched ==
  \A r \in SourceRuns : source[r].at = "done" /\ source[r].waits =>
    /\ \A t \in DOMAIN tasks : tasks[t].by = r => <<r, Group(t)>> \in DOMAIN watch
    /\ \E w \in DOMAIN watch : w[1] = r /\ w[2][2] = source[r].version

\* The runs of an answer reach every node that follows Get Submissions.
LeavesCover ==
  Downstream({GetNode}, Flow) \subseteq UNION {UpstreamClosure(l, Flow) : l \in Leaves(Flow, GetNode)}

WatchHolds ==
  PassedIsContinued /\ QueuedIsAnswered /\ DeferredIsWatched /\ LeavesCover
=============================================================================
