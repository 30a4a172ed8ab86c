# Formal models of IOTA ML

IOTA ML is a workflow platform: users draw graphs of data, machine-learning and
review nodes, the FastAPI backend stores them in PostgreSQL, and worker processes
execute them as *runs*. This directory holds TLA+ specifications of what several
processes do to the same rows and files, of the algorithms on graphs, tables and
forms that the runs depend on, the TLC configurations that check them on small
instances, and TLAPS proofs of what holds for every instance.

Paths are relative to `backend/app/` unless they begin with another directory of
the repository.

## 1. The system

### Components

| Component | State it keeps | Operations | What is hard | What makes it correct |
| --- | --- | --- | --- | --- |
| **Run queue** `infrastructure/queue` | `runs`, `run_attempts` | claim, cancel, retry, fail or requeue, recover, quota | claim and recovery lock rows, nothing else does | one number per claim, one executor, bounded attempts, final results, runs settle |
| **Reliable worker** `workers` | its dict of active runs, processes, files of an attempt | claim, start, monitor, finalize, shut down | rows read before slow work and written after it; crashes; restart under the same id | a worker touches only the attempt it claimed; the row says what its child did |
| **Run API** `domains/runs` | none | create, cancel, retry, read | check-then-act on quota, key and status | a key is answered with one run |
| **Execution** `workflow/*` | node statuses, results, cache keys | plan, order, execute, restore, defer, merge | partial runs over other graphs, restored results, answers of people | every result shown was computed from the results shown beside it |
| **Node cache** `workflow/caching` | `node_cache_entries`, artifacts | manifest, save, refresh, evict, clear | unlocked sessions, files deleted from under entries | paid results stay, files stay reachable, the ceiling holds in the end |
| **Artifacts, storage, datasets** `domains/artifacts`, `domains/datasets`, `infrastructure/storage` | rows, reservations, objects | upload, publish, delete, expire, reconcile | the store is not part of a transaction | an available row has its object; what died is cleaned up |
| **Review tasks** `domains/review_tasks`, `nodes/tasks` | tasks, submissions, watches | assign, submit, watch, continue, maintain | answers, runs and maintenance overlap | who is asked is read; every answer is continued once |
| **Cases** `domains/cases` | `case_records` | import, launch, synchronize, continue | run and case in different transactions; last answers together | a case keeps its name, file, score; scoring follows its answers |
| **Workflow documents** `domains/workflows` | workflows, versions, locks | edit, autosave, restore, version, delete | read-check-write without a lock | no lost update in turn; numbers unique; locked items stay |
| **Projects, authentication, administration** | accounts, projects, members, tokens | CRUD, sign-in, sign-out, permissions | checks and writes in different transactions | owners can work; who was signed out stays out |
| **Workflow components** `domains/components` | components, versions | save, nest, make current, delete, export, import | rows that refer to each other, unlocked | no component contains itself, nothing dangles |
| **Assistant** `domains/assistant` | conversation | chat turn, graph edits, run, advice | a turn sees the row it loaded while others edit | tells what it did; drafts stay sound |
| **Compatibility, validation** `workflow/compatibility`, `workflow/validation` | none | upgrade, normalize, validate | order and repetition of rewrites | idempotent; valid graphs stay valid |
| **Node library** `nodes` | none | read, transform, join, split, fit, detect, review | identity of rows across nodes, boundaries | rows keep their names; held-out rows stay out; scores in range |
| **Frontend** `frontend/` | editor, autosave queue | edit, autosave | client half of autosave | modelled by that protocol only |
| **Notifications, core, observability, migrations, scripts** | | | | not modelled, section 11 |

### How they interact

* API -> queue: a request inserts or changes a row and commits, then publishes a
  Redis wake-up that may be lost. Workers poll anyway; it is not modelled.
* Queue -> worker: `claim_next_run` under `FOR UPDATE SKIP LOCKED`.
* Worker -> child: a forked process gets a snapshot file with the graph, the cache
  manifest and the tasks to read, writes progress and result files, and sees a
  cancellation as a file. It never writes the database.
* Worker -> tasks, watches, cases, artifacts, cache, `workflow.last_run_id`:
  written by `finalize_active` in the transaction that ends the run.
* Workers recover each other's runs when `heartbeat_at` is older than 45 s.
* Answers -> queue: the last answer of a case, an answer that is watched, or the
  periodic `process_task_maintenance`, queue runs under idempotency keys.
* Cache -> artifacts: an entry names an artifact, which eviction, expiry, manual
  deletion and reconciliation also reach.
* Everything that writes a graph validates it; everything that reads one
  normalizes it first.

## 2. The modules

| Module | Models | Used by |
| --- | --- | --- |
| `RunRow` | row of a run, one operator per service of `queue/repository.py`, `Flush` | extended by `RunQueue` |
| `RunQueue`, `RunLifecycle`, `RunQueueRefinement` | queue, worker and API; what a run promises; the mapping | `MCRunQueue` |
| `ChildProgress` | files and statuses of the attempts of a run | `Platform` (twice) |
| `WorkflowGraph` | sort, closure and walks on graphs | extended |
| `RunExecution` | the runs of a workflow over cache and earlier results | `MCRunExecution` |
| `NodeCache` | cache rows and their artifacts | `MCNodeCache` |
| `ArtifactStore`, `ArtifactPromise` | rows, objects, reservations, datasets; what a file promises | `MCArtifactStore` |
| `CaseReview` | one case from launch to score | `Requests` (for every setting) |
| `CaseFiles` | records and files of cases, the graph a case is launched with | `MCNodes` |
| `SubmissionWatch` | assignments, watches, answers, continuations | `Platform` (three times) |
| `TaskAnswers` | who is asked by which run, whose answers a run reads | `MCNodes` |
| `WorkflowDocument` | a draft and its versions | `Requests` |
| `OwnerLocks` | locked items while members edit | `MCAssistant`, `RequestProofs` |
| `ProjectAccess`, `RunAdmission` | accounts and members; runs, workflows and projects | `Requests` |
| `WorkflowComponents` | components, their versions, packages | `MCNodes` |
| `GraphValidation`, `GraphCompatibility` | validity; old graphs brought up to date | `MCAssistant`; extended by `AssistantActions` |
| `AssistantChat` | turns of a chat | `Requests` |
| `AssistantActions`, `WorkflowAdvice` | batches of edits; advice | `MCAssistant` |
| `ReviewNodes` | forms, reviews and scores of a case on the wire | `MCNodes` |
| `TableLineage`, `ModelTraining`, `AnomalyClasses`, `SortedGap` | rows on their way through nodes; splits, folds and models; anomaly detection | `MCNodes` |
| `Requests`, `Platform` | the components that requests write, side by side; these and what workers and children add, one scene at a time | `MCPlatform` |
| `RunQueueProofs`, `ArtifactStoreProofs`, `NodeCacheProofs`, `RunExecutionProofs` | theorems about the module of that name | |
| `ChildProgressProofs`, `SubmissionWatchProofs` | the same; instantiated by `Platform` with their theorems | `Platform` |
| `RequestProofs`, `PlatformProofs` | theorems about the components of `Requests` and about `OwnerLocks`; about the scenes of `Platform` | |

The two runs of `CaseReview` and `WorkflowDocument` that end in a violation use
these modules directly, with a configuration each.

Conventions of all of them:

* **Sessions.** SQLAlchemy sessions here read without locks, keep what they have
  loaded, do not flush on their own, and write, at the commit, the columns whose
  value differs from the loaded one (`core/database.py`). A handler is therefore a
  step that reads and decides, and a step that commits; in between anything may
  happen. Only `FOR UPDATE`, advisory locks, unique keys and foreign keys
  restrict what a commit meets. `Flush` and `Written` compute the row it leaves.
  `overlapped`, `raced`, `late`, `stale` and `orphaned` are history variables that
  say when two handlers met; properties that hold only for requests handled in
  turn name them.
* **Scenes.** `MCNodes`, `Platform` and `MCAssistant` hold several small
  systems that share no state. `scene` chooses one in the initial state, the
  variables of the others stay `None`, and each invariant says for which scene it
  speaks. The scenes do not interact, so nothing is gained or lost by this except
  that one run checks them all.
* **Names** follow the source. Comments on actions name the function when the
  action's name does not. A definition marked `Mutant:` is a wrong version of the
  one after it, kept to show that a property notices the difference.
* **`Excused:`** in the comment of a property marks behaviour of the code that
  the property has to leave out; section 8 lists it.

## 3. Runs

### The queue: `RunRow`, `RunQueue`, `RunLifecycle`

* `run[r]` is the row, without logs, progress and texts. Timestamps are kept as
  far as a condition reads them: `heartbeat` is none, fresh or expired,
  `next_attempt_due` says whether `next_attempt_at` is null or reached,
  `dead_lettered` whether `dead_lettered_at` is set.
* `attempt[r][n]` is the row of `run_attempts`; `child[r][n]` the process forked
  for it, or what its result file and exit code say. `active`, `sent`, `mode` are
  the worker's dict, `cancellation_sent_at` and whether its loop runs; `job[w]`
  is the handler a worker is inside of, `call[c]` the request of a client.
* `claim_next_run` and `recover_stale_runs` lock and are single steps.
  `cancel_run`, `retry_run`, `finalize_active` and the `WORKER_START_FAILED` path
  are two. An earlier flush inside `finalize_active` only takes the row lock
  earlier and is folded into the commit.
* The worker loop is single-threaded: `Idle(w)` guards every action that starts a
  handler. The order of its duties is not encoded; every order is allowed, which
  includes the real one. `StartCheck` is the ownership check and the read of the
  attempt number, `Launch` the fork, `StartRaised` every exception, also one
  after the fork, which leaves a child that nobody monitors.
* Any final status may turn into `failed` (publication, review intents). Children
  exit with any outcome at any time, or never, and survive their worker. One
  owner, one project, one workflow: `MaxActive` stands for both limits.
* `Timely`: a worker that attends a run heartbeats (10 s) before the row counts
  as stale (45 s). It can be false, since a worker that publishes artifacts or
  builds a snapshot does not heartbeat meanwhile. What is claimed with
  `Timely = FALSE` holds in any case.

`RunLifecycle` is the promise: a run waits, executes at most `MaxAttempts` times
by one executor, settles, and stays settled. `RunQueueRefinement` maps to it.

### An attempt: `ChildProgress`

`files[d]` is the directory of an attempt number: `progress.json`, `result.json`,
`cancel.requested`. `child[a]` is the process with its own copy of the statuses,
`monitor[a]` the worker that watches it, `row` what the database shows. The
child's loop (`BeginNode`, `BeginInner`, `SkipDeferred`, `EndNode`, `FailNode`,
`SeeCancel`, `WriteResult`) and the worker's (`ReadProgress`, `WriteProgress`,
`SendCancel`, `GiveUp`, `Settle...`) interleave; `Crash`, `Die`, `Recover`,
`QueueRetry` and `RequestCancel` may come at any time. Attempts overlap: a worker
that lost the run goes on until it notices. `ProgressHolds` states that the row
follows the child of its own attempt, a success is complete, a failure is in one
place, and a run that ends with the result of a stopped attempt leaves no node
waiting; one that is cancelled while queued, or by recovery, has no result, and its
nodes are not settled. `stale` marks a progress
write that landed in a row recovered meanwhile.

### What is computed: `WorkflowGraph`, `RunExecution`

`WorkflowGraph` has Kahn's sort, the upstream closure and the downstream walk, as
recursive functions over the rounds of their loops: the sort keeps one list whose
first k nodes have been taken from the queue, a walk the set found so far, and
`Picked` filters a list by its indices. A result in
`RunExecution` is the record of its own computation: node, setting, inputs in
order, the result its expression read, the version of the answers. So a digest is
the record, a cache key its part that `full_cache_key` hashes (inputs sorted),
and staleness is visible. `Create` accepts a graph that has a plan, `Prepare` takes answers and
cache manifest, `Finish` runs the child in one step (`Execute` of what `Child`
hands it: walk the plan, restore, compute, defer below unanswered tasks, fail or
be interrupted at any node) and reads the run it will merge with, `Commit` merges
(`merge_successful_run_state`) and stores records and `last_run_id`.
`Answer` and `Expire` change what a later run meets.

### What is kept: `NodeCache`

`entry[k]` is the row of a cache key, `artifact[a]` that of its file, `run[r]`
one node of one run from the manifest to the saved record, `cleaner[j]` the three
jobs between their selection and their commit. A durable key belongs to a node
whose runner is `cache_persistent`: its entry is pinned and undated. Whether a
file that is there can be read is a choice of the environment at each preparation
(`PrepareCommit(r, readable)`): the store may be away, the copy may not match its
checksum, and both mark the entry `invalid`, a durable one too. `DurableKept`
therefore promises the entry, its pin and its file, and that the entry can be
restored unless a run could once not read it (`unread`). Two runs may
insert the same key (`LoseInsert` keeps the winner and deletes its own file),
a forced run replaces the entry (`Refresh`). `EvictionConverges` is stated with
`<>[]`: the ceiling is reached again, unless only pinned entries are left.

## 4. Files: `ArtifactStore`, `ArtifactPromise`

`row[a]` is the committed row of a file, `object` the set of keys in the store,
`reservation[a]` its quota reservation, `dataset` the files datasets refer to,
`upload[a]` where the request or worker is (reserve, commit the pending row, put
under a temporary key, move, commit), `deletion` a request that deletes,
`janitor[j]` reconciliation and expiry at the row they hold. An object appears
when the call returns, a row when its transaction commits; a call of the store
may fail (`MaxFaults`) and a request or worker may die between any two steps
(`MaxCrashes`). Files published by a run have no committed pending row, direct
uploads and datasets have (`Durable`). `Timely` says that no upload lasts longer
than `artifact_pending_timeout_seconds`. `orphaned` records what was cut off.
`ArtifactPromise` is the abstract view: a file is usable at most once and, once
gone, stays gone; `ImplementsPromise` checks it through faults and crashes.

## 5. Reviews and cases

### `CaseReview`

A launch (`run_cases`) counts the intake runs of the case, creates the next one
through `create_run` and then stores its id and the status `queued` in the case,
in a transaction of its own. When the intake run succeeds, `finalize_active`
writes its tasks (`persist_task_intents`) and the case (`sync_case_from_run`)
together with the run. The session of an answer that finds all tasks of the
intake run completed queues the scoring run (`queue_continuation_if_ready`).

* `run[stage][k]` is the k-th intake run and the scoring run of its answers, as
  `RunLifecycle` describes a run. The number k is the last part of both
  idempotency keys, so a second run with one key cannot exist.
* `task` is indexed by what `assignment_fingerprint` hashes, so an index that is
  taken is a row that `persist_task_intents` leaves with the run that made it.
* Finalizers always rewrite `results_json`; updating a task and inserting a task
  or a submission with a taken key wait for the transaction that wrote it.
* `LaunchRead .. LaunchSync` are the transactions of a launch; `LaunchDies` is a
  crash between the last two. `RunLost` is every way a run ends or is requeued
  without `finalize_active`. `overlapped` marks intake runs two of whose answers
  were between flush and commit together.

### `CaseFiles`

`records` is the table in the order of its keys; an id is a word and whether it
is written in capitals, because an import compares ids without case and a run by
hand with. `Import` and `ImportFile` take a list of PDFs and commit file by file,
`ReadOutputs` and `CommitOutputs` are the two halves of
`sync_case_batch_from_run`, `LaunchedRun` what launches write. The second half is
pure: `Bound` is `prepare_case_graph`, and `BindingSettles` and `BranchIsBound`
are evaluated on 3,888 graphs of four nodes.

### `SubmissionWatch`, `TaskAnswers`

`SubmissionWatch` follows one assignment node and its Get Submissions node: the
tasks a run assigns, the watch it leaves when there was nothing to read, answers
whose ids are drawn before they commit, and continuation runs, queued by the
answer itself (`CommitSubmit`) and by the maintenance of each worker from the
cursor of a watch (`BeginCheck`, `CommitCheck`), under keys that make them
unique. `late` marks answers committed after the cursor had passed their id.
`TaskAnswers` leaves answers out and asks who is assigned what by three
overlapping runs with changing forms, contexts and users, and which tasks each of
them reads.

### `ReviewNodes`

A case on the wire passes nodes in any order: forms are published, replaced and
filtered, fields extracted, a model reviews, scores are aggregated and a decision
is made. It may begin with a submission in JSON, which `make_case` takes over with
its forms, reviews and status as they are. Values are what validation tells apart;
numbers and bounds are floats that are multiples of 1/8, and `Hundredths` rounds
averages, the total and the maximum as `round(x, 2)` does, ties to even. A field
may have either bound or none.

`Assign` emits an intent, `Finish` is the end of the run with
`persist_task_intents`, `Submit` the answer of a user, and `LoadReviews` and
`LoadFields` begin a later run of the case with what `_snapshot_run` finds over all
runs: the newest task of each user, beside the form and the fields of the newest
task of all. `ReviewsFit`, `ScoresFit` and `CompleteHasAll` say what a case can be
relied on for after that; what they excuse is in section 8. `PagesInAnyOrder`,
`BatchIdsDiffer` and `EnteredStays` are about pure functions and are evaluated on
all small inputs.

## 6. Documents and the platform

* `WorkflowDocument` is one row of `workflows` and its versions. `editor[e]` is
  what a client has last adopted. A request that changes the row is `Autosave`,
  `Update`, `AssistantEdit`, `Rename` or `Restore`, then `Commit`, then `Reply`
  (`db.refresh`, which may see a later commit); one that is refused has no effect
  and the client opens the workflow again. `CreateVersion` loads the row,
  `NumberVersion` takes `FOR UPDATE` and computes the number, `InsertVersion`
  commits; meanwhile no other handler commits to the row.
* `OwnerLocks` has a graph with a node and a board that may be locked and
  compares as `enforce_locked_graph_changes` does, with the row as loaded. `left`
  is the graph as the owner last committed it.
* `ProjectAccess` has accounts, tokens with their version, one project with its
  members, and the order *read, check, commit* for every request of
  administrators, owners and members; `Bootstrap` is a restart. `reborn` marks
  usernames that were deleted and given out again.
* `RunAdmission` has two users, two workflows, two runs, one project: a run is
  asked for, maybe twice with one key and by two people; workflows are created
  from a run, moved and deleted; the project goes. Foreign keys and the unique
  key act at the commit.
* `WorkflowComponents` has rows with ids in the order they are given out.
  `Exported` and `Copies` are the package and its import, entry by entry.

## 7. Graphs, the assistant and the nodes

* `GraphValidation` is `validate_workflow_graph` for drafts and for runs: nodes,
  ports, types, required inputs, settings, cycles. `GraphCompatibility` has
  `upgrade_editable_graph` and `normalize_graph`. The scene `old` draws every pair
  of edges between the nodes of five old graphs and checks that both settle, that
  what may be run may be run after normalization, and that files move along.
* `AssistantActions` applies up to three operations to a draft, names resolved as
  `_resolve_node_id` does: alias, id, place, label. A new node may ask for an id and
  be given a name, an insertion may name any of its four ports, and one of the saved
  graphs has an edge that leaves its handles out. Positions and parameters of nodes
  are left out; the label of a new node is set by `UpdateNode`.
* `AssistantChat` has, in its run, two turns: rounds of tool calls, what each sees, edits and
  runs, the checks of the final text, the stored exchange; the editor saves in
  between.
* `WorkflowAdvice` computes depths, sources and plans on graphs that grow edge by
  edge.
* `TableLineage` takes a table along a path of up to four nodes (load, filter,
  select, join, edit, fit, split, code). `from` is history: where each row began;
  `keys` is what the contract of `nodes/io.py` finds again.
* `ModelTraining` lets any nodes that offer training data be connected to a model
  and its validation. Splits and estimators are external: any split, and a model
  is the rows and columns it was fitted on.
* `AnomalyClasses` detects on one of two tables and reports values of the other.
  `SortedGap` cuts tails of up to six sorted values.

## 8. Disagreements between the repository and its code

Each row is a run with expectation `violation` that checks one property.

| Run | The repository says | The code does |
| --- | --- | --- |
| `stale_finalize` | `backend/ARCHITECTURE.md:102` "Completion checks the active worker owner so a stale worker cannot overwrite a recovered run." | the check is made on a row read before slow work and without a lock |
| `case_last_two` | `docs/MULTI_CASE_WORKFLOW.md:18` "starts automatically after the last assigned response" | the last two, together, each see the other's task open |
| `doc_two_sessions` | `docs/ARTIFACT_CACHE_AND_VERSIONING.md:124` "reports conflicts instead of overwriting a newer session" | the base revision is compared before, not in, the UPDATE |
| `stale_retained` | `workflow/execution/run_state.py:151` "dropping stale downstream results" | follows edges only; a node that reads another by an expression keeps its result |

Three more properties are defined in the modules and have no run: they are false,
and TLC shows how when they are put into a configuration.

* `RunQueue!CancellationSettles`: a cancellation that races a requeue leaves a
  queued run that nobody claims (`infrastructure/queue/repository.py:114`).
  `WorkEnds` excepts these runs.
* `RunQueue!QuotaOvershoot` bounds what concurrent requests do to the active-run
  limit (`backend/ARCHITECTURE.md:94`): each request in flight may exceed it by one.
* `CaseReview!FailedCasesCanBeLaunched`: a run that ends outside
  `finalize_active` leaves its case `queued`, which a launch skips
  (`docs/MULTI_CASE_WORKFLOW.md:26`).

The models contain the following as the code has it. Where a property has to
leave it out, its comment says `Excused:` or names a history variable.

**Runs.** An exhausted run keeps its status, while `maintenance dead-letter`
(`workers/maintenance.py:113`) selects a status nothing writes. A late
cancellation turns a finished run into a cancelled one without settling its
nodes; a graph refused in the child fails with all nodes `queued`; a failed run
without a result keeps `running` nodes; a cancelled partial run marks nodes it
never planned. Progress can fall when the nodes of a component join the statuses.
`run_state` compares truncated previews, and two finalizing workers can each take
the same base, so that one loses the other's results.

**Cache and files.** Any failure to read the file of an entry, an outage of the
store included, marks it `invalid` for good, durable entries too
(`workflow/caching/service.py:84`): the file and its pin stay, but the next run
pays again. Refreshing strands the old pinned artifact. Clearing deletes
objects and then rolls back rows when one fails. A crash after the move leaves a
final object without a row, which nothing collects; a failed row goes on naming
its temporary key; a dataset whose artifact is gone cannot be deleted;
reconciliation looks at the rows with the lowest ids only; the two quotas are
guarded by different advisory locks, so that the owner's is exceeded by one file
per further project.

**Cases.** Readiness counts the tasks of one intake run, not those it shares with
an earlier one (`docs/MULTI_CASE_WORKFLOW.md:9`); scores kept from an earlier
launch make a case with open tasks `completed` (`domains/cases/service.py:167`),
which a bulk launch does not skip. A run by hand overwrites the status of a case
under review. Import is case-insensitive, runs by hand are not. Two outputs of
one run that carry the same new file make two cases. `prepare_case_graph` takes
the first Get Submissions node, the last assignment's form, and adds an edge to a
scorer that may have one.

**Reviews.** A batch whose context is one plain value asks about its first case
only, because all its tasks get the run as subject. A batch read finds the groups
of the newest run whatever their subjects are. An answer that commits after a
later one moved the cursor is not continued by that watch. Two workers in
`process_task_maintenance` end with an `IntegrityError`. A rubric may have a
criterion without a maximum. OCR keeps one PDF; ids from file stems may collide.
Rounding to hundredths lifts an average or a total above its maximum by up to half a
hundredth each (a maximum of 1.375 and an average of 1.38, `nodes/review/nodes.py:902`).
A submission in JSON may bring forms that nobody can answer, reviews that fit no
form and a status such as `reviews_complete` (`nodes/review/contract.py:65`). When a
form is changed between two runs, the answers of users who are not asked again are
loaded beside the new form and scored by it (`workers/reliable_worker.py:342`),
although `nodes/review/nodes.py:147` tells users to "keep submitted answers tied to
the old version": within a case `_publish_form` sees to that, across runs nothing does.

**Documents and platform.** A stale autosave whose graph is unchanged writes its
name; the number of a deleted newest version is given again; a version may be
taken from the row loaded before `FOR UPDATE`. An owner's commit while a member's
handler is at work is overwritten, lock included. A member who was disabled makes
every update of the members fail until removed; deleting a user who has tasks
fails. A workflow may be created with the results of another workflow's run, and
its next update refuses them. Project-visible components stay listed after the
project is gone and cannot be exported by members.

**Assistant.** A turn runs the graph of the row it has loaded, also if the editor
has saved since. A provider failure after an edit answers 502 with the edit saved.
Places ("Node 2") shift when nodes are removed. An edge that leaves its handle out
does not occupy its input for `_add_edge` (`domains/assistant/workflow_actions.py:378`),
while validation reads it as the first one: a batch may put a second edge there and
is then refused as a whole. Files on an old extraction node
without an edge are dropped by the upgrade.

**Nodes.** Code or the report of Sorted-gap that returns a fresh index, and drops
the ID, gets the keys of the first rows, in spite of "without length-based
guessing" (`nodes/io.py:203`); such code, Combine and Interactive Table also drop
the mark that preprocessing was fitted, and normalization never sets it. A
K-Fold node's port `folds` carries the folds themselves while its consumers look
for the key `kfold_data` (`workflow/graph/operations.py:37`), so that only edges
without handles work. `_slug` lets "> 5" and "> -5" share a flag column; limits
that print alike share a class. With both tails cut, Sorted-gap may leave fewer
values than its minimum.

## 9. Runs of TLC, bounds, fairness

| Run | Instance | Shows |
| --- | --- | --- |
| `queue_races` | 1 run, 2 workers, 2 requests, 2 claims, untimely, 1 cancel, 1 manual retry, 1 outage | the inductive invariant of the proofs; audit rows are never lost |
| `queue_fair` | 1 run, 2 workers of which 1 survives, 3 claims of which 2 allowed, timely, 2 cancels, 2 outages | one executor, the ledger, `RunLifecycle` implemented, work ends |
| `stale_finalize` | as `queue_races` | section 8 |
| `artifact_store` | 2 files, 2 projects, quotas of 1, 1 failing call, 1 crash | store and database agree; clean-up converges; `ArtifactPromise` |
| `node_cache` | 3 runs, 2 keys of which 1 durable, 3 artifacts, ceiling 1, 1 manual deletion | paid results stay, pinned files are reachable, maintenance converges |
| `run_execution` | 2 runs over 5 graphs of 4 nodes, whole or partial, cached or not, 1 answer, 1 expiry | every shown result fits the results shown beside it |
| `stale_retained` | as above, graphs whose third node reads the task | section 8 |
| `case_last_two` | 1 launch, 2 reviewers | section 8 |
| `doc_two_sessions` | 2 clients, 3 graphs | section 8 |
| `assistant` | scenes edits, locks, old, advice | drafts are sound, locks hold, old graphs live, advice can be carried out |
| `nodes` | scenes components, files, answers, review, rounds, tables, anomalies, gaps, training | components and imported cases stay whole, the answers of who is asked are read, scores fit, rows keep their names |
| `platform` | scenes access, admission, document, case, launches, chat, watch, batch, overlap, progress, attempts | the properties of section 6, of cases, of watches and of attempts; a turn is honest. All of them are proved in `PlatformProofs` |

The settings of a case, of assigned tasks and of a run are records, so that one
module has several instances: `Review` (two reviewers, two contexts, one launch)
and `Relaunch` (one context, two launches); `Panel` (two reviewers, two workers,
a flow that branches), `Batch` (two subjects and forms, three runs, no worker) and
`Crossing` (two runs, one of which ends while answers and a check are under way);
`Long` (a component, a node that waits) and `Short` (two attempts).

**Bounds.** Two sessions or workers give a reader and somebody who changes what it
has read; three are added where two leave no surplus (`node_cache`: a winner, a
loser and a refresher). One run suffices for races on its row, since rows of
different runs meet only in quota and recovery. `MaxClaims` exceeds `MaxAttempts`
in `queue_fair`, so that it never hides a claim too many; `ChildProgress` has one
attempt with a component and a deferring node, and two attempts that overlap.
Paths of four nodes let a table be filtered, joined, fitted and split, or a case
be published, reviewed and scored; six let a form be assigned, changed, assigned to
somebody else, loaded and scored in three runs. Three operations let a batch add, name and
remove a node. Three revisions let an editor fall behind
twice; a limit of one version makes the second a boundary, and a deletion frees
its number. Two requests that write accounts race or follow each other, three that
write runs and workflows repeat one whose row has changed. Longer histories in
`platform` are left to the proofs, which have no bounds. Quotas and ceilings of 1
make everything after the first file a boundary. Graphs of four nodes have chains,
joins and nodes aside. Counters (`MaxCancels`, `MaxRetries`, `MaxOutages`,
`MaxFaults`, `MaxCrashes`, `MaxDeletions`, `MaxRequests`, `MaxCommits`, `MaxIds`,
`MaxSteps`, `MaxOps`, `MaxRounds`, `MaxEdits`) bound what users and the
environment do and nothing the system must do.

**Symmetry** is used for sessions, workers, requests and interchangeable contents in runs that check no liveness (`PROPERTIES` there are action
properties).

**Deadlock.** All configurations set `CHECK_DEADLOCK FALSE`: once the bounds are
used up and the requests have ended nothing has to happen, and a finished chain of
nodes or batch of edits has no further step.

**Fairness.** Only three modules state it, and only they claim liveness.

* `RunQueue!Fairness`: a request that has read its row commits. A live worker
  keeps running its loop: every handler it is inside of goes on, every active run
  is visited (`run_worker` iterates over all), stale runs are recovered
  periodically, the queue is polled, delays elapse. Nothing is assumed about
  children (the wall-clock timeout is the worker's), users, restarts or the
  maintenance command. `Reliable` workers have no outages; one is needed, since
  with none alive nobody recovers anything.
* `ArtifactStore!Fairness`: requests end, dates pass, and the periodic jobs come
  back to every row. `SF` for loading a row: another visitor may hold it each
  time, but the job returns every period.
* `NodeCache!Fairness`: runs go on, a cleaner finishes what it has begun, the
  worker cleans every hour, and somebody runs the reconciliation. Nobody has to
  clear a cache.

## 10. Proofs

Theorems hold for every value of the constants. Each component has one inductive
invariant; its step lemmas are stated per action, and frame lemmas say what an
action that touches one run, file, key, task or session leaves alone. The
invariants were model-checked on the instances of section 9 before they were
proved, which found several versions that were not inductive.

| Module | Theorems | Assumed of the constants |
| --- | --- | --- |
| `RunQueueProofs` | `Invariance`, `TypeCorrect`, `LedgerCorrect`, `LeaseCorrect`, `ExecutorUnique`, `AuditCorrect` | the `ASSUME`s of `RunRow` and `RunQueue` |
| | `Coherence`, `ExecutionExclusive`, `LedgerTruthful`, `LastRunIsSuccess`, `LifecycleImplemented` | `Timely` and `MaxRetries = 0` besides |
| `ArtifactStoreProofs` | `Invariance`, `Consistency`, `Undisturbed`, `Quotas`; `PromiseKept` | the `ASSUME`s of `ArtifactStore`; `Timely` for `PromiseKept` |
| `NodeCacheProofs` | `Invariance`, `TypeCorrect`, `DurableIsKept`, `PinnedStaysReachable` | the `ASSUME`s of `NodeCache` |
| `RunExecutionProofs` | `SortIsTopological`, `SortFindsCycles`, `PlanIsComplete` | none: what each needs is in its statement |
| | `Invariance`, `PlansHold`, `ViewsHold`, `AnswersComeFirst`, `RestoredNotComputed` | the `ASSUME`s of `RunExecution` |
| `SubmissionWatchProofs` | `UpstreamIsLeast`, `DownstreamIsLeast`, `EndsReachBack` | none |
| | `WatchInvariance`, `WatchCorrect` | `Parameters` |
| `ChildProgressProofs` | `ProgressInvariance`, `ProgressTypes`, `ProgressCorrect` | `Parameters` |
| `RequestProofs` | `AccessInvariance`, `AccessIsKept` | `AccessParameters` |
| | `AdmissionInvariance`, `AdmissionIsKept`, `KeysKeepAnswers` | `Distinct` |
| | `DocumentInvariance`, `DocumentTypes`, `NumbersAreFree`, `LimitIsKept`, `RevisionsNameGraphs`, `DocumentIsKept`, `OverwriteIsSeen` | `DocumentParameters` |
| | `CaseInvariance`, `CaseTypes`, `NobodyIsAskedTwice`, `ScoringIsAwaited`, `LastAnswerInTurnScores`, `AnswersStay` | `CaseParameters` of the setting |
| | `ChatInvariance`, `ChatIsKept` | `ChatParameters` |
| | `LocksStay` | `None` is no graph |
| `PlatformProofs` | `AccessCorrect`, `AdmissionCorrect`, `DocumentCorrect`, `SeenIsOverwritten`, `AnswersCorrect`, `ScoringWaits`, `AnswersAreKept`, `ChatCorrect`, `WatchCorrect`, `ProgressCorrect` | those of the component, for the settings of the scene |

Every property of the runs `queue_races` and `platform` is a theorem, and every
safety property of `queue_fair`, `artifact_store`, `node_cache` and
`run_execution`.

**Hypotheses.** The `ASSUME`s give bounds their type, keep `None` apart and make
the sets finite that a quota sums over; those of `RunExecution` say that node ids
are unique, that edges connect nodes of the workflow and that a node that waits
for people is not cacheable. TLC evaluates them on the runs. Modules that are used
through `INSTANCE`, where TLC evaluates no `ASSUME`, have their hypotheses in a
definition. `AccessParameters`, `Distinct`, `DocumentParameters` and
`CaseParameters` keep `None` (and `Gone`) apart from rows and give bounds their
type; the first also says that the configured admin has a name. `ChatParameters`
gives tool calls and texts their shape and asks for at least one round.
`Parameters` of `ChildProgress`: a plan names each node once, as the sort does,
and a component has nodes of its own. `Parameters` of `SubmissionWatch`: the node
assigns something, at least one submission is awaited (`MaxIds` and `Limit` are
numbers), and the flow has no cycle, since a run with one is refused. The
instances of section 9 satisfy them all. `Timely` and `MaxRetries = 0` are those
of `RunQueueFair.cfg`: when a heartbeat lapses while its worker lives, or somebody
retries a run by hand while a finalizer holds an older copy of its row, two
workers may be busy with one run and `ExclusiveExecution` is false
(`stale_finalize`, section 8). `PromiseKept` needs `Timely` since an upload that
outlives its reservation is reconciled and may come back.

**`RunQueueProofs!IInv`** conjoins `TypeOK`, `AttemptLedger`,
`LeaseMatchesLedger`, `AttemptHasOneExecutor` and `Bookkeeping`, which need each
other. `NextAttempt` is the maximum of the counter and the audit rows, and only
`AttemptLedger` says that the two agree, so that a claim writes a blank row.
`LeaseMatchesLedger` survives the unlocked handlers because none of them writes
`attempts` or a non-null `locked_by` (`FlushKeepsLease`): whatever mixture of
rows a race produces, the lock is the latest claimer's or nobody's. That a worker
past the ownership check of `start_run` starts its own latest attempt, whose
child does not exist yet, needs the lease and `Bookkeeping`.

**`RunQueueProofs!LInv`** adds what a worker may rely on while it attends a
run without a lock: the row is its own and at worst a cancellation has changed
the status; what `finalize` or `startfail` has read is the row but for such a
cancellation; a request that read the row while it was queued can only write
what the row already says. `LifecycleImplemented` maps each action to the step of
`RunLifecycle` it is (claim to start, the commits of finalizers and recovery to
settle or requeue) and all others to stuttering.

**`ArtifactStoreProofs!IInv`** says for each file how far its upload can be when
its row has a given status, and of both jobs and of a deletion that what they
work on is past its upload, or, when uploads are timely, not theirs to take. The
two halves of `StoreIsConsistent` follow from it with the exceptions the code has.
`Quotas` uses an invariant of its own, `QuotaInv`: the rows a project or an owner
is charged for are bounded by a sum over a finite set, one reservation is decided
under the project's lock, and the owner's check may be overtaken once per
further project.

**`NodeCacheProofs!IInv`** speaks of what runs and jobs have read as well as of
rows: an artifact read for a key belongs to that key for good, and is that of its
entry or was replaced by a refresh. Otherwise a lost race, whose loser deletes
its own artifact, could delete one that an entry names.

**Walks and sorts** (in `SubmissionWatchProofs` and `RunExecutionProofs`): first, each recursive function satisfies its
equation: a function with the right values up to k exists for every k of its
range (`Climb` is induction over a set of numbers, so no operator has to be passed
to a theorem). A walk of as many rounds as there are edges is complete, since a
round that finds something uses an edge no earlier round has used
(`ClosureIsKept`). For the sort `SortSound` relates its list to the nodes taken: a
node is on the list once all its sources have been taken, and not before, so a
sort that comes to its end has every node, and what a failing sort has left over
is a set in which every node waits for another (`SortFindsCycles`).

**`RunExecutionProofs!XInv`** rests on three facts. `FoldSound` is kept node by
node by `ExecuteNode`: the results so far are a view of the graph, every planned
node before has a result or waits, what waits is closed under the edges, and a
result that was not restored was not in the manifest. That what the cache serves
fits needs `Entries`, that a result determines the key it is kept under.
`MergedView` says that the results retained from the base fit the new ones: the
nodes nothing changed above are closed under the sources of the new graph, and
there both graphs agree. And `XInv` carries, from the preparation of a run to its
commit, that the manifest knew whatever earlier successful runs had left
(`Known`), so that a value computed anew is not one of theirs (`Novel`). The two
exceptions in `ViewIsCoherent` are part of the theorem: an expression that reads
an unconnected node may be stale (`stale_retained`, section 8).

**`ChildProgressProofs!PInv`** says of each attempt that is not over where in the
plan its child is and what it says of every node before, at and behind that place
(`ChildSound`); that the file holds what the child has said, and that what its
worker has read is no more than that (`Behind`); and of attempts to come that
there is nothing. A worker that lost the run may still hold an older reading, so
`RowSound` ties only the worker of the current attempt to the row.

**`SubmissionWatchProofs!WInv`** adds to the promises what a check under way has
read: all that it leaves out up to its cursors is queued already or `late`. The
first version of the history `late` counted only answers committed after the
cursor had moved. It was not enough: with several runs and workers, an answer may
commit while a check that has read past its id has not yet moved the cursor, and
TLC found a behaviour of 11 states in which it is then passed unseen. `Passes`
counts these answers as well. That the continuations reach every node behind Get
Submissions is `EndsReachBack`, a fact about graphs without cycles.

**`RequestProofs!AInv`** (runs, workflows and projects) says what each request has
checked and still relies on when it commits: the owner of a key's runs is the one
the key was first used for, rows it refers to exist unless a foreign key refuses
the write, and the run whose results it shows succeeded. Until two requests
overlap, a run at work keeps its workflow. **`AccessInv`** does the same for
accounts: ids are never given again while names may be, a request in flight writes
a version newer than that of every token, and, in turn, what it has checked (an
administrator other than the one it changes, an owner who is not a guest) still
holds when it commits.

**`RequestProofs!DInv`** says that the lock is held from the count of the versions
to the insert (`NumberIsFree`, the limit), and that, in turn, what a handler has
read is the row still (`RevisionNamesGraph`). Numbers are a maximum plus one;
`Highest` gets the maximum from the well-foundedness of `<` on the naturals.

**`RequestProofs!CInv(cfg)`** describes each request and finalizer of a case
between its halves, for every setting `cfg`. A finalizer that has still to create
tasks is the only one of its run, hence nobody is asked twice. `ScoringIsReviewed`
needs the converse as well: a task of a run appears only while no scoring run
exists. That holds only while no run is executed twice, which the property says.

**`RequestProofs!ChatInv`** relates the graph a turn believes to be saved to the
row, unless somebody else has saved since (`foreign`), and the runs it has queued
to the one it will tell of. **`LInv`** says that the graph a member is about to
commit locks what the graph it was checked against does, and that this is what the
owner had left, unless handlers `raced`.

**`PlatformProofs`** carries all this to `Platform`: a scene never changes, its
part of `Init` implies that of its component (`SceneStarts`), and every step of
`Platform` is a step or a stutter of the component whose scene it is
(`SceneContinues`). The theorems of `SubmissionWatchProofs` and
`ChildProgressProofs` are cited through their instances, once for each setting.

**Only model-checked.** Liveness and `ENABLED` are out of the prover's reach, so
`WorkEnds`, `CleanupConverges` and `MaintenanceConverges` stay with TLC. So do the
scenes of `nodes` and `assistant` except the locks: what the folds of
`GraphCompatibility`, `WorkflowAdvice`, `AnomalyClasses`, `ReviewNodes` and
`TaskAnswers` and the recursive `Collect` of `WorkflowComponents` compute would
need induction over data, and `TableLineage`, `ModelTraining`, `SortedGap`,
`AssistantActions` and `CaseFiles` state properties of lists that such functions
build. `LocksStay` is a theorem about the specification of `OwnerLocks`; the run
`assistant` checks it as a part of `EditsAreSound`.

## 11. Not modelled

* *Environment:* PostgreSQL is assumed to provide READ COMMITTED, row locks,
  unique and foreign keys; Redis may lose every message. A request of
  `ProjectAccess`, `RunAdmission` and `WorkflowComponents` makes all its reads at
  one instant.
* *Numerics and presentation:* statistics, charts, imputation, estimators,
  exports, table parsing, SQL import, OCR and language models. Their results
  appear as any value of the right kind.
* *Notifications:* a row inserted in the caller's transaction and marked read; no
  other state depends on it.
* *Listings, previews, logs, metrics, usage totals:* they only read.
* *Process set-up, settings, rate limits, migrations, deployment, scripts, the
  prototype notebook, rendering in the frontend.*
* *Saves without a base:* an autosave that leaves `base_revision` out
  (`domains/workflows/service.py:513`) skips the comparison and writes as `Update`
  does; the editor always sends it.
* *The monitor's unlocked read:* `monitor_active` reads the row, compares the owner
  and commits the heartbeat a moment later (`workers/reliable_worker.py:822`).
  `RunQueue!Heartbeat` is one step, so a heartbeat written to a row that was
  recovered in between is not modelled; `ChildProgress` has the two halves for the
  progress that is written with it.
* *Parts of modelled components:* `PROJECT.json` names them component by
  component: reminders and due dates of tasks, interfaces and exposed parameters
  of components, rules of single node types in validation, priorities and backoff
  lengths in the queue, resource limits of children.
