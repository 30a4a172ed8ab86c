----------------------------- MODULE CaseReview -----------------------------
(***************************************************************************)
(* One case of a project, from its launch to its scores: the case row, its *)
(* intake and scoring runs, the review tasks an intake run assigns, and    *)
(* the reviewers who answer them (app/domains/cases,                       *)
(* app/domains/review_tasks and the part of finalize_active that calls     *)
(* them).  One workflow revision with one assignment node, one form.       *)
(*                                                                         *)
(* The row of a run is kept as far as RunLifecycle describes it: "failed"  *)
(* stands for failed, cancelled, timed_out and dead_letter.  Every request *)
(* and every finalizer has a session of its own, which reads committed     *)
(* rows, locks none of them, and writes the columns it changed when it     *)
(* commits; what lies between read and commit is a separate step.          *)
(***************************************************************************)
EXTENDS Integers, FiniteSets

CONSTANTS
  Reviewers,    \* users a launch may name as assignees
  Contexts,     \* task contents an intake run may emit (form, fields, documents)
  Answers,      \* answers to a form
  Launchers,    \* POST /cases/run requests that may be in flight together
  Requests,     \* POST /review-tasks/{id}/submit requests in flight together
  None,         \* NULL
  MaxLaunches,  \* bound: intake runs of the case
  MaxRetries,   \* bound: manual retries of its runs
  MaxOutages    \* bound: runs settled without their worker, launches that die

VARIABLES
  case,       \* the row of case_records
  run,        \* stage -> attempt -> status of the run
  assignees,  \* attempt -> the reviewers named in its workflow_graph
  task,       \* review_tasks, by assignment_fingerprint
  submission, \* task_submissions, by task_id: the answers, or None
  launch,     \* launcher -> the handler it is inside of
  submit,     \* request -> the handler it is inside of
  finalizer,  \* stage -> attempt -> the open transaction of finalize_active
  retries, outages,  \* what the bounds count
  overlapped  \* history: attempts two of whose answers were in flight together

requestVars == <<launch, submit>>
boundVars   == <<retries, outages, overlapped>>
vars == <<case, run, assignees, task, submission, requestVars, finalizer, boundVars>>

-----------------------------------------------------------------------------
Attempts == 1..MaxLaunches
Stages   == {"intake", "scoring"}
RunIds   == Stages \X Attempts
RunStatuses == {"absent", "queued", "running", "succeeded", "failed"}
Terminal == {"succeeded", "failed"}

CaseStatuses == {"new", "queued", "awaiting_review", "scoring", "processed",
                 "completed", "failed"}
\* results_json is kept as far as its `scores` decide the status.
CaseRow == [status : CaseStatuses, latest : RunIds \cup {None}, scores : BOOLEAN]

\* One row per fingerprint: reviewer and contents.  run = 0: no such row.
Tasks   == Reviewers \X Contexts
TaskRow == [run : 0..MaxLaunches, status : {"open", "completed"},
            response : Answers \cup {None}]
NoTask  == [run |-> 0, status |-> "open", response |-> None]

LaunchState == [at : {"idle", "read", "counted", "created"},
                number : 0..MaxLaunches, loaded : CaseRow]
SubmitState == [at : {"idle", "read", "flushed"}, task : Tasks \cup {None},
                answers : Answers \cup {None}, ready : BOOLEAN, loaded : CaseRow]
FinalizerState == [open : BOOLEAN, outcome : {"queued", "succeeded", "failed"},
                   created : SUBSET Tasks, loaded : CaseRow, wanted : CaseRow]

NewCase     == [status |-> "new", latest |-> None, scores |-> FALSE]
NoLaunch    == [at |-> "idle", number |-> 0, loaded |-> NewCase]
NoSubmit    == [at |-> "idle", task |-> None, answers |-> None,
                ready |-> FALSE, loaded |-> NewCase]
NoFinalizer == [open |-> FALSE, outcome |-> "failed", created |-> {},
                loaded |-> NewCase, wanted |-> NewCase]

Init ==
  /\ case = NewCase
  /\ run = [s \in Stages |-> [k \in Attempts |-> "absent"]]
  /\ assignees = [k \in Attempts |-> {}]
  /\ task = [t \in Tasks |-> NoTask]
  /\ submission = [t \in Tasks |-> None]
  /\ launch = [l \in Launchers |-> NoLaunch]
  /\ submit = [q \in Requests |-> NoSubmit]
  /\ finalizer = [s \in Stages |-> [k \in Attempts |-> NoFinalizer]]
  /\ retries = 0 /\ outages = 0 /\ overlapped = {}

-----------------------------------------------------------------------------
TasksOf(k)   == {t \in Tasks : task[t].run = k}
OpenTasks    == {t \in Tasks : task[t].run # 0 /\ task[t].status = "open"}
ActiveRuns   == {id \in RunIds : run[id[1]][id[2]] \in {"queued", "running"}}
IntakeCount  == Cardinality({k \in Attempts : run["intake"][k] # "absent"})

\* The statuses bulk launch skips; it lists "running" too, which nothing writes.
Skipped == {"queued", "awaiting_review", "scoring"}

\* A column reaches the database when the session changed it.
Written(loaded, wanted, current) == IF wanted = loaded THEN current ELSE wanted

Flush(loaded, wanted) ==
  [status |-> Written(loaded.status, wanted.status, case.status),
   latest |-> Written(loaded.latest, wanted.latest, case.latest),
   scores |-> Written(loaded.scores, wanted.scores, case.scores)]

-----------------------------------------------------------------------------
(* run_cases: four transactions, none of which locks the case *)

LaunchRead(l) ==
  /\ launch[l].at = "idle"
  /\ case.status \notin Skipped
  /\ launch' = [launch EXCEPT ![l] = [NoLaunch EXCEPT !.at = "read", !.loaded = case]]
  /\ UNCHANGED <<case, run, assignees, task, submission, submit, finalizer, boundVars>>

LaunchCount(l) ==
  /\ launch[l].at = "read"
  /\ IntakeCount < MaxLaunches
  /\ launch' = [launch EXCEPT ![l].at = "counted", ![l].number = IntakeCount + 1]
  /\ UNCHANGED <<case, run, assignees, task, submission, submit, finalizer, boundVars>>

\* create_run: the idempotency key ends in the number, so a run that has it
\* already is returned whatever has become of it.
LaunchCreate(l) ==
  LET k == launch[l].number IN
  /\ launch[l].at = "counted"
  /\ \/ /\ run["intake"][k] = "absent"
        /\ run' = [run EXCEPT !["intake"][k] = "queued"]
        /\ \E named \in (SUBSET Reviewers) \ {{}} : assignees' = [assignees EXCEPT ![k] = named]
     \/ /\ run["intake"][k] # "absent"
        /\ UNCHANGED <<run, assignees>>
  /\ launch' = [launch EXCEPT ![l].at = "created"]
  /\ UNCHANGED <<case, task, submission, submit, finalizer, boundVars>>

LaunchSync(l) ==
  /\ launch[l].at = "created"
  /\ case' = Flush(launch[l].loaded,
                   [launch[l].loaded EXCEPT !.status = "queued",
                                            !.latest = <<"intake", launch[l].number>>])
  /\ launch' = [launch EXCEPT ![l] = NoLaunch]
  /\ UNCHANGED <<run, assignees, task, submission, submit, finalizer, boundVars>>

\* Quota, validation or a database error before the run exists.
LaunchRefused(l) ==
  /\ launch[l].at \in {"read", "counted"}
  /\ launch' = [launch EXCEPT ![l] = NoLaunch]
  /\ UNCHANGED <<case, run, assignees, task, submission, submit, finalizer, boundVars>>

\* The API process dies between the two commits.
LaunchDies(l) ==
  /\ outages < MaxOutages
  /\ launch[l].at = "created"
  /\ launch' = [launch EXCEPT ![l] = NoLaunch]
  /\ outages' = outages + 1
  /\ UNCHANGED <<case, run, assignees, task, submission, submit, finalizer, retries, overlapped>>

-----------------------------------------------------------------------------
(* The runs of the case, as the queue and its workers change them *)

RunStarts(s, k) ==
  /\ run[s][k] = "queued"
  /\ run' = [run EXCEPT ![s][k] = "running"]
  /\ UNCHANGED <<case, assignees, task, submission, requestVars, finalizer, boundVars>>

\* retry_run: any terminal run, a succeeded one included.
RetryRun(s, k) ==
  /\ retries < MaxRetries
  /\ run[s][k] \in Terminal
  /\ run' = [run EXCEPT ![s][k] = "queued"]
  /\ retries' = retries + 1
  /\ UNCHANGED <<case, assignees, task, submission, requestVars, finalizer, outages, overlapped>>

\* request_cancel of a queued run, recover_stale_runs and a failed start end
\* or requeue the run without telling its case.
RunLost(s, k) ==
  /\ outages < MaxOutages
  /\ \/ run[s][k] = "queued" /\ run' = [run EXCEPT ![s][k] = "failed"]
     \/ /\ run[s][k] = "running" /\ ~finalizer[s][k].open
        /\ \E status \in {"queued", "failed"} : run' = [run EXCEPT ![s][k] = status]
  /\ outages' = outages + 1
  /\ UNCHANGED <<case, assignees, task, submission, requestVars, finalizer, retries, overlapped>>

\* Mutant: assignments are not looked up by fingerprint within the same run.
NewAssignmentsEachTime(k, c) == {t \in assignees[k] \X {c} : task[t].run = 0}

\* persist_task_intents: the assignees who have neither a task of this run nor
\* one with the same contents from an earlier run.
NewAssignments(k, c) ==
  {t \in assignees[k] \X {c} : /\ task[t].run = 0
                               /\ \A u \in TasksOf(k) : u[1] # t[1]}

\* sync_case_from_run after success.  An intake run leaves the scores of
\* earlier runs in results_json, and their presence decides.
Succeeded(row, s, k, hasTasks) ==
  LET scored == row.scores \/ s = "scoring" IN
  [status |-> IF scored THEN "completed"
              ELSE IF hasTasks THEN "awaiting_review" ELSE "processed",
   latest |-> <<s, k>>,
   scores |-> scored]

\* Mutant: the status of the run is copied as it is.
EndedUnmapped(row, s, k, outcome) ==
  [row EXCEPT !.status = IF outcome = "failed" THEN "timed_out" ELSE outcome,
              !.latest = <<s, k>>]

\* sync_case_from_run otherwise: anything that is not queued again is "failed".
Ended(row, s, k, outcome) == [row EXCEPT !.status = outcome, !.latest = <<s, k>>]

FinalizeSuccess(s, k) ==
  /\ run[s][k] = "running" /\ ~finalizer[s][k].open
  /\ \E c \in Contexts :
       LET created == IF s = "intake" THEN NewAssignments(k, c) ELSE {} IN
       \* The unique index makes a second inserter wait for the first.
       /\ \A id \in RunIds : finalizer[id[1]][id[2]].created \cap created = {}
       /\ finalizer' = [finalizer EXCEPT ![s][k] =
            [open |-> TRUE, outcome |-> "succeeded", created |-> created, loaded |-> case,
             wanted |-> Succeeded(case, s, k, created \cup TasksOf(k) # {})]]
  /\ UNCHANGED <<case, run, assignees, task, submission, requestVars, boundVars>>

\* Failed, cancelled or timed out; requeued while attempts are left.
FinalizeFailure(s, k) ==
  /\ run[s][k] = "running" /\ ~finalizer[s][k].open
  /\ \E outcome \in {"queued", "failed"} :
       finalizer' = [finalizer EXCEPT ![s][k] =
         [open |-> TRUE, outcome |-> outcome, created |-> {}, loaded |-> case,
          wanted |-> Ended(case, s, k, outcome)]]
  /\ UNCHANGED <<case, run, assignees, task, submission, requestVars, boundVars>>

\* results_json is written in any case: it holds new stages or a new error.
FinalizeCommit(s, k) ==
  LET f == finalizer[s][k] IN
  /\ f.open
  /\ run' = [run EXCEPT ![s][k] = f.outcome]
  /\ task' = [t \in Tasks |-> IF t \in f.created THEN [NoTask EXCEPT !.run = k] ELSE task[t]]
  /\ case' = [Flush(f.loaded, f.wanted) EXCEPT !.scores = f.wanted.scores]
  /\ finalizer' = [finalizer EXCEPT ![s][k] = NoFinalizer]
  /\ UNCHANGED <<assignees, submission, requestVars, boundVars>>

-----------------------------------------------------------------------------
(* submit_task *)

SubmitRead(q, t, a) ==
  /\ submit[q].at = "idle"
  /\ t \in OpenTasks
  /\ submit' = [submit EXCEPT ![q] = [NoSubmit EXCEPT !.at = "read", !.task = t, !.answers = a]]
  /\ UNCHANGED <<case, run, assignees, task, submission, launch, finalizer, boundVars>>

\* The UPDATE of the task row waits while another request has written it.
RowFree(q) == \A p \in Requests \ {q} : ~(submit[p].at = "flushed" /\ submit[p].task = submit[q].task)

\* Mutant: task_submissions.task_id is not unique.
InsertableAgain(q) == RowFree(q)

Insertable(q) == RowFree(q) /\ submission[submit[q].task] = None

\* Mutant: one completed form is enough.
ReadySomeDone(q) ==
  LET k == task[submit[q].task].run IN run["scoring"][k] = "absent"

\* Mutant: read before the session has marked its own task completed.
ReadyBeforeOwn(q) ==
  LET k == task[submit[q].task].run IN
  /\ \A t \in TasksOf(k) : task[t].status = "completed"
  /\ run["scoring"][k] = "absent"

\* queue_continuation_if_ready: the session sees its own task completed and
\* those of others as they are committed.
Ready(q) ==
  LET k == task[submit[q].task].run IN
  /\ \A t \in TasksOf(k) \ {submit[q].task} : task[t].status = "completed"
  /\ run["scoring"][k] = "absent"

SubmitFlush(q) ==
  /\ submit[q].at = "read"
  /\ Insertable(q)
  /\ submit' = [submit EXCEPT ![q].at = "flushed", ![q].ready = Ready(q), ![q].loaded = case]
  /\ overlapped' = overlapped \cup {k \in {task[submit[q].task].run} :
       \E p \in Requests : submit[p].at = "flushed" /\ task[submit[p].task].run = k}
  /\ UNCHANGED <<case, run, assignees, task, submission, launch, finalizer, retries, outages>>

\* IntegrityError: somebody has answered since the task was read.
SubmitRejected(q) ==
  /\ submit[q].at = "read"
  /\ RowFree(q) /\ submission[submit[q].task] # None
  /\ submit' = [submit EXCEPT ![q] = NoSubmit]
  /\ UNCHANGED <<case, run, assignees, task, submission, launch, finalizer, boundVars>>

SubmitCommit(q) ==
  LET s == submit[q]
      k == task[s.task].run IN
  /\ s.at = "flushed"
  /\ task' = [task EXCEPT ![s.task].status = "completed", ![s.task].response = s.answers]
  /\ submission' = [submission EXCEPT ![s.task] = s.answers]
  /\ \/ /\ s.ready
        /\ run' = [run EXCEPT !["scoring"][k] = "queued"]
        /\ case' = Flush(s.loaded, [s.loaded EXCEPT !.status = "scoring",
                                                    !.latest = <<"scoring", k>>])
     \/ ~s.ready /\ UNCHANGED <<run, case>>
  /\ submit' = [submit EXCEPT ![q] = NoSubmit]
  /\ UNCHANGED <<assignees, launch, finalizer, boundVars>>

-----------------------------------------------------------------------------
Next ==
  \/ \E l \in Launchers : \/ LaunchRead(l) \/ LaunchCount(l) \/ LaunchCreate(l)
                          \/ LaunchSync(l) \/ LaunchRefused(l) \/ LaunchDies(l)
  \/ \E s \in Stages, k \in Attempts : \/ RunStarts(s, k) \/ RetryRun(s, k) \/ RunLost(s, k)
                                       \/ FinalizeSuccess(s, k) \/ FinalizeFailure(s, k)
                                       \/ FinalizeCommit(s, k)
  \/ \E q \in Requests : \/ \E t \in Tasks, a \in Answers : SubmitRead(q, t, a)
                         \/ SubmitFlush(q) \/ SubmitRejected(q) \/ SubmitCommit(q)

Spec == Init /\ [][Next]_vars

-----------------------------------------------------------------------------
(* The types of the tables and of the handlers in flight. *)
TypeOK ==
  /\ case \in CaseRow
  /\ run \in [Stages -> [Attempts -> RunStatuses]]
  /\ assignees \in [Attempts -> SUBSET Reviewers]
  /\ task \in [Tasks -> TaskRow]
  /\ submission \in [Tasks -> Answers \cup {None}]
  /\ launch \in [Launchers -> LaunchState]
  /\ submit \in [Requests -> SubmitState]
  /\ finalizer \in [Stages -> [Attempts -> FinalizerState]]
  /\ retries \in 0..MaxRetries /\ outages \in 0..MaxOutages /\ overlapped \subseteq Attempts

\* Only assignees of the run have a task, and no reviewer has two tasks of
\* one run, even when the intake is executed again and describes the case
\* differently.
OneTaskPerReviewer ==
  \A k \in Attempts : \A t, u \in TasksOf(k) : /\ t[1] \in assignees[k]
                                               /\ t[1] = u[1] => t = u

\* What a reviewer has answered is never replaced, although two submissions of
\* one form may both find it open, and the response shown with the task is the
\* one stored for the scoring run.
AnswersAreFinal ==
  \A t \in Tasks : submission[t] # None =>
    submission'[t] = submission[t] /\ task'[t].response = submission[t]

\* As long as no run is executed twice, a scoring run exists only when
\* every task of its intake run has been answered.
ScoringIsReviewed ==
  \A k \in Attempts : retries + outages = 0 /\ run["scoring"][k] # "absent" =>
    /\ TasksOf(k) # {}
    /\ \A t \in TasksOf(k) : task[t].status = "completed"

AllAnswered(k) == TasksOf(k) # {} /\ \A t \in TasksOf(k) : task[t].status = "completed"

\* When the last task of an intake run is answered its scoring run is queued,
\* however answers, repeated intakes and other launches mix, unless two of its
\* answers were being stored at the same time.
AnswersInTurnScore ==
  \A k \in Attempts \ overlapped : AllAnswered(k) => run["scoring"][k] # "absent"

-----------------------------------------------------------------------------
(* What docs/MULTI_CASE_WORKFLOW.md says and the code does not keep *)

\* "The scoring continuation starts automatically after the last assigned
\* response for that case arrives": also when the last two arrive together.
LastAnswerScores ==
  \A k \in Attempts : AllAnswered(k) => run["scoring"][k] # "absent"

\* "Explicitly selecting a completed or failed case creates a new intake
\* attempt": a case whose latest run has failed is not skipped, once every
\* handler has committed and no run is left.
FailedCasesCanBeLaunched ==
  (/\ case.latest # None /\ run[case.latest[1]][case.latest[2]] = "failed"
   /\ ActiveRuns = {}
   /\ \A l \in Launchers : launch[l].at = "idle"
   /\ \A q \in Requests : submit[q].at = "idle")
     => case.status \notin Skipped
=============================================================================
