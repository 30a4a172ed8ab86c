-------------------------------- MODULE Platform --------------------------------
(* What requests, workers and child processes do to the tables of the         *)
(* platform, one scene at a time: those of Requests, what the answers of      *)
(* assigned tasks set off, and what a run says about its nodes.  A scene      *)
(* leaves the variables of the others at None.  Tasks and runs are            *)
(* instantiated with their theorems; those of requests are in RequestProofs.  *)
EXTENDS Requests

CONSTANTS Review, Relaunch,      \* two settings of a case
          Panel, Batch, Crossing, \* three settings of assigned tasks
          Long, Short            \* two settings of a run

VARIABLES scene,
          origin, assigned, watch, answered, answering, lastId, \* assigned tasks
          continued, reminded, checker, late,
          progress, child, directory, monitor, ended, stale     \* a run

watchVars == <<origin, assigned, watch, answered, answering, lastId, continued, reminded, checker, late>>
progressVars == <<progress, child, directory, monitor, ended, stale>>
vars == <<scene, sharedVars, accessVars, admissionVars, documentVars, caseVars, chatVars, watchVars, progressVars>>

Watched == INSTANCE SubmissionWatchProofs WITH
  Pairs <- Panel.pairs, Versions <- Panel.versions, SourceRuns <- Panel.runs, Workers <- Panel.workers,
  Flow <- Panel.flow, GetNode <- Panel.get, Limit <- Panel.limit, MaxIds <- Panel.ids,
  source <- origin, tasks <- assigned, ids <- lastId, queued <- continued, worker <- checker

Batched == INSTANCE SubmissionWatchProofs WITH
  Pairs <- Batch.pairs, Versions <- Batch.versions, SourceRuns <- Batch.runs, Workers <- Batch.workers,
  Flow <- Batch.flow, GetNode <- Batch.get, Limit <- Batch.limit, MaxIds <- Batch.ids,
  source <- origin, tasks <- assigned, ids <- lastId, queued <- continued, worker <- checker

Overlapping == INSTANCE SubmissionWatchProofs WITH
  Pairs <- Crossing.pairs, Versions <- Crossing.versions, SourceRuns <- Crossing.runs, Workers <- Crossing.workers,
  Flow <- Crossing.flow, GetNode <- Crossing.get, Limit <- Crossing.limit, MaxIds <- Crossing.ids,
  source <- origin, tasks <- assigned, ids <- lastId, queued <- continued, worker <- checker

Progress == INSTANCE ChildProgressProofs WITH
  Order <- Long.order, Aside <- Long.aside, Inside <- Long.inside, Follows <- Long.follows,
  MayDefer <- Long.mayDefer, MaxAttempts <- Long.attempts, MaxClaims <- Long.claims,
  row <- progress, files <- directory

Attempts == INSTANCE ChildProgressProofs WITH
  Order <- Short.order, Aside <- Short.aside, Inside <- Short.inside, Follows <- Short.follows,
  MayDefer <- Short.mayDefer, MaxAttempts <- Short.attempts, MaxClaims <- Short.claims,
  row <- progress, files <- directory

-----------------------------------------------------------------------------
NoAccess == /\ account = None /\ project = None /\ token = None /\ commits = None
            /\ out = None /\ reborn = None
NoAdmission == /\ projects = None /\ asked = None /\ answer = None /\ succeeded = None
               /\ sent = None
NoDocument == editor = None /\ lockedBy = None
NoCase == /\ case = None /\ assignees = None /\ task = None /\ submission = None
          /\ launch = None /\ submit = None /\ finalizer = None /\ retries = None /\ outages = None
NoChat == chatRow = None /\ saves = None /\ turn = None /\ queued = None /\ messages = None
NoWatch == /\ origin = None /\ assigned = None /\ watch = None /\ answered = None /\ answering = None
           /\ lastId = None /\ continued = None /\ reminded = None /\ checker = None /\ late = None
NoProgress == /\ progress = None /\ child = None /\ directory = None /\ monitor = None
              /\ ended = None /\ stale = None
NoShared == request = None /\ overlapped = None /\ workflow = None /\ version = None /\ run = None

Init ==
  \/ /\ scene = "access" /\ Access!Init
     /\ workflow = None /\ version = None /\ run = None
     /\ NoAdmission /\ NoDocument /\ NoCase /\ NoChat /\ NoWatch /\ NoProgress
  \/ /\ scene = "admission" /\ Admission!Init
     /\ version = None
     /\ NoAccess /\ NoDocument /\ NoCase /\ NoChat /\ NoWatch /\ NoProgress
  \/ /\ scene = "document" /\ Document!Init
     /\ run = None
     /\ NoAccess /\ NoAdmission /\ NoCase /\ NoChat /\ NoWatch /\ NoProgress
  \/ /\ \/ scene = "case" /\ Case(Review)!Init
        \/ scene = "launches" /\ Case(Relaunch)!Init
     /\ request = None /\ workflow = None /\ version = None
     /\ NoAccess /\ NoAdmission /\ NoDocument /\ NoChat /\ NoWatch /\ NoProgress
  \/ /\ scene = "chat" /\ Chat!Init
     /\ NoShared /\ NoAccess /\ NoAdmission /\ NoDocument /\ NoCase /\ NoWatch /\ NoProgress
  \/ /\ \/ scene = "watch" /\ Watched!Init
        \/ scene = "batch" /\ Batched!Init
        \/ scene = "overlap" /\ Overlapping!Init
     /\ NoShared /\ NoAccess /\ NoAdmission /\ NoDocument /\ NoCase /\ NoChat /\ NoProgress
  \/ /\ \/ scene = "progress" /\ Progress!Init
        \/ scene = "attempts" /\ Attempts!Init
     /\ NoShared /\ NoAccess /\ NoAdmission /\ NoDocument /\ NoCase /\ NoChat /\ NoWatch

Next ==
  /\ UNCHANGED scene
  /\ \/ /\ scene = "access" /\ Access!Next
        /\ UNCHANGED <<workflow, version, run, admissionVars, documentVars, caseVars, chatVars, watchVars, progressVars>>
     \/ /\ scene = "admission" /\ Admission!Next
        /\ UNCHANGED <<version, accessVars, documentVars, caseVars, chatVars, watchVars, progressVars>>
     \/ /\ scene = "document" /\ Document!Next
        /\ UNCHANGED <<run, accessVars, admissionVars, caseVars, chatVars, watchVars, progressVars>>
     \/ /\ \/ scene = "case" /\ Case(Review)!Next
           \/ scene = "launches" /\ Case(Relaunch)!Next
        /\ UNCHANGED <<request, workflow, version, accessVars, admissionVars, documentVars, chatVars, watchVars, progressVars>>
     \/ /\ scene = "chat" /\ Chat!Next
        /\ UNCHANGED <<sharedVars, accessVars, admissionVars, documentVars, caseVars, watchVars, progressVars>>
     \/ /\ \/ scene = "watch" /\ Watched!Next
           \/ scene = "batch" /\ Batched!Next
           \/ scene = "overlap" /\ Overlapping!Next
        /\ UNCHANGED <<sharedVars, accessVars, admissionVars, documentVars, caseVars, chatVars, progressVars>>
     \/ /\ \/ scene = "progress" /\ Progress!Next
           \/ scene = "attempts" /\ Attempts!Next
        /\ UNCHANGED <<sharedVars, accessVars, admissionVars, documentVars, caseVars, chatVars, watchVars>>

Spec == Init /\ [][Next]_vars

-----------------------------------------------------------------------------
\* Owners can work, an admin remains, the list of projects shows what can be
\* opened, members fit, who was signed out stays out (see ProjectAccess).
AccessHolds == scene = "access" => Access!AccessHolds

\* References between runs, workflows and projects hold, a workflow shows the
\* results of a run that succeeded, and a run at work keeps its workflow (see
\* RunAdmission).
AdmissionHolds == scene = "admission" => Admission!AdmissionHolds

\* Version numbers never collide, the limit of versions is kept and a revision
\* number names one content (see WorkflowDocument).
DocumentHolds == scene = "document" => Document!DocumentHolds

\* Requests handled one after the other never overwrite what their editor has
\* not seen (autosave_workflow).
NoStaleOverwriteInTurn == [][scene = "document" => Document!OverwritesWhatWasSeen]_vars

\* One run never asks a reviewer twice, and the last of several answers given
\* in turn queues the scoring (see CaseReview), of the graph that was launched.
AnswersHold == scene = "case" => Case(Review)!TypeOK /\ Case(Review)!OneTaskPerReviewer /\ Case(Review)!AnswersInTurnScore

\* Two launches of one case share tasks, and still no scoring run starts before
\* the tasks of its intake run are answered (see CaseReview).
ScoringIsReviewed == scene = "launches" => Case(Relaunch)!ScoringIsReviewed

\* An answer stays: that of a reviewer, once stored (submit_task), and that of
\* one key of a run request, whoever sends it again (create_run).
AnswersAreFinal == [][/\ scene = "case" => Case(Review)!AnswersAreFinal
                      /\ scene = "admission" => Admission!AnswersAreFinal]_vars

\* A user is told of every run and every edit of a turn, once, the run is of
\* the graph that was saved, and the conversation is kept whole (answer in
\* assistant/service; the parts are stated in AssistantChat).
ChatIsHonest == scene = "chat" => Chat!ChatIsHonest

\* What follows an answer happens: its continuations are queued unless a cursor
\* passed it unseen, and whoever waits for answers watches them (submit_task,
\* persist_task_watches, process_task_maintenance; the parts are stated in
\* SubmissionWatch).
WatchHolds ==
  /\ scene = "watch" => Watched!WatchHolds
  /\ scene = "batch" => Batched!WatchHolds
  /\ scene = "overlap" => Overlapping!WatchHolds

\* What the row of a run says about its nodes is what the child of its own
\* attempt did, succeeds only when nothing is missing, and leaves nothing open when
\* the result of an attempt says that it was cancelled or timed out; a run that is
\* cancelled while it is queued, or by recovery, has no such result (run_child,
\* reliable_worker; the parts are stated in ChildProgress).
ProgressHolds ==
  /\ scene = "progress" => Progress!ProgressHolds
  /\ scene = "attempts" => Attempts!ProgressHolds
=============================================================================
