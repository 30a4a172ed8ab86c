---------------------------- MODULE PlatformProofs ----------------------------
(***************************************************************************)
(* What a component of the platform promises, its scene keeps: a scene     *)
(* starts and goes on as its component does, so that what RequestProofs,   *)
(* SubmissionWatchProofs and ChildProgressProofs show of the components is *)
(* true of the specification the run of the platform checks.               *)
(***************************************************************************)
EXTENDS Platform, RequestProofs

-----------------------------------------------------------------------------
\* A scene starts as its component does.
LEMMA SceneStarts ==
  ASSUME Init
  PROVE  /\ scene = "access" => Access!Init
         /\ scene = "admission" => Admission!Init
         /\ scene = "document" => Document!Init
         /\ scene = "case" => Case(Review)!Init
         /\ scene = "launches" => Case(Relaunch)!Init
         /\ scene = "chat" => Chat!Init
         /\ scene = "watch" => Watched!Init
         /\ scene = "batch" => Batched!Init
         /\ scene = "overlap" => Overlapping!Init
         /\ scene = "progress" => Progress!Init
         /\ scene = "attempts" => Attempts!Init
BY DEF Init

\* And goes on as it does.
LEMMA SceneContinues ==
  ASSUME [Next]_vars
  PROVE  /\ scene' = scene
         /\ scene = "access" => [Access!Next]_(Access!vars)
         /\ scene = "admission" => [Admission!Next]_(Admission!vars)
         /\ scene = "document" => [Document!Next]_(Document!vars)
         /\ scene = "case" => [Case(Review)!Next]_(Case(Review)!vars)
         /\ scene = "launches" => [Case(Relaunch)!Next]_(Case(Relaunch)!vars)
         /\ scene = "chat" => [Chat!Next]_(Chat!chatVars)
         /\ scene = "watch" => [Watched!Next]_(Watched!vars)
         /\ scene = "batch" => [Batched!Next]_(Batched!vars)
         /\ scene = "overlap" => [Overlapping!Next]_(Overlapping!vars)
         /\ scene = "progress" => [Progress!Next]_(Progress!vars)
         /\ scene = "attempts" => [Attempts!Next]_(Attempts!vars)
<1>1. CASE Next
  BY <1>1 DEF Next
<1>2. CASE UNCHANGED vars
  <2>1. /\ UNCHANGED <<scene, request, overlapped, workflow, version, run>>
        /\ UNCHANGED <<account, project, token, commits, out, reborn>>
        /\ UNCHANGED <<projects, asked, answer, succeeded, sent, editor, lockedBy>>
        /\ UNCHANGED <<case, assignees, task, submission, launch, submit, finalizer, retries, outages>>
        /\ UNCHANGED <<chatRow, saves, turn, queued, messages>>
        /\ UNCHANGED <<origin, assigned, watch, answered, answering, lastId, continued, reminded, checker, late>>
        /\ UNCHANGED <<progress, child, directory, monitor, ended, stale>>
    BY <1>2 DEF vars, sharedVars, accessVars, admissionVars, documentVars, caseVars, chatVars, watchVars, progressVars
  <2>2. UNCHANGED Access!vars /\ UNCHANGED Admission!vars
    BY <2>1 DEF Access!vars, Admission!vars
  <2>3. UNCHANGED Document!vars /\ UNCHANGED Chat!chatVars
    BY <2>1 DEF Document!vars, Chat!chatVars
  <2>4. UNCHANGED Case(Review)!vars /\ UNCHANGED Case(Relaunch)!vars
    BY <2>1 DEF Case!vars, Case!requestVars, Case!boundVars
  <2>5. UNCHANGED Watched!vars /\ UNCHANGED Batched!vars /\ UNCHANGED Overlapping!vars
    BY <2>1 DEF Watched!vars, Batched!vars, Overlapping!vars
  <2>6. UNCHANGED Progress!vars /\ UNCHANGED Attempts!vars
    BY <2>1 DEF Progress!vars, Attempts!vars
  <2> QED BY <2>1, <2>2, <2>3, <2>4, <2>5, <2>6
<1> QED BY <1>1, <1>2

\* Owners can work, an admin remains, what is listed opens, members fit and a
\* session that was signed out stays out, for any accounts, roles and sessions
\* (admin/routes, projects/service and permissions, core/auth).
THEOREM AccessCorrect ==
  ASSUME AccessParameters
  PROVE  Spec => []AccessHolds
<1> DEFINE Here == scene = "access"
<1>1. Init => (Here => Access!Init)
  BY SceneStarts
<1>2. [Next]_vars => (Here' <=> Here) /\ (Here => [Access!Next]_(Access!vars))
  BY SceneContinues
<1>3. Access!Spec => [](Access!AccessHolds)
  BY AccessIsKept
<1>4. (Here => Access!AccessHolds) => AccessHolds
  BY DEF AccessHolds
<1> HIDE DEF Here
<1> QED BY <1>1, <1>2, <1>3, <1>4, PTL DEF Spec, Access!Spec

\* A workflow shows the results of a run that succeeded, a run at work keeps
\* its workflow while requests are handled in turn, and references name rows
\* that exist (create_run, delete_workflow, update_workflow, the foreign keys).
THEOREM AdmissionCorrect ==
  ASSUME Distinct
  PROVE  Spec => []AdmissionHolds
<1> DEFINE Here == scene = "admission"
<1>1. Init => (Here => Admission!Init)
  BY SceneStarts
<1>2. [Next]_vars => (Here' <=> Here) /\ (Here => [Admission!Next]_(Admission!vars))
  BY SceneContinues
<1>3. Admission!Spec => [](Admission!AdmissionHolds)
  BY AdmissionIsKept
<1>4. (Here => Admission!AdmissionHolds) => AdmissionHolds
  BY DEF AdmissionHolds
<1> HIDE DEF Here
<1> QED BY <1>1, <1>2, <1>3, <1>4, PTL DEF Spec, Admission!Spec

\* Version numbers never collide, the limit of versions is kept and a revision
\* names one graph, for any sessions, graphs and limit (create_version,
\* autosave_workflow, restore_version).
THEOREM DocumentCorrect ==
  ASSUME DocumentParameters
  PROVE  Spec => []DocumentHolds
<1> DEFINE Here == scene = "document"
<1>1. Init => (Here => Document!Init)
  BY SceneStarts
<1>2. [Next]_vars => (Here' <=> Here) /\ (Here => [Document!Next]_(Document!vars))
  BY SceneContinues
<1>3. Document!Spec => [](Document!DocumentHolds)
  BY DocumentIsKept
<1>4. (Here => Document!DocumentHolds) => DocumentHolds
  BY DEF DocumentHolds
<1> HIDE DEF Here
<1> QED BY <1>1, <1>2, <1>3, <1>4, PTL DEF Spec, Document!Spec

\* One run never asks a reviewer twice, and the last of several answers given in
\* turn queues the scoring (submit_task, queue_scoring_run).
THEOREM AnswersCorrect ==
  ASSUME CaseParameters(Review)
  PROVE  Spec => []AnswersHold
<1> DEFINE Here == scene = "case"
<1>1. Init => (Here => Case(Review)!Init)
  BY SceneStarts
<1>2. [Next]_vars => (Here' <=> Here) /\ (Here => [Case(Review)!Next]_(Case(Review)!vars))
  BY SceneContinues
<1>3. Case(Review)!Init => CInv(Review)
  BY CaseStarts
<1>4. CInv(Review) /\ [Case(Review)!Next]_(Case(Review)!vars) => CInv(Review)'
  BY CaseContinues
<1>5. (Here => CInv(Review)) => AnswersHold
  BY CaseShows DEF AnswersHold
<1> HIDE DEF Here
<1> QED BY <1>1, <1>2, <1>3, <1>4, <1>5, PTL DEF Spec

\* No scoring run starts before the tasks of its intake run are answered,
\* however many launches share them (queue_scoring_run, launch_case).
THEOREM ScoringWaits ==
  ASSUME CaseParameters(Relaunch)
  PROVE  Spec => []ScoringIsReviewed
<1> DEFINE Here == scene = "launches"
<1>1. Init => (Here => Case(Relaunch)!Init)
  BY SceneStarts
<1>2. [Next]_vars => (Here' <=> Here) /\ (Here => [Case(Relaunch)!Next]_(Case(Relaunch)!vars))
  BY SceneContinues
<1>3. Case(Relaunch)!Init => CInv(Relaunch)
  BY CaseStarts
<1>4. CInv(Relaunch) /\ [Case(Relaunch)!Next]_(Case(Relaunch)!vars) => CInv(Relaunch)'
  BY CaseContinues
<1>5. (Here => CInv(Relaunch)) => ScoringIsReviewed
  BY CaseShows DEF ScoringIsReviewed
<1> HIDE DEF Here
<1> QED BY <1>1, <1>2, <1>3, <1>4, <1>5, PTL DEF Spec

\* A turn queues at most one run and tells of it, tells of its edits, runs the
\* graph that is saved unless somebody else has saved since, and leaves whole
\* exchanges (chat, run_current_workflow, add_exchange).
THEOREM ChatCorrect ==
  ASSUME ChatParameters
  PROVE  Spec => []ChatIsHonest
<1> DEFINE Here == scene = "chat"
<1>1. Init => (Here => Chat!Init)
  BY SceneStarts
<1>2. [Next]_vars => (Here' <=> Here) /\ (Here => [Chat!Next]_(Chat!chatVars))
  BY SceneContinues
<1>3. Chat!Spec => [](Chat!ChatIsHonest)
  BY ChatIsKept
<1>4. (Here => Chat!ChatIsHonest) => ChatIsHonest
  BY DEF ChatIsHonest
<1> HIDE DEF Here
<1> QED BY <1>1, <1>2, <1>3, <1>4, PTL DEF Spec, Chat!Spec

\* What follows an answer happens: its continuations are queued unless a cursor
\* passed it unseen, nothing else is, and who waits for answers watches them, for
\* three settings of pairs, graphs, runs and workers (submit_task,
\* persist_task_watches, process_task_maintenance).
THEOREM WatchCorrect ==
  ASSUME Watched!Parameters, Batched!Parameters, Overlapping!Parameters
  PROVE  Spec => []WatchHolds
<1> DEFINE One == scene = "watch"
           Two == scene = "batch"
           Three == scene = "overlap"
<1>1. Init => /\ One => Watched!Init
              /\ Two => Batched!Init
              /\ Three => Overlapping!Init
  BY SceneStarts
<1>2. [Next]_vars => /\ (One' <=> One) /\ (Two' <=> Two) /\ (Three' <=> Three)
                     /\ One => [Watched!Next]_(Watched!vars)
                     /\ Two => [Batched!Next]_(Batched!vars)
                     /\ Three => [Overlapping!Next]_(Overlapping!vars)
  BY SceneContinues
<1>3. Watched!Spec => [](Watched!WatchHolds)
  BY Watched!WatchCorrect
<1>4. Batched!Spec => [](Batched!WatchHolds)
  BY Batched!WatchCorrect
<1>5. Overlapping!Spec => [](Overlapping!WatchHolds)
  BY Overlapping!WatchCorrect
<1>6. (One => Watched!WatchHolds) /\ (Two => Batched!WatchHolds) /\ (Three => Overlapping!WatchHolds)
        => WatchHolds
  BY DEF WatchHolds
<1> HIDE DEF One, Two, Three
<1> QED BY <1>1, <1>2, <1>3, <1>4, <1>5, <1>6, PTL DEF Spec, Watched!Spec, Batched!Spec, Overlapping!Spec

\* The row of a run says of its nodes what the child of its own attempt did, a
\* success is complete, a failure is located and nothing is left open, for two
\* settings of plans and attempts (run_child, reliable_worker).
THEOREM ProgressCorrect ==
  ASSUME Progress!Parameters, Attempts!Parameters
  PROVE  Spec => []ProgressHolds
<1> DEFINE One == scene = "progress"
           Two == scene = "attempts"
<1>1. Init => (One => Progress!Init) /\ (Two => Attempts!Init)
  BY SceneStarts
<1>2. [Next]_vars => /\ (One' <=> One) /\ (Two' <=> Two)
                     /\ One => [Progress!Next]_(Progress!vars)
                     /\ Two => [Attempts!Next]_(Attempts!vars)
  BY SceneContinues
<1>3. Progress!Spec => [](Progress!ProgressHolds)
  BY Progress!ProgressCorrect
<1>4. Attempts!Spec => [](Attempts!ProgressHolds)
  BY Attempts!ProgressCorrect
<1>5. (One => Progress!ProgressHolds) /\ (Two => Attempts!ProgressHolds) => ProgressHolds
  BY DEF ProgressHolds
<1> HIDE DEF One, Two
<1> QED BY <1>1, <1>2, <1>3, <1>4, <1>5, PTL DEF Spec, Progress!Spec, Attempts!Spec

\* While requests are handled in turn, an autosave overwrites only what its
\* editor has seen (autosave_workflow).
THEOREM SeenIsOverwritten ==
  ASSUME DocumentParameters
  PROVE  Spec => NoStaleOverwriteInTurn
<1> DEFINE Here == scene = "document"
<1>1. Init => (Here => Document!Init)
  BY SceneStarts
<1>2. [Next]_vars => (Here' <=> Here) /\ (Here => [Document!Next]_(Document!vars))
  BY SceneContinues
<1>3. Document!Spec => [][Document!OverwritesWhatWasSeen]_(Document!vars)
  BY OverwriteIsSeen
<1>4. (Here => [Document!OverwritesWhatWasSeen]_(Document!vars)) => [Here => Document!OverwritesWhatWasSeen]_vars
  BY DEF Document!OverwritesWhatWasSeen, Document!vars
<1>5. [][Here => Document!OverwritesWhatWasSeen]_vars => NoStaleOverwriteInTurn
  BY PTL DEF NoStaleOverwriteInTurn
<1> HIDE DEF Here
<1> QED BY <1>1, <1>2, <1>3, <1>4, <1>5, PTL DEF Spec, Document!Spec

\* An answer stays: that of a reviewer, once stored, and that of one key of a run
\* request, whoever sends it again (submit_task; create_run, find_idempotent_run).
THEOREM AnswersAreKept ==
  ASSUME Distinct, CaseParameters(Review)
  PROVE  Spec => AnswersAreFinal
<1> DEFINE Reviewed == scene = "case"
           Admitted == scene = "admission"
           Final == /\ Reviewed => Case(Review)!AnswersAreFinal
                    /\ Admitted => Admission!AnswersAreFinal
<1>1. Init => (Reviewed => Case(Review)!Init) /\ (Admitted => Admission!Init)
  BY SceneStarts
<1>2. [Next]_vars => /\ (Reviewed' <=> Reviewed) /\ (Admitted' <=> Admitted)
                     /\ Reviewed => [Case(Review)!Next]_(Case(Review)!vars)
                     /\ Admitted => [Admission!Next]_(Admission!vars)
  BY SceneContinues
<1>3. /\ Case(Review)!Init => CInv(Review)
      /\ CInv(Review) /\ [Case(Review)!Next]_(Case(Review)!vars) => CInv(Review)'
  BY CaseStarts, CaseContinues
<1>4. Admission!Spec => [][Admission!AnswersAreFinal]_(Admission!vars)
  BY KeysKeepAnswers
<1>5. ASSUME [Next]_vars, Reviewed, UNCHANGED Case(Review)!vars
      PROVE  UNCHANGED vars
  <2>1. UNCHANGED <<scene, request, workflow, version, accessVars, admissionVars, documentVars, chatVars, watchVars, progressVars>>
    BY <1>5 DEF Next, vars, sharedVars
  <2>2. UNCHANGED <<run, overlapped, caseVars>>
    BY <1>5 DEF Case!vars, Case!requestVars, Case!boundVars, caseVars
  <2> QED BY <2>1, <2>2 DEF vars, sharedVars
<1>6. [Next]_vars /\ (Reviewed => CInv(Review))
        /\ (Admitted => [Admission!AnswersAreFinal]_(Admission!vars)) => [Final]_vars
  <2>1. UNCHANGED Admission!vars => Admission!AnswersAreFinal
    BY DEF Admission!vars, Admission!AnswersAreFinal
  <2>2. ~(Reviewed /\ Admitted)
    OBVIOUS
  <2>3. Reviewed /\ CInv(Review) /\ Case(Review)!Next => Case(Review)!AnswersAreFinal
    BY AnswersRemain
  <2> QED BY <1>2, <1>5, <2>1, <2>2, <2>3
<1>7. [][Final]_vars => AnswersAreFinal
  BY PTL DEF AnswersAreFinal
<1> HIDE DEF Reviewed, Admitted, Final
<1> QED BY <1>1, <1>2, <1>3, <1>4, <1>6, <1>7, PTL DEF Spec, Admission!Spec
=============================================================================
