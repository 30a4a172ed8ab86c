-------------------------------- MODULE Requests --------------------------------
(* What requests of users do to the tables of the platform: accounts and      *)
(* project members, runs and the workflows they are for, one workflow that is *)
(* edited and versioned, cases and their reviewers, and the turns of a chat.  *)
(* Platform runs them.                                                        *)
EXTENDS Integers, Sequences, FiniteSets

CONSTANTS None, Gone, Sessions,
          Names, Root, Roles, MaxCommits,                              \* access
          Owner, Member, Workflows, Runs, Projects, RunKeys, MaxActive, MaxRequests, \* admission
          Graphs, VersionNames, VersionLimit, MaxInFlight, MaxRevision, MaxNumber, \* document
          NodeNames, Texts, Batches, MaxRounds, MaxEdits               \* chat

VARIABLES request, overlapped, workflow, version, run,                 \* of several scenes
          account, project, token, commits, out, reborn,               \* access
          projects, asked, answer, succeeded, sent,                    \* admission
          editor, lockedBy,                                            \* document
          case, assignees, task, submission, launch, submit, finalizer, retries, outages, \* case
          chatRow, saves, turn, queued, messages                       \* chat

accessVars == <<account, project, token, commits, out, reborn>>
admissionVars == <<projects, asked, answer, succeeded, sent>>
documentVars == <<editor, lockedBy>>
caseVars == <<case, assignees, task, submission, launch, submit, finalizer, retries, outages>>
chatVars == <<chatRow, saves, turn, queued, messages>>
sharedVars == <<request, overlapped, workflow, version, run>>

Access == INSTANCE ProjectAccess

Admission == INSTANCE RunAdmission WITH Keys <- RunKeys

Document == INSTANCE WorkflowDocument WITH Editors <- Sessions, Names <- VersionNames

\* A case, for every setting of reviewers, contexts, answers and launchers.
Case(s) == INSTANCE CaseReview WITH
  Reviewers <- s.reviewers, Contexts <- s.contexts, Answers <- s.answers,
  Launchers <- s.launchers, Requests <- Sessions, MaxLaunches <- s.launches,
  MaxRetries <- s.retries, MaxOutages <- s.outages

Chat == INSTANCE AssistantChat WITH
  saved <- chatRow, rows <- messages, Turns <- Sessions, Names <- NodeNames
=============================================================================
