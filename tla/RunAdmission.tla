------------------------------ MODULE RunAdmission ------------------------------
(* How runs, workflows and projects refer to each other: a run is asked for,    *)
(* perhaps twice with one key, a workflow is created from a finished run, moved *)
(* or deleted, a project goes.  A request reads and checks first and writes     *)
(* when it commits; foreign keys and the unique key are checked then.           *)
EXTENDS Integers, FiniteSets

CONSTANTS None,
          Gone,           \* a workflow id whose row was deleted
          Owner, Member,  \* the owner of the projects and a member who may edit
          Workflows, Runs, Projects, Keys,
          Sessions,       \* requests in flight
          MaxActive,      \* runs an owner may have active
          MaxRequests     \* bound on the requests that go on to write

VARIABLES workflow,   \* workflow rows
          run,        \* run rows
          projects,   \* the projects there are
          request,    \* what each session is about to write
          asked,      \* the run each key was first used for
          answer,     \* the run each key was answered with
          succeeded,  \* runs that succeeded once
          overlapped, \* two requests were in flight together
          sent        \* requests that went on to write

vars == <<workflow, run, projects, request, asked, answer, succeeded, overlapped, sent>>

Users == {Owner, Member}
Rows(table) == {i \in DOMAIN table : table[i] \notin {None, Gone}}
ActiveRuns == {r \in Rows(run) : run[r].status = "queued"}
Places == projects \cup {None}

Init ==
  /\ workflow = [w \in Workflows |-> None] /\ run = [r \in Runs |-> None]
  /\ projects = Projects
  /\ request = [s \in Sessions |-> None]
  /\ asked = [k \in Keys |-> None] /\ answer = [k \in Keys |-> None]
  /\ succeeded = {} /\ overlapped = FALSE /\ sent = 0

-----------------------------------------------------------------------------
(* Access: rows of a project belong to its owner and are open to its members,  *)
(* rows outside of projects are open to the user they belong to.               *)

OwnerIn(user, project) == IF project = None THEN user ELSE Owner
Usable(user, row) == IF row.project = None THEN row.owner = user ELSE row.project \in projects

Ask(s, write) ==
  /\ request[s] = None /\ sent < MaxRequests
  /\ sent' = sent + 1
  /\ request' = [request EXCEPT ![s] = write]
  /\ overlapped' = (overlapped \/ \E t \in Sessions : request[t] # None)
  /\ UNCHANGED <<workflow, run, projects, answer, succeeded>>

-----------------------------------------------------------------------------
(* Runs *)

FindIdempotent(owner, key) ==
  {r \in Rows(run) : key # None /\ run[r].owner = owner /\ run[r].key = key}

QuotaLeft(owner) == Cardinality({r \in ActiveRuns : run[r].owner = owner}) < MaxActive

RunRow(user, w, project, key) ==
  [workflow |-> w, project |-> project, owner |-> OwnerIn(user, project), key |-> key,
   of |-> w, status |-> "queued"]

Reply(key, r) == answer' = [k \in Keys |-> IF k = key THEN r ELSE answer[k]]

\* A repeated request finds its run by the name of who asks.
CreateRun(s, user, w, project, key) ==
  LET asking == [user |-> user, workflow |-> w, project |-> project]
  IN  /\ key # None => asked[key] \in {None, asking}
      /\ asked' = [k \in Keys |-> IF k = key THEN asking ELSE asked[k]]
      /\ \/ \E r \in FindIdempotent(user, key) :
              /\ request[s] = None
              /\ Reply(key, r)
              /\ UNCHANGED <<workflow, run, projects, request, succeeded, overlapped, sent>>
         \/ /\ FindIdempotent(user, key) = {}
            /\ w # None => /\ w \in Rows(workflow)
                           /\ Usable(user, workflow[w])
                           /\ workflow[w].project = project
            /\ project \in Places
            /\ QuotaLeft(OwnerIn(user, project))
            /\ Ask(s, [kind |-> "run", row |-> RunRow(user, w, project, key)])

\* The key of another row stops the insert: its run is the answer.
InsertRun(row) ==
  /\ IF FindIdempotent(row.owner, row.key) # {}
     THEN \E r \in FindIdempotent(row.owner, row.key) : Reply(row.key, r) /\ UNCHANGED run
     ELSE IF (row.workflow = None \/ row.workflow \in Rows(workflow)) /\ row.project \in Places
     THEN \E r \in Runs \ Rows(run) :
            /\ \A q \in Runs \ Rows(run) : r <= q
            /\ run' = [run EXCEPT ![r] = row]
            /\ Reply(row.key, r)
     ELSE UNCHANGED <<run, answer>>
  /\ UNCHANGED <<workflow, projects, succeeded>>

RetryRun(s, user, r) ==
  /\ r \in Rows(run) \ ActiveRuns
  /\ Usable(user, run[r])
  /\ QuotaLeft(run[r].owner)
  /\ Ask(s, [kind |-> "retry", run |-> r])
  /\ UNCHANGED asked

\* The worker ends a run and tells the workflow the run still belongs to.
FinishRun(r, status) ==
  /\ r \in ActiveRuns
  /\ run' = [run EXCEPT ![r].status = status]
  /\ IF status = "succeeded"
     THEN /\ succeeded' = succeeded \cup {r}
          /\ workflow' = [w \in Workflows |->
               IF w = run[r].workflow THEN [workflow[w] EXCEPT !.last = r] ELSE workflow[w]]
     ELSE UNCHANGED <<workflow, succeeded>>
  /\ UNCHANGED <<projects, request, asked, answer, overlapped, sent>>

-----------------------------------------------------------------------------
(* Workflows *)

\* Mutant: any run will do.
AnyLastRun(r, owner, project, w) ==
  r = None \/ (r \in Rows(run) /\ run[r].owner = owner /\ run[r].project = project)

\* The run shown as a workflow's results; a new workflow takes any run of its
\* project and owner, that of another workflow too.
ValidLastRun(r, owner, project, w) ==
  r = None \/ /\ r \in Rows(run)
              /\ run[r].owner = owner /\ run[r].project = project
              /\ w = None \/ run[r].workflow \in {None, w}
              /\ run[r].status = "succeeded"

CreateWorkflow(s, user, project, last) ==
  /\ project \in Places
  /\ ValidLastRun(last, OwnerIn(user, project), project, None)
  /\ None \in {workflow[w] : w \in Workflows}
  /\ Ask(s, [kind |-> "workflow", row |-> [project |-> project, owner |-> OwnerIn(user, project), last |-> last]])
  /\ UNCHANGED asked

\* An UPDATE names the columns that differ from what was read.
Changed(w, columns) ==
  [kind |-> "change", workflow |-> w,
   set |-> [c \in {d \in DOMAIN columns : columns[d] # workflow[w][d]} |-> columns[c]]]

\* PUT moves a workflow between the projects of its owner and checks the run.
UpdateWorkflow(s, user, w, project, last) ==
  /\ w \in Rows(workflow) /\ Usable(user, workflow[w])
  /\ project \in Places
  /\ project = None \/ workflow[w].owner = Owner
  /\ ValidLastRun(last, workflow[w].owner, project, w)
  /\ Ask(s, Changed(w, [project |-> project, last |-> last]))
  /\ UNCHANGED asked

\* Autosave moves a workflow too and leaves the run alone.
AutosaveWorkflow(s, user, w, project) ==
  /\ w \in Rows(workflow) /\ Usable(user, workflow[w])
  /\ project \in Places
  /\ project = None \/ workflow[w].owner = Owner
  /\ Ask(s, Changed(w, [project |-> project]))
  /\ UNCHANGED asked

DeleteWorkflow(s, user, w) ==
  /\ w \in Rows(workflow) /\ Usable(user, workflow[w])
  /\ ~\E r \in ActiveRuns : run[r].workflow = w /\ run[r].owner = workflow[w].owner
  /\ Ask(s, [kind |-> "delete", workflow |-> w])
  /\ UNCHANGED asked

InsertWorkflow(row) ==
  /\ IF row.project \in Places
     THEN \E w \in Workflows :
            /\ workflow[w] = None
            /\ \A v \in Workflows : workflow[v] = None => w <= v
            /\ workflow' = [workflow EXCEPT ![w] = row]
     ELSE UNCHANGED workflow
  /\ UNCHANGED <<run, projects, answer, succeeded>>

Updated(row, columns) == [c \in DOMAIN row |-> IF c \in DOMAIN columns THEN columns[c] ELSE row[c]]

\* An UPDATE of a row that is gone, or to a project that is gone, is undone.
WriteWorkflow(w, columns) ==
  /\ workflow' = IF w \in Rows(workflow) /\ Updated(workflow[w], columns).project \in Places
                 THEN [workflow EXCEPT ![w] = Updated(workflow[w], columns)]
                 ELSE workflow
  /\ UNCHANGED <<run, projects, answer, succeeded>>

Detached(rows, column, gone) ==
  [i \in DOMAIN rows |-> IF i \in Rows(rows) /\ rows[i][column] \in gone
                         THEN [rows[i] EXCEPT ![column] = None] ELSE rows[i]]

RemoveWorkflow(w) ==
  /\ workflow' = [workflow EXCEPT ![w] = Gone]
  /\ run' = Detached(run, "workflow", {w})
  /\ UNCHANGED <<projects, answer, succeeded>>

DeleteProject(p) ==
  /\ p \in projects
  /\ projects' = projects \ {p}
  /\ run' = Detached(run, "project", {p})
  /\ workflow' = Detached(workflow, "project", {p})
  /\ UNCHANGED <<request, asked, answer, succeeded, overlapped, sent>>

Commit(s) ==
  LET w == request[s]
  IN  /\ w # None
      /\ \/ w.kind = "run" /\ InsertRun(w.row)
         \/ /\ w.kind = "retry"
            /\ run' = [run EXCEPT ![w.run].status = "queued", ![w.run].of = run[w.run].workflow]
            /\ UNCHANGED <<workflow, projects, answer, succeeded>>
         \/ w.kind = "workflow" /\ InsertWorkflow(w.row)
         \/ w.kind = "change" /\ WriteWorkflow(w.workflow, w.set)
         \/ w.kind = "delete" /\ RemoveWorkflow(w.workflow)
      /\ request' = [request EXCEPT ![s] = None]
      /\ UNCHANGED <<asked, overlapped, sent>>

Asks(s, user) ==
  \/ \E w \in Workflows \cup {None}, p \in Places, k \in Keys \cup {None} : CreateRun(s, user, w, p, k)
  \/ \E r \in Runs : RetryRun(s, user, r)
  \/ \E p \in Places, r \in Runs \cup {None} :
       CreateWorkflow(s, user, p, r) \/ \E w \in Workflows : UpdateWorkflow(s, user, w, p, r)
  \/ \E w \in Workflows : DeleteWorkflow(s, user, w) \/ \E p \in Places : AutosaveWorkflow(s, user, w, p)

Next ==
  \/ \E s \in Sessions, user \in Users : request[s] = None /\ Asks(s, user)
  \/ \E s \in Sessions : Commit(s)
  \/ \E r \in Runs, status \in {"succeeded", "failed"} : FinishRun(r, status)
  \/ \E p \in Projects : DeleteProject(p)

Spec == Init /\ [][Next]_vars

-----------------------------------------------------------------------------
\* A key is answered with one run, however often, however close together it is
\* sent, and whoever of the project sends it (create_run, find_idempotent_run).
AnswersAreFinal == \A k \in Keys : answer[k] # None => answer'[k] = answer[k]

\* The results a workflow shows are those of a run that succeeded and was its
\* own, of a workflow deleted since, or of the one it was saved from.
LastRunHasResults == \A w \in Rows(workflow) : workflow[w].last # None => workflow[w].last \in succeeded

\* While requests are handled in turn, a run that is waiting or working keeps
\* the workflow it is for (delete_workflow).
ActiveRunKeepsWorkflow ==
  ~overlapped => \A r \in ActiveRuns : run[r].of # None => run[r].workflow = run[r].of

\* Rows of a project belong to the owner of the projects, and references name
\* rows that exist.
ReferencesHold ==
  /\ \A r \in Rows(run) : /\ run[r].workflow \in Rows(workflow) \cup {None}
                          /\ run[r].project \in Places
                          /\ run[r].project # None => run[r].owner = Owner
  /\ \A w \in Rows(workflow) : /\ workflow[w].project \in Places
                               /\ workflow[w].project # None => workflow[w].owner = Owner

AdmissionHolds == LastRunHasResults /\ ActiveRunKeepsWorkflow /\ ReferencesHold
=============================================================================
