--------------------------- MODULE WorkflowDocument ---------------------------
(***************************************************************************)
(* One saved workflow: the row that browser sessions autosave into, and    *)
(* its named versions (app/domains/workflows).                             *)
(*                                                                         *)
(* A handler reads the row once, without a lock: the authorization of the  *)
(* route loads it, and every later query of the session, SELECT ... FOR    *)
(* UPDATE included, returns that same object with the values it had.  The  *)
(* commit writes the changed columns, and the reply is read again.         *)
(***************************************************************************)
EXTENDS Integers, FiniteSets

CONSTANTS
  Editors,      \* clients, each with at most one request in flight
  Graphs,       \* contents of a workflow
  Names,        \* names of it
  None,         \* no such version
  VersionLimit, \* workflow_version_limit
  MaxInFlight,  \* bound: requests in flight together
  MaxRevision,  \* bound: revisions of the workflow
  MaxNumber     \* bound: version numbers

VARIABLES
  workflow,  \* the row of workflows
  version,   \* workflow_versions, by version_number
  editor,    \* what each client has last adopted from a reply
  request,   \* the handler each client is waiting for
  lockedBy,  \* the client whose handler holds FOR UPDATE on the row
  overlapped \* history: two requests that write have been in flight together

vars == <<workflow, version, editor, request, lockedBy, overlapped>>

-----------------------------------------------------------------------------
Numbers    == 1..MaxNumber
\* graph stands for graph and graph_hash.
Row        == [graph : Graphs, name : Names, revision : 1..MaxRevision]
VersionRow == [graph : Graphs, source_revision : 1..MaxRevision]
RequestState == [at : {"idle", "write", "reply", "lock", "insert"},
                 op : {"autosave", "update", "assistant", "rename", "restore", "version"},
                 loaded : Row \cup {None}, wanted : Row \cup {None},
                 number : 0..MaxNumber]

NoRequest == [at |-> "idle", op |-> "update", loaded |-> None, wanted |-> None, number |-> 0]

\* Mutant: revisions are counted from zero, below what base_revision may be.
CreatedAtZero(g, n) == [graph |-> g, name |-> n, revision |-> 0]

Created(g, n) == [graph |-> g, name |-> n, revision |-> 1]

Init == \E g \in Graphs, n \in Names :
  LET row == Created(g, n) IN
  /\ workflow = row
  /\ version = [k \in Numbers |-> None]
  /\ editor = [e \in Editors |-> row]
  /\ request = [e \in Editors |-> NoRequest]
  /\ lockedBy = None
  /\ overlapped = FALSE

-----------------------------------------------------------------------------
Versions     == {k \in Numbers : version[k] # None}
InFlight     == {e \in Editors : request[e].at # "idle"}
Overlap      == overlapped \/ InFlight # {}
Free(e)      == request[e].at = "idle" /\ Cardinality(InFlight) < MaxInFlight
Finished(e)  == [request EXCEPT ![e] = NoRequest]

\* Mutant: create_version selects the row without FOR UPDATE.
RowUnlocked(e) == TRUE

\* What an UPDATE of the row, or another FOR UPDATE, waits for.
RowFree(e) == lockedBy \in {None, e}

NextRevision(row) == row.revision + 1

\* The handler has read the row and means to change it as `wanted` says.
Prepare(e, op, wanted) ==
  /\ workflow.revision < MaxRevision
  /\ request' = [request EXCEPT ![e] = [at |-> "write", op |-> op, loaded |-> workflow,
                                        wanted |-> wanted, number |-> 0]]
  /\ overlapped' = Overlap
  /\ UNCHANGED <<workflow, version, editor, lockedBy>>

Replaced(g, n) == [graph |-> g, name |-> n, revision |-> NextRevision(workflow)]
Changed(g, n)  == g # workflow.graph \/ n # workflow.name

-----------------------------------------------------------------------------
(* Opening the workflow.  An autosave that changes nothing has the same    *)
(* effect, since its graph is the one of the row.                          *)
Open(e) ==
  /\ Free(e)
  /\ editor' = [editor EXCEPT ![e] = workflow]
  /\ UNCHANGED <<workflow, version, request, lockedBy, overlapped>>

\* Mutant: base_revision is not compared.
AnyBase(e, g) == TRUE

\* autosave_workflow: "A stale revision is allowed only when the graph is
\* still identical."
BaseAccepted(e, g) == editor[e].revision = workflow.revision \/ g = workflow.graph

Autosave(e, g, n) ==
  /\ Free(e)
  /\ BaseAccepted(e, g) /\ Changed(g, n)
  /\ Prepare(e, "autosave", Replaced(g, n))

\* PUT /workflows/{id}: no expected_revision is passed.
Update(e, g, n) ==
  /\ Free(e)
  /\ Changed(g, n)
  /\ Prepare(e, "update", Replaced(g, n))

\* apply_workflow_actions: expected_revision is read from the object that
\* update_workflow compares it with.
AssistantEdit(e, g) ==
  /\ Free(e)
  /\ g # workflow.graph
  /\ Prepare(e, "assistant", Replaced(g, workflow.name))

Rename(e, n) ==
  /\ Free(e)
  /\ n # workflow.name
  /\ Prepare(e, "rename", Replaced(workflow.graph, n))

\* Mutant: restoring does not count as a revision.
RestoredInPlace(v) == [workflow EXCEPT !.graph = v.graph]

Restored(v) == [workflow EXCEPT !.graph = v.graph, !.revision = NextRevision(workflow)]

Restore(e, k) ==
  /\ Free(e)
  /\ k \in Versions
  /\ Prepare(e, "restore", Restored(version[k]))

\* Only the columns that differ from the loaded row are written.
Written(loaded, wanted, current) == IF wanted = loaded THEN current ELSE wanted

Commit(e) ==
  LET q == request[e] IN
  /\ q.at = "write"
  /\ RowFree(e)
  /\ workflow' = [f \in DOMAIN workflow |-> Written(q.loaded[f], q.wanted[f], workflow[f])]
  /\ request' = [request EXCEPT ![e].at = "reply"]
  /\ UNCHANGED <<version, editor, lockedBy, overlapped>>

\* db.refresh reads whatever the row is by now.  An editor keeps its own graph
\* when an autosave returns, and takes the whole workflow after a restore;
\* the other replies go to other pages.
Reply(e) ==
  /\ request[e].at = "reply"
  /\ editor' = [editor EXCEPT ![e] =
       CASE request[e].op = "autosave" -> [workflow EXCEPT !.graph = request[e].wanted.graph]
         [] request[e].op = "restore"  -> workflow
         [] OTHER                      -> editor[e]]
  /\ request' = Finished(e)
  /\ UNCHANGED <<workflow, version, lockedBy, overlapped>>

-----------------------------------------------------------------------------
(* Named versions *)

CreateVersion(e) ==
  /\ Free(e)
  /\ request' = [request EXCEPT ![e] = [NoRequest EXCEPT !.at = "lock", !.op = "version",
                                                            !.loaded = workflow]]
  /\ overlapped' = Overlap
  /\ UNCHANGED <<workflow, version, editor, lockedBy>>

\* Mutant: the limit is checked as if the new version were counted.
LimitExceeded == Cardinality(Versions) > VersionLimit

LimitReached == Cardinality(Versions) >= VersionLimit

HighestNumber == CHOOSE k \in 0..MaxNumber : /\ k \in Versions \cup {0}
                                             /\ \A j \in Versions : j <= k

NumberVersion(e) ==
  /\ request[e].at = "lock"
  /\ RowFree(e)
  /\ ~LimitReached
  /\ HighestNumber < MaxNumber
  /\ lockedBy' = e
  /\ request' = [request EXCEPT ![e].at = "insert", ![e].number = HighestNumber + 1]
  /\ UNCHANGED <<workflow, version, editor, overlapped>>

RefuseVersion(e) ==
  /\ request[e].at = "lock"
  /\ RowFree(e)
  /\ LimitReached
  /\ request' = Finished(e)
  /\ UNCHANGED <<workflow, version, editor, lockedBy, overlapped>>

\* The unique (workflow_id, version_number) would reject a number that is
\* taken; NumberIsFree says that it never has to.
InsertVersion(e) ==
  LET q == request[e] IN
  /\ q.at = "insert"
  /\ version' = [version EXCEPT ![q.number] =
                  [graph |-> q.loaded.graph, source_revision |-> q.loaded.revision]]
  /\ lockedBy' = None
  /\ request' = Finished(e)
  /\ UNCHANGED <<workflow, editor, overlapped>>

DeleteVersion(e, k) ==
  /\ Free(e)
  /\ k \in Versions
  /\ version' = [version EXCEPT ![k] = None]
  /\ UNCHANGED <<workflow, editor, request, lockedBy, overlapped>>

-----------------------------------------------------------------------------
Next == \E e \in Editors :
  \/ Open(e) \/ Commit(e) \/ Reply(e)
  \/ CreateVersion(e) \/ NumberVersion(e) \/ RefuseVersion(e) \/ InsertVersion(e)
  \/ \E g \in Graphs, n \in Names : Autosave(e, g, n) \/ Update(e, g, n)
  \/ \E g \in Graphs : AssistantEdit(e, g)
  \/ \E n \in Names : Rename(e, n)
  \/ \E k \in Numbers : Restore(e, k) \/ DeleteVersion(e, k)

Spec == Init /\ [][Next]_vars

-----------------------------------------------------------------------------
(* The types of the tables and of the handlers in flight. *)
TypeOK ==
  /\ workflow \in Row
  /\ version \in [Numbers -> VersionRow \cup {None}]
  /\ editor \in [Editors -> Row]
  /\ request \in [Editors -> RequestState]
  /\ lockedBy \in Editors \cup {None}
  /\ overlapped \in BOOLEAN

\* The number a handler has computed is still free when it inserts, whatever
\* other versions are created, deleted and restored meanwhile, and two
\* handlers never hold one number: no request fails on the unique constraint.
NumberIsFree ==
  \A e \in Editors : request[e].at = "insert" =>
    /\ version[request[e].number] = None
    /\ \A f \in Editors \ {e} : request[f].at = "insert" => request[f].number # request[e].number

\* Requests that count the versions together do not exceed the limit.
WithinVersionLimit == Cardinality(Versions) <= VersionLimit

\* A revision number names one content: versions taken from the same revision
\* are equal, and equal to the draft while it still has that revision.  This
\* is what base_revision relies on; it holds until two requests overlap.
RevisionNamesGraph ==
  ~overlapped => \A k \in Versions :
    /\ version[k].source_revision = workflow.revision => version[k].graph = workflow.graph
    /\ \A j \in Versions : version[j].source_revision = version[k].source_revision
                             => version[j].graph = version[k].graph

\* What holds of the document in every scene.
DocumentHolds == TypeOK /\ NumberIsFree /\ WithinVersionLimit /\ RevisionNamesGraph

AutosaveCommits(e) ==
  request[e].at = "write" /\ request'[e].at = "reply" /\ request[e].op = "autosave"

\* As long as requests are handled one after the other, an autosave that
\* replaces the graph replaces the one its editor has last seen, whatever
\* renames, restores, replacements and other sessions came before.
OverwritesWhatWasSeen ==
  \A e \in Editors : ~overlapped /\ AutosaveCommits(e) /\ workflow'.graph # workflow.graph
    => workflow.graph = editor[e].graph

-----------------------------------------------------------------------------
\* docs/ARTIFACT_CACHE_AND_VERSIONING.md promises the same of all sessions:
\* autosave "reports conflicts instead of overwriting a newer session".  The
\* code does not keep it.
NoStaleOverwrite ==
  [][\A e \in Editors : AutosaveCommits(e) /\ workflow'.graph # workflow.graph
       => workflow.graph = editor[e].graph]_vars
=============================================================================
