------------------------------ MODULE CaseFiles ------------------------------
(* The records of a project's cases (app/domains/cases): PDFs are imported as *)
(* cases, a workflow that a user runs by hand on several PDFs leaves a case   *)
(* for each, and the runs launched for a case give it its status.  A launch   *)
(* binds the saved workflow to one case; the second half is about that graph. *)
(*                                                                            *)
(* A finalizer reads the records and commits later, like every session here   *)
(* (see CaseReview); an import commits file by file.                          *)
EXTENDS WorkflowGraph

CONSTANTS
  Ids,         \* case ids, [word, caps]: ids of one word differ in case only
  Files,       \* contents of PDFs, by checksum
  NodeIds,     \* nodes whose output names cases
  Sessions,    \* requests and workers at work together
  Imports,     \* lists of [id, file] that may be uploaded
  Outputs,     \* lists of [id, file, node, score], what a run by hand may emit
  Statuses,    \* what launches and their runs write into a case
  None,
  MaxRequests  \* bound: imports and runs by hand

VARIABLES
  records,    \* case_records, in the order of their keys
  request,    \* what each session has still to do
  started,    \* requests so far
  overlapped  \* history: two sessions, or a session and a launched run, met

vars == <<records, request, started, overlapped>>

-----------------------------------------------------------------------------
\* by is the run by hand that created the case, or None; code the project_code
\* among its fields; stages what its results say about it, node by node.
CaseRow == [id : Ids, by : Nat \cup {None}, file : Files, code : Ids \cup {None},
            stages : [NodeIds -> Ids \cup {None}], score : Nat \cup {None},
            status : {"new", "processed", "completed"} \cup Statuses]

Idle == [op |-> "none"]
NoStages == [n \in NodeIds |-> None]
Imported(f) == [id |-> f.id, by |-> None, file |-> f.file, code |-> f.id, stages |-> NoStages,
                score |-> None, status |-> "new"]

Init == /\ records = <<>> /\ request = [s \in Sessions |-> Idle]
        /\ started = 0 /\ overlapped = FALSE

Busy == {s \in Sessions : request[s].op # "none"}
Start(s, r) ==
  /\ request[s].op = "none" /\ started < MaxRequests
  /\ request' = [request EXCEPT ![s] = r] /\ started' = started + 1
  /\ overlapped' = (overlapped \/ Busy # {})
End(s) == request' = [request EXCEPT ![s] = Idle]

TakenIn(rows, id) == \E i \in DOMAIN rows : rows[i].id = id

-----------------------------------------------------------------------------
(* Importing: import_cases *)

SameName(id, other) == id.word = other.word

\* Every id is looked up before the first file is stored.
Import(s, list) ==
  /\ \A i, j \in DOMAIN list : SameName(list[i].id, list[j].id) => i = j
  /\ \A i \in DOMAIN list, k \in DOMAIN records : ~SameName(list[i].id, records[k].id)
  /\ Start(s, [op |-> "import", left |-> list])
  /\ UNCHANGED records

ImportFile(s) ==
  /\ request[s].op = "import"
  /\ LET f == Head(request[s].left) IN
     IF TakenIn(records, f.id) THEN End(s) /\ UNCHANGED records
     ELSE /\ records' = Append(records, Imported(f))
          /\ IF Len(request[s].left) = 1 THEN End(s)
             ELSE request' = [request EXCEPT ![s].left = Tail(@)]
  /\ UNCHANGED <<started, overlapped>>

\* An upload is refused, the quota is exceeded, the client goes away.
ImportStops(s) ==
  /\ request[s].op = "import" /\ End(s)
  /\ UNCHANGED <<records, started, overlapped>>

-----------------------------------------------------------------------------
(* A run by hand on several PDFs: sync_case_batch_from_run *)

StatusOf(score) == IF score = None THEN "processed" ELSE "completed"

Scored(row, p) ==
  LET score == IF p.score = None THEN row.score ELSE p.score
  IN [score |-> score, status |-> StatusOf(score)]

StageOf(row, p) == row.id

MergedRow(row, p) ==
  [row EXCEPT !.code = row.id, !.stages[p.node] = StageOf(row, p),
              !.score = Scored(row, p).score, !.status = Scored(row, p).status]

EmittedRow(p) ==
  [id |-> p.id, by |-> started, file |-> p.file, code |-> None,
   stages |-> [NoStages EXCEPT ![p.node] = p.id], score |-> p.score, status |-> StatusOf(p.score)]

OfFile(x) == {i \in DOMAIN records : records[i].file = x}

\* The record an output is for: the one with its id, else one with its file.
\* New rows are not flushed, so that later outputs of the batch miss them.
Matches(p) == LET byId == {i \in DOMAIN records : records[i].id = p.id}
              IN IF byId # {} THEN byId ELSE OfFile(p.file)

Take(w, p, i) == IF i = 0 THEN [w EXCEPT !.added = Append(@, EmittedRow(p))]
                 ELSE [w EXCEPT !.rows[i] = MergedRow(@, p)]

ReadOutputs(s, list) ==
  /\ \A i, j \in DOMAIN list : list[i].id = list[j].id => i = j
  /\ \E found \in [DOMAIN list -> 0..Len(records)] :
       /\ \A i \in DOMAIN list : IF Matches(list[i]) = {} THEN found[i] = 0 ELSE found[i] \in Matches(list[i])
       /\ LET begun == [rows |-> records, added |-> <<>>]
              taken == FoldLeft(LAMBDA w, i : Take(w, list[i], found[i]), begun, [i \in DOMAIN list |-> i])
          IN Start(s, [op |-> "outputs", loaded |-> records, rows |-> taken.rows, added |-> taken.added])
  /\ UNCHANGED records

\* Only the columns that differ from the loaded row are written.
WrittenRow(loaded, wanted, current) ==
  [f \in DOMAIN current |-> IF wanted[f] = loaded[f] THEN current[f] ELSE wanted[f]]

\* A taken id rejects the whole transaction, and the run is done again.
CommitOutputs(s) ==
  LET q == request[s] IN
  /\ q.op = "outputs"
  /\ records' = IF \E i \in DOMAIN q.added : TakenIn(records, q.added[i].id) THEN records
                ELSE [i \in DOMAIN records |-> IF i \in DOMAIN q.rows THEN WrittenRow(q.loaded[i], q.rows[i], records[i])
                                               ELSE records[i]] \o q.added
  /\ End(s)
  /\ UNCHANGED <<started, overlapped>>

-----------------------------------------------------------------------------
(* What launches and the runs of a case write: see CaseReview. *)

LaunchedRun(i) ==
  /\ \E status \in Statuses :
       /\ status # records[i].status
       /\ records' = [records EXCEPT ![i].status = status,
                                     ![i].score = IF status = "completed" THEN 1 ELSE @]
  /\ overlapped' = (overlapped \/ Busy # {})
  /\ UNCHANGED <<request, started>>

Next ==
  \/ \E s \in Sessions :
       \/ \E list \in Imports : Import(s, list)
       \/ \E list \in Outputs : ReadOutputs(s, list)
       \/ ImportFile(s) \/ ImportStops(s) \/ CommitOutputs(s)
  \/ \E i \in DOMAIN records : LaunchedRun(i)

-----------------------------------------------------------------------------
(* The workflow of a launch: prepare_case_graph.  A node is [id, type, form,  *)
(* case], an edge [source, target].                                           *)

Rubric(form) == IF form = None THEN "expert_review" ELSE form

Positions(nodes, P(_)) == {i \in DOMAIN nodes : P(nodes[i])}
Lowest(S) == CHOOSE i \in S : \A j \in S : i <= j
Highest(S) == CHOOSE i \in S : \A j \in S : j <= i

IsIntake(n) == n.type = "RV-001"
IsLoader(n) == n.type = "RV-010"

Bindable(g) == /\ Positions(g.nodes, IsIntake) # {}
               /\ Positions(g.nodes, LAMBDA n : n.type = "RV-009") # {}

Assignment(nodes) == Highest(Positions(nodes, LAMBDA n : n.type = "RV-009"))

Taken(nodes) == {nodes[i].id : i \in DOMAIN nodes}

FreshId(base, nodes) ==
  <<base, CHOOSE k \in 1..(Len(nodes) + 1) : /\ <<base, k>> \notin Taken(nodes)
                                             /\ \A j \in 1..(k - 1) : <<base, j>> \in Taken(nodes)>>

\* The first node that fits, or one that is added.
WithNode(nodes, P(_), type, base, form) ==
  IF Positions(nodes, P) # {} THEN nodes
  ELSE Append(nodes, [id |-> FreshId(base, nodes), type |-> type, form |-> form, case |-> None])

LoaderOf(nodes) == Lowest(Positions(nodes, IsLoader))
ScorerOf(nodes, form) == Lowest(Positions(nodes, LAMBDA n : n.type = "RV-007" /\ Rubric(n.form) = form))

IntakeBound(nodes, case) == [nodes EXCEPT ![Lowest(Positions(nodes, IsIntake))].case = case]

LoaderBound(nodes, case, form) ==
  LET fed == WithNode(nodes, IsLoader, "RV-010", "get", None)
  IN [fed EXCEPT ![LoaderOf(fed)].case = case, ![LoaderOf(fed)].form = form]

ScorerBound(nodes, form) ==
  LET scored == WithNode(nodes, LAMBDA n : n.type = "RV-007" /\ Rubric(n.form) = form, "RV-007", "score", form)
  IN [scored EXCEPT ![ScorerOf(scored, form)].form = form]

Connected(nodes, edges, form) ==
  LET edge == [source |-> nodes[LoaderOf(nodes)].id, target |-> nodes[ScorerOf(nodes, form)].id]
  IN [nodes |-> nodes, edges |-> IF edge \in ToSet(edges) THEN edges ELSE Append(edges, edge),
      assign |-> nodes[Assignment(nodes)].id, loader |-> edge.source, scorer |-> edge.target]

Bound(g, case) ==
  LET form == Rubric(g.nodes[Assignment(g.nodes)].form)
  IN Connected(ScorerBound(LoaderBound(IntakeBound(g.nodes, case), case, form), form), g.edges, form)

-----------------------------------------------------------------------------
TypeOK ==
  /\ \A i \in DOMAIN records : records[i] \in CaseRow
  /\ \A s \in Sessions : request[s].op \in {"none", "import", "outputs"}
  /\ started \in 0..MaxRequests /\ overlapped \in BOOLEAN

\* Imports that do not meet another request leave no two cases whose ids differ
\* in case only, however many were broken off and repeated and whatever runs by
\* hand added before them; no id is ever given twice.
NamesApart ==
  \A i, j \in DOMAIN records : i < j =>
    /\ records[i].id # records[j].id
    /\ records[i].id.word = records[j].id.word => overlapped \/ records[j].by # None

\* What is stored about a case names that case, also where a run by hand found
\* it under another id by its file, and where two of them met.
ResultsNameCase ==
  \A i \in DOMAIN records :
    /\ records[i].code = records[i].id \/ (records[i].code = None /\ records[i].by # None)
    /\ \A n \in NodeIds : records[i].stages[n] \in {None, records[i].id}

\* A file that has a case is not given another one by a later run by hand.
FilesReused ==
  ~overlapped => \A i, j \in DOMAIN records :
    i < j /\ records[j].by # None /\ records[i].file = records[j].file => records[i].by = records[j].by

\* A case that has a score is never shown as processed without one.
ScoreIsShown == ~overlapped => \A i \in DOMAIN records : records[i].status = "processed" => records[i].score = None

CaseFilesHold == TypeOK /\ NamesApart /\ ResultsNameCase /\ FilesReused /\ ScoreIsShown

\* The continuation binds the graph of its intake run once more: nothing of it
\* changes, so that both runs are of one graph.
BindingSettles(g, case) ==
  Bindable(g) =>
    LET bound[n \in 0..2] == IF n = 0 THEN g ELSE Bound(bound[n - 1], case)
    IN bound[2] = bound[1]

\* The scoring branch loads what the assignment asked for, and nodes are told
\* apart by their ids; where the workflow has no such branch, the continuation
\* executes the two nodes that are added and nothing of the intake again.
BranchIsBound(g, case) ==
  Bindable(g) =>
    LET b == Bound(g, case)
        node(id) == b.nodes[CHOOSE i \in DOMAIN b.nodes : b.nodes[i].id = id]
        plan == UpstreamClosure(b.scorer, b.edges)
    IN /\ Cardinality(Taken(b.nodes)) = Len(b.nodes)
       /\ b.loader \in plan /\ node(b.loader).case = case
       /\ {node(b.loader).form, node(b.scorer).form} = {Rubric(node(b.assign).form)}
       /\ {b.loader, b.scorer} \cap Taken(g.nodes) = {} => plan = {b.loader, b.scorer}
=============================================================================
