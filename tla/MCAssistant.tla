------------------------------ MODULE MCAssistant ------------------------------
(* What the assistant and its editors stand on, one scene at a time: a batch  *)
(* of edits, what the owner of a workflow has locked against edits, an old    *)
(* graph that is brought up to date and validated, and a graph the assistant  *)
(* gives advice about.  The scenes share no state; the graphs of the last two *)
(* grow edge by edge.                                                         *)
EXTENDS Integers, Sequences, SequencesExt, FiniteSets, TLC

CONSTANTS None

VARIABLES scene,
          workflow, draft, named, ops, batch,  \* edits
          row, handler, left, raced,           \* locks
          graph                                \* graphs that grow

editVars == <<workflow, draft, named, ops, batch>>
lockVars == <<row, handler, left, raced>>
vars == <<scene, editVars, lockVars, graph>>

-----------------------------------------------------------------------------
Port(id, type, multiple) == [id |-> id, type |-> type, required |-> TRUE, multiple |-> multiple]
Type(inputs, outputs, settings, source) ==
  [inputs |-> inputs, outputs |-> outputs, settings |-> settings, implemented |-> TRUE,
   isSource |-> source]
Table == Port("table", "dataframe", FALSE)
NoSettings == [x \in {} |-> "absent"]

EditCatalog ==
  [src  |-> Type(<<>>, <<Table>>, {}, TRUE),
   step |-> Type(<<Table>>, <<Port("plot", "plot", FALSE), Table>>, {}, FALSE),
   join |-> Type(<<Port("tables", "dataframe", TRUE)>>, <<Table>>, {}, FALSE)]

Labelled(id, type, label) == [id |-> id, type |-> type, params |-> NoSettings, label |-> label]
Edge(s, sh, t, th) == [id |-> <<s, sh, t, th>>, source |-> s, sourceHandle |-> sh,
                       target |-> t, targetHandle |-> th]
MCBases ==
  {[nodes |-> <<Labelled("a", "src", "Node 1"), Labelled("b", "step", "Node 2"), Labelled("c", "join", "Node 3")>>,
    edges |-> <<Edge("a", "table", "b", "table"), Edge("b", "table", "c", "tables")>>],
   [nodes |-> <<Labelled("a", "src", "Node 1"), Labelled("b", "step", "Node 2"), Labelled("c", "step", "Node 3")>>,
    edges |-> <<Edge("a", "", "b", ""), Edge("a", "table", "c", "table")>>]}

Ports(source, target, output, downstream) ==
  [source |-> source, target |-> target, output |-> output, downstream |-> downstream]
MCInsertionHandles ==
  {Ports(None, "", "", None), Ports("plot", "", "", None), Ports("", "table", "table", ""),
   Ports(None, "", "plot", "table")}

Edits == INSTANCE AssistantActions WITH
  saved <- workflow, Catalog <- EditCatalog, Aliases <- NoSettings, Convertible <- {},
  Bases <- MCBases, FreshIds <- <<"x", "y", "z">>, GivenIds <- {"b"}, ClientIds <- {"b"},
  Places <- <<"Node 1", "Node 2", "Node 3", "Node 4">>, Handles <- {"", "plot"},
  InsertionHandles <- MCInsertionHandles, MaxOps <- 3

-----------------------------------------------------------------------------
\* One node and one board that may be locked, one connection of that node.
Items == {[is |-> k, locked |-> lock] : k \in 0..1, lock \in BOOLEAN}
Link(k) == [source |-> "a", target |-> "b", is |-> k]
Plain == [is |-> 0, locked |-> FALSE]
LockGraphs ==
  {[nodes |-> ("a" :> a) @@ ("b" :> Plain), edges |-> e, boards |-> b] :
     a \in Items, e \in {NoSettings} \cup {"e" :> Link(k) : k \in 0..1},
     b \in {NoSettings, "p" :> Plain, "p" :> [Plain EXCEPT !.locked = TRUE]}}
  \cup {[nodes |-> "b" :> Plain, edges |-> NoSettings, boards |-> NoSettings]}

Locks == INSTANCE OwnerLocks WITH Owner <- "owner", Members <- {"m"}, Proposals <- LockGraphs

-----------------------------------------------------------------------------
(* Old graphs *)

Optional(id, type) == [id |-> id, type |-> type, required |-> FALSE, multiple |-> FALSE]
Limit == [name |-> "limit", required |-> TRUE, kind |-> "number", listed |-> FALSE]

OldCatalog ==
  ("RV-001" :> Type(<<Optional("submission", "json")>>, <<Port("case", "case", FALSE)>>, {}, FALSE))
  @@ ("RV-011" :> Type(<<Port("case", "case", FALSE)>>, <<Port("ocr_text", "json", FALSE)>>, {}, FALSE))
  @@ ("RV-003" :> Type(<<Port("ocr_text", "json", FALSE)>>, <<Port("case", "case", FALSE)>>, {}, FALSE))
  @@ ("DI-002" :> Type(<<>>, <<Port("dataframe", "dataframe", FALSE)>>, {}, TRUE))
  @@ ("TR-020" :> Type(<<Port("data", "dataframe", FALSE)>>,
                       <<Port("dataframe", "dataframe", FALSE), Port("report", "json", FALSE)>>,
                       {Limit}, FALSE))
  @@ ("RV-006" :> Type(<<Port("case", "case", FALSE), Port("response", "json", FALSE)>>,
                       <<Port("case", "case", FALSE)>>, {}, FALSE))
  @@ ("MP-001" :> Type(<<Port("data", "dataframe", FALSE)>>, <<Port("split", "any", FALSE)>>, {}, FALSE))

Old == INSTANCE GraphCompatibility WITH
  Catalog <- OldCatalog,
  Aliases <- ("data_demo_wine" :> "DI-002") @@ ("transform_robust_scaler" :> "TR-020"),
  Convertible <- {<<"dataframe", "json">>},
  Demo <- ("data_demo_wine" :> "wine"), Scaler <- ("transform_robust_scaler" :> "robust"),
  SplitHandles <- {"", "train", "test", "dataframe"}

Saved(id, type, files, limit) ==
  [id |-> [of |-> id, ocr |-> 0], type |-> type, original |-> "", method |-> "", dataset |-> "",
   files |-> files, main |-> "", params |-> ("limit" :> limit)]

OldBases ==
  {<<Saved("s", "RV-001", <<"f">>, "absent"), Saved("x", "RV-003", <<"f", "g">>, "absent"),
     Saved("y", "RV-003", <<"h">>, "absent")>>,
   <<Saved("s", "RV-001", <<>>, "absent"), Saved("o", "RV-011", <<>>, "absent"),
     Saved("x", "RV-003", <<"g">>, "absent")>>,
   <<Saved("d", "data_demo_wine", <<>>, "absent"), Saved("t", "transform_robust_scaler", <<>>, "good"),
     Saved("m", "MP-001", <<>>, "absent")>>,
   <<Saved("d", "DI-002", <<>>, "absent"), Saved("t", "TR-020", <<>>, "blank")>>,
   <<Saved("s", "RV-001", <<>>, "absent"), Saved("d", "DI-002", <<>>, "absent"),
     Saved("r", "RV-006", <<>>, "absent")>>}

Outs(node) == {p.id : p \in ToSet(Old!Definition(node).outputs)} \cup {""}
Ins(node)  == {p.id : p \in ToSet(Old!Definition(node).inputs)} \cup {""}
                \cup (IF node.type = "RV-003" THEN {"case"} ELSE {})

OldHandles(node) == Outs(node) \cup (IF node.type = "MP-001" THEN {"train"} ELSE {})

OldEdges(nodes, k) == {[id |-> [of |-> "e", ocr |-> k], source |-> s.id, target |-> t.id,
                        sourceHandle |-> sh, targetHandle |-> th] :
                         s \in ToSet(nodes), t \in ToSet(nodes),
                         sh \in UNION {OldHandles(n) : n \in ToSet(nodes)},
                         th \in UNION {Ins(n) : n \in ToSet(nodes)}}

FitsNode(nodes, e) ==
  \A n \in ToSet(nodes) : /\ n.id = e.source => e.sourceHandle \in OldHandles(n)
                          /\ n.id = e.target => e.targetHandle \in Ins(n)

-----------------------------------------------------------------------------
(* Graphs to advise on *)

Advice == INSTANCE WorkflowAdvice WITH
  Preparing <- {"clean"}, Sourcing <- {"clean", "input"}, Rewinding <- {"target"}

Described(id, type, category, table) ==
  [id |-> id, type |-> type, category |-> category, table |-> table, tidy |-> type = "impute"]
AdviceBases ==
  {<<Described("a", "load", "input", TRUE), Described("b", "impute", "clean", TRUE),
     Described("c", "scale", "clean", TRUE), Described("d", "report", "view", FALSE)>>,
   <<Described("a", "report", "view", FALSE), Described("b", "fit", "model", FALSE),
     Described("c", "plot", "view", TRUE), Described("d", "load", "model", TRUE)>>}

Step(id, types, required) == [id |-> id, types |-> types, required |-> required, condition |-> FALSE]
Patterns == {<<Step("clean", {"impute"}, TRUE), Step("select", {"select"}, TRUE), Step("target", {"plot"}, TRUE),
               Step("fit", {"fit"}, TRUE)>>,
             <<Step("optional", {"other"}, FALSE), Step("unknown", {}, TRUE), Step("fit", {"fit"}, TRUE)>>}

AdviceEdges(nodes) == {[source |-> s.id, target |-> t.id] : s \in ToSet(nodes), t \in ToSet(nodes)}

-----------------------------------------------------------------------------
Empty == [nodes |-> <<>>, edges |-> <<>>]

Init ==
  /\ scene \in {"edits", "locks", "old", "advice"}
  /\ Edits!Init
  /\ IF scene = "locks" THEN Locks!Init ELSE row = None /\ handler = None /\ left = None /\ raced = FALSE
  /\ graph = Empty

Choose(nodes) == graph = Empty /\ graph' = [nodes |-> nodes, edges |-> <<>>]
Draw(e, most) == Len(graph.edges) < most /\ graph' = [graph EXCEPT !.edges = Append(@, e)]

GrowOld ==
  \/ \E nodes \in OldBases : Choose(nodes)
  \/ \E e \in OldEdges(graph.nodes, Len(graph.edges) + 1) : FitsNode(graph.nodes, e) /\ Draw(e, 2)

GrowAdvice ==
  \/ \E nodes \in AdviceBases : Choose(nodes)
  \/ \E e \in AdviceEdges(graph.nodes) : Draw(e, 3)

Next ==
  \/ scene = "edits"  /\ Edits!Next /\ UNCHANGED <<scene, lockVars, graph>>
  \/ scene = "locks"  /\ Locks!Next /\ UNCHANGED <<scene, editVars, graph>>
  \/ scene = "old"    /\ GrowOld    /\ UNCHANGED <<scene, editVars, lockVars>>
  \/ scene = "advice" /\ GrowAdvice /\ UNCHANGED <<scene, editVars, lockVars>>

Spec == Init /\ [][Next]_vars

-----------------------------------------------------------------------------
\* A batch of edits leaves a graph whose edges fit, saves it as a whole or not
\* at all, and names go on meaning the same node (apply_workflow_actions; the
\* parts are stated in AssistantActions).  What the owner locked stays as it
\* was left (enforce_locked_graph_changes; stated in OwnerLocks).
EditsAreSound ==
  /\ Edits!TypeOK
  /\ Edits!DraftStaysSound /\ Edits!SavedIsDraft /\ Edits!NamesHold
  /\ scene = "locks" => Locks!LocksKept

\* Inserting a node into a connection keeps every path (_insert_node).
InsertionKeepsPaths == Edits!InsertionKeepsPaths

\* Bringing an old graph up to date is done once and loses no file, the graph
\* runs as it is shown, a part of a valid graph is valid and every input it
\* needs is fed (normalize_graph, upgrade_editable_graph, build_execution_plan,
\* validate_workflow_graph; the parts are stated in GraphCompatibility).
OldGraphsLive ==
  scene = "old" =>
    /\ Old!NormalizingSettles(graph) /\ Old!UpgradingSettles(graph) /\ Old!UpgradeKeepsFiles(graph)
    /\ Old!RunsAsShown(graph) /\ Old!PlannedPartIsValid(graph) /\ Old!ValidGraphFeeds(graph)

\* The advice is about the graph as it is: depths are longest paths, the node to
\* go on from is an end point of the table, and each step proposed can be done
\* when its turn comes (get_workflow_context, _action_plan; see WorkflowAdvice).
AdviceHolds ==
  scene = "advice" =>
    /\ Advice!DepthIsLongestPath(graph) /\ Advice!PreferredIsEndpoint(graph)
    /\ \A p \in Patterns : Advice!PlanCanBeDone(graph, p)
=============================================================================
