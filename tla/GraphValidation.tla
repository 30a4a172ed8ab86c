--------------------------- MODULE GraphValidation ---------------------------
(* validate_workflow_graph (app/workflow/validation/service.py): what a graph *)
(* must satisfy to be saved as a draft, and to be run.                        *)
(*                                                                            *)
(* A graph has a list of nodes [id, type, params] and a list of edges         *)
(* [id, source, target, sourceHandle, targetHandle]; "" is a handle left out. *)
(* The value of a setting is what the checks tell apart of it.                *)
EXTENDS WorkflowGraph

CONSTANTS
  Catalog,     \* node type -> [inputs, outputs, settings, implemented, isSource]
  Aliases,     \* LEGACY_NODE_ALIASES: old type -> type of the catalog
  Convertible  \* PORT_COMPATIBILITY: pairs of port types

\* Ports are [id, type, required, multiple], settings [name, required, kind, listed].
Values == {"absent", "none", "blank", "good", "mistyped", "unlisted", "dynamic"}

Canonical(type) == IF type \in DOMAIN Aliases THEN Aliases[type] ELSE type
Known(node)     == Canonical(node.type) \in DOMAIN Catalog
Definition(node) == Catalog[Canonical(node.type)]

NodeIds(g)   == ToSet([i \in DOMAIN g.nodes |-> g.nodes[i].id])
NodeOf(g, n) == CHOOSE node \in ToSet(g.nodes) : node.id = n
Repeated(seq) == {seq[i].id : i \in {j \in DOMAIN seq : \E k \in DOMAIN seq \ {j} :
                                        seq[k].id = seq[j].id}}

\* Mutant: the direction of a conversion is ignored.
CompatibleBothWays(a, b) == a = b \/ "any" \in {a, b} \/ <<a, b>> \in Convertible
                              \/ <<b, a>> \in Convertible

Compatible(a, b) == a = b \/ "any" \in {a, b} \/ <<a, b>> \in Convertible

-----------------------------------------------------------------------------
(* Settings: checked in this order, the first two exclude the others *)

\* _setting_type_valid; an empty string is a text but not a number.
TypeValid(setting, value) ==
  value \notin {"mistyped"} /\ ~(value = "blank" /\ setting.kind = "number")

SettingProblem(setting, value) ==
  CASE setting.required /\ value \in {"absent", "none", "blank"} -> {"missing_required_setting"}
    [] OTHER -> (IF TypeValid(setting, value) THEN {} ELSE {"invalid_setting_type"})
                \cup (IF setting.listed /\ value \in {"unlisted", "mistyped"}
                      THEN {"invalid_setting_choice"} ELSE {})

SettingProblems(node) ==
  UNION {SettingProblem(s, node.params[s.name]) : s \in Definition(node).settings}

NodeProblems(node, withSettings) ==
  IF ~Known(node) THEN {"unsupported_node_type"}
  ELSE (IF Definition(node).implemented \/ node.type \in DOMAIN Aliases
        THEN {} ELSE {"node_implementation_unavailable"})
       \cup (IF withSettings THEN SettingProblems(node) ELSE {})

-----------------------------------------------------------------------------
(* Connections *)

PortWith(ports, handle) == {p \in ToSet(ports) : p.id = handle}

\* A handle left out means the first port.
HandleOr(ports, handle) == IF handle = "" /\ ports # <<>> THEN ports[1].id ELSE handle
SourceHandle(g, e) == HandleOr(Definition(NodeOf(g, e.source)).outputs, e.sourceHandle)
TargetHandle(g, e) == HandleOr(Definition(NodeOf(g, e.target)).inputs, e.targetHandle)
SourcePort(g, e) == PortWith(Definition(NodeOf(g, e.source)).outputs, SourceHandle(g, e))
TargetPort(g, e) == PortWith(Definition(NodeOf(g, e.target)).inputs, TargetHandle(g, e))

Dangling(g, e)    == ~EndsIn(e, NodeIds(g))
Examined(g, e)    == ~Dangling(g, e) /\ Known(NodeOf(g, e.source)) /\ Known(NodeOf(g, e.target))
WellPlugged(g, e) == Examined(g, e) /\ SourcePort(g, e) # {} /\ TargetPort(g, e) # {}

\* Mutant: one connection is enough for all the inputs of a node.
PluggedAnywhere(g, n, port) ==
  {i \in DOMAIN g.edges : g.edges[i].target = n /\ WellPlugged(g, g.edges[i])}

\* incoming_by_port: the edges on one input, in list order.
Plugged(g, n, port) ==
  {i \in DOMAIN g.edges : /\ g.edges[i].target = n /\ WellPlugged(g, g.edges[i])
                          /\ TargetHandle(g, g.edges[i]) = port}

Crowded(g, i) == LET e == g.edges[i] IN
  /\ WellPlugged(g, e)
  /\ \A p \in TargetPort(g, e) : ~p.multiple
  /\ \E j \in Plugged(g, e.target, TargetHandle(g, e)) : j < i

Mismatched(g, e) == WellPlugged(g, e) /\
  \A p \in SourcePort(g, e), q \in TargetPort(g, e) : ~Compatible(p.type, q.type)

EdgeProblems(g, i) == LET e == g.edges[i] IN
  (IF Dangling(g, e) THEN {"dangling_edge"} ELSE {})
  \cup (IF Examined(g, e) /\ SourcePort(g, e) = {} THEN {"invalid_output_port"} ELSE {})
  \cup (IF Examined(g, e) /\ SourcePort(g, e) # {} /\ TargetPort(g, e) = {}
        THEN {"invalid_input_port"} ELSE {})
  \cup (IF Crowded(g, i) THEN {"multiple_edges_single_input"} ELSE {})
  \cup (IF Mismatched(g, e) THEN {"incompatible_ports"} ELSE {})

\* Required inputs that nothing feeds; those of a component's own boundary
\* (pairs of node and port) are fed from outside.
Unfed(g, node, boundary) ==
  {p \in ToSet(Definition(node).inputs) : /\ p.required /\ <<node.id, p.id>> \notin boundary
                                          /\ Plugged(g, node.id, p.id) = {}}

Starved(g, node, boundary) ==
  Known(node) /\ ~Definition(node).isSource /\ Unfed(g, node, boundary) # {}

-----------------------------------------------------------------------------
Problems(g, boundary, withSettings, withConnections) ==
  UNION {NodeProblems(n, withSettings) : n \in ToSet(g.nodes)}
  \cup UNION {EdgeProblems(g, i) : i \in DOMAIN g.edges}
  \cup (IF Repeated(g.nodes) = {} THEN {} ELSE {"duplicate_node_id"})
  \cup (IF Repeated(g.edges) = {} THEN {} ELSE {"duplicate_edge_id"})
  \cup (IF withConnections /\ \E n \in ToSet(g.nodes) : Starved(g, n, boundary)
        THEN {"missing_required_input_connection"} ELSE {})
  \cup (IF Sortable([i \in DOMAIN g.nodes |-> g.nodes[i].id], g.edges)
        THEN {} ELSE {"circular_dependency"})

\* _assert_valid_draft: what may be saved; and what create_run accepts.
ValidDraft(g)    == Problems(g, {}, FALSE, FALSE) = {}
ValidRunnable(g) == Problems(g, {}, TRUE, TRUE) = {}

-----------------------------------------------------------------------------
(* What the executor makes of a valid graph *)

\* build_execution_plan: the part of the graph that a run up to n executes.
PlannedPart(g, n) ==
  LET ids == UpstreamClosure(n, g.edges) IN
  [nodes |-> SelectSeq(g.nodes, LAMBDA m : m.id \in ids),
   edges |-> SelectSeq(g.edges, LAMBDA e : EndsIn(e, ids))]

\* upstream_outputs files a value under the handle its edge names; an edge
\* without one is filed under "input", whatever the first port is called.
FiledUnder(e) == IF e.targetHandle = "" THEN "input" ELSE e.targetHandle

Filed(g, n, done) == {FiledUnder(e) : e \in {d \in ToSet(g.edges) : d.target = n /\ d.source \in done}}

\* What can be run as a whole can be run up to any of its nodes: create_run
\* validates the part it is asked for.
PlannedPartIsValid(g) ==
  ValidRunnable(g) => \A n \in NodeIds(g) : ValidRunnable(PlannedPart(g, n))

\* In a valid graph whose edges name their ports, every required input of a
\* node has a value when its turn comes in the order of execution.
ValidGraphFeeds(g) ==
  LET order == Sorted([i \in DOMAIN g.nodes |-> g.nodes[i].id], g.edges) IN
  ValidRunnable(g) /\ (\A e \in ToSet(g.edges) : e.targetHandle # "") =>
    \A i \in DOMAIN order : LET node == NodeOf(g, order[i]) IN
      Definition(node).isSource
      \/ \A p \in ToSet(Definition(node).inputs) :
           p.required => p.id \in Filed(g, order[i], {order[j] : j \in 1..(i - 1)})
=============================================================================
