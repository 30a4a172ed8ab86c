-------------------------- MODULE GraphCompatibility --------------------------
(* How saved graphs of older versions are brought up to date                  *)
(* (app/workflow/compatibility/normalizer.py): upgrade_editable_graph before  *)
(* a draft is saved, normalize_graph before a run is planned.                 *)
(*                                                                            *)
(* Beside what GraphValidation reads, a node has the type it was saved with   *)
(* (original, "" if never renamed), the parameter or dataset an old type      *)
(* stood for, the files selected on it and, for RV-001, the proposal.  Node   *)
(* and edge ids are [of, ocr] where ocr > 0 for those the upgrade makes.      *)
EXTENDS GraphValidation, SequencesExt

CONSTANTS
  Demo,         \* DEMO_DATASETS: old type -> dataset
  Scaler,       \* SCALER_METHODS: old type -> method
  SplitHandles  \* the ports MP-001 used to have, and ""

-----------------------------------------------------------------------------
(* normalize_graph *)

Original(node) == IF node.original # "" THEN node.original ELSE node.type

\* Mutant: the type found in the graph is taken for the original one.
NormalizedAnew(node) ==
  [node EXCEPT !.type = Canonical(node.type), !.original = node.type]

NormalizedNode(node) ==
  LET from == Original(node) IN
  [node EXCEPT
     !.type     = Canonical(from),
     !.original = IF from # Canonical(from) THEN from ELSE @,
     !.dataset  = IF from \in DOMAIN Demo THEN Demo[from] ELSE @,
     !.method   = IF from \in DOMAIN Scaler /\ @ = "" THEN Scaler[from] ELSE @]

\* Mutant: the handle is taken away, and the executor passes the whole result.
SplitHandleCleared(nodes, e) ==
  IF \E n \in ToSet(nodes) : n.id = e.source /\ n.type = "MP-001"
  THEN [e EXCEPT !.sourceHandle = "output"] ELSE e

NormalizedEdge(nodes, e) ==
  IF /\ e.sourceHandle \in SplitHandles
     /\ \E n \in ToSet(nodes) : n.id = e.source /\ n.type = "MP-001"
  THEN [e EXCEPT !.sourceHandle = "split"] ELSE e

Normalized(g) ==
  LET nodes == [i \in DOMAIN g.nodes |-> NormalizedNode(g.nodes[i])] IN
  [nodes |-> nodes, edges |-> [i \in DOMAIN g.edges |-> NormalizedEdge(nodes, g.edges[i])]]

-----------------------------------------------------------------------------
(* upgrade_editable_graph: RV-003 used to read the case and the PDF files     *)
(* itself; now RV-011 reads the files and RV-003 what RV-011 found in them.   *)

IsType(g, n, type) == \E node \in ToSet(g.nodes) : node.id = n /\ Canonical(node.type) = type

Incoming(g, x) == {i \in DOMAIN g.edges : g.edges[i].target = x}

\* Mutant: an edge that names no port is not an old one.
NamedLegacyEdges(g, x) == {i \in Incoming(g, x) : g.edges[i].targetHandle = "case"}

LegacyEdges(g, x) == {i \in Incoming(g, x) : g.edges[i].targetHandle \in {"case", ""}}

HasOcr(g, x) == \E i \in Incoming(g, x) : IsType(g, g.edges[i].source, "RV-011")

\* The first free id of the form x-ocr, x-ocr-2, ...
OcrId(g, x) == LET free == {k \in 1..(Len(g.nodes) + 1) : [of |-> x.of, ocr |-> k] \notin NodeIds(g)}
               IN [of |-> x.of, ocr |-> CHOOSE k \in free : \A j \in free : k <= j]

\* An RV-001 that fed the old node keeps its files among its own attachments.
WithAttachments(node, files) ==
  [node EXCEPT !.files = @ \o SelectSeq(files, LAMBDA f : f \notin ToSet(node.files) \cup {node.main})]

\* The new parameters of RV-003 do not contain the selection of files.
Redefined(node, x) == IF node.id = x THEN [node EXCEPT !.files = <<>>] ELSE node

\* Mutant: the new node gets the type of the node it feeds.
OcrNodeOfOldType(x, ocr, files, template) == [template EXCEPT !.id = ocr, !.files = files]

OcrNode(x, ocr, files, template) ==
  [template EXCEPT !.id = ocr, !.type = "RV-011", !.original = "", !.files = files,
                   !.main = "", !.method = "", !.dataset = ""]

UpgradeExtract(g, x) ==
  LET old    == NodeOf(g, x)
      legacy == LegacyEdges(g, x)
      plain  == [g EXCEPT !.nodes = [i \in DOMAIN g.nodes |-> Redefined(g.nodes[i], x)]]
      ocr    == OcrId(g, x)
      feeds(n) == Canonical(n.type) = "RV-001" /\ \E i \in legacy : g.edges[i].source = n.id
      nodes  == [i \in DOMAIN plain.nodes |->
                   IF feeds(plain.nodes[i]) THEN WithAttachments(plain.nodes[i], old.files)
                   ELSE plain.nodes[i]]
      at     == CHOOSE i \in DOMAIN nodes : nodes[i].id = x
      edges  == [i \in DOMAIN g.edges |->
                   IF i \in legacy THEN [g.edges[i] EXCEPT !.target = ocr, !.targetHandle = "case"]
                   ELSE g.edges[i]]
  IN IF HasOcr(g, x) \/ legacy = {} THEN plain
     ELSE [nodes |-> InsertAt(nodes, at, OcrNode(x, ocr, old.files, old)),
           edges |-> Append(edges, [id |-> ocr, source |-> ocr, target |-> x,
                                    sourceHandle |-> "ocr_text", targetHandle |-> "ocr_text"])]

Extracts(g) == SelectSeq([i \in DOMAIN g.nodes |-> g.nodes[i].id], LAMBDA n : IsType(g, n, "RV-003"))

Upgraded(g) == FoldLeft(UpgradeExtract, g, Extracts(g))

-----------------------------------------------------------------------------
\* "a defensive, idempotent canonical representation": a graph that was
\* normalized, stored with a run and normalized again is the same graph.
NormalizingSettles(g) == Normalized(Normalized(g)) = Normalized(g)

\* "The migration is defensive and idempotent": saving a draft again does not
\* grow a second OCR node or move files again.
UpgradingSettles(g) == Upgraded(Upgraded(g)) = Upgraded(g)

\* What may be run may be run after it was normalized: create_run validates
\* the normalized graph, the editor the one it shows.
RunsAsShown(g) == ValidRunnable(g) => ValidRunnable(Normalized(g))

\* The old contract of an RV-003, one edge that carries the case, in a graph
\* that is a valid draft but for these edges.
OldContract(g) ==
  /\ \A x \in ToSet(Extracts(g)) : 
       /\ Cardinality(Incoming(g, x)) = 1
       /\ \A i \in Incoming(g, x) : g.edges[i].targetHandle \in {"case", ""}
  /\ \A e \in ToSet(g.edges) : /\ IsType(g, e.target, "RV-003") => IsType(g, e.source, "RV-001")
                              /\ ~IsType(g, e.source, "RV-003")
  /\ ValidDraft([g EXCEPT !.edges = SelectSeq(@, LAMBDA e : ~IsType(g, e.target, "RV-003"))])

\* An old draft whose extraction nodes are connected becomes one that can be
\* saved, and every file selected on such a node is read by the OCR node that
\* now feeds it.  (Files selected on a node without an edge are dropped.)
UpgradeKeepsFiles(g) ==
  OldContract(g) =>
    /\ ValidDraft(Upgraded(g))
    /\ \A x \in ToSet(Extracts(g)) : \E e \in ToSet(Upgraded(g).edges) :
         /\ e.target = x /\ e.targetHandle = "ocr_text"
         /\ NodeOf(Upgraded(g), e.source).files = NodeOf(g, x).files
=============================================================================
