--------------------------- MODULE AssistantActions ---------------------------
(***************************************************************************)
(* The graph edits of the assistant (domains/assistant/workflow_actions):  *)
(* a batch of operations is applied to a copy of the saved graph, one      *)
(* after the other, and the copy is saved if every operation succeeded and *)
(* the result is a valid draft.                                            *)
(*                                                                         *)
(* An operation names nodes by a name the same batch gave to a new node,   *)
(* by their id, by their place ("Node 2") or by their label, tried in this *)
(* order.  The operators below return the set of graphs an operation may   *)
(* lead to, which is empty when it raises WorkflowActionError.             *)
(***************************************************************************)
EXTENDS GraphValidation

CONSTANTS
  Bases,      \* graphs the workflow may have been saved with
  FreshIds,   \* the id drawn (uuid4) by each operation that adds a node
  GivenIds,   \* ids an operation may ask for instead
  ClientIds,  \* names a batch may give to its new nodes
  Places,     \* "Node 1", "Node 2", ...: what stands for a place, in order
  Handles,    \* ports an operation may name, and "" for none
  InsertionHandles, \* the four ports an insertion may name, one record a choice
  MaxOps,     \* bound: operations of one batch
  None

VARIABLES
  saved,   \* the graph of the workflow
  draft,   \* next_graph
  named,   \* aliases: name -> node id
  ops,     \* operations of the batch so far
  batch    \* "none", "open", or the operation that closed it

actionVars == <<saved, draft, named, ops, batch>>

Empty == [nodes |-> <<>>, edges |-> <<>>]

Init ==
  /\ saved = Empty /\ draft = Empty /\ named = [c \in {} |-> None]
  /\ ops = 0 /\ batch = "none"

-----------------------------------------------------------------------------
(* Names *)

ByLabel(g, raw) == {n \in ToSet(g.nodes) : n.label = raw}

\* Mutant: a node of the graph hides the name the batch has given.
ResolveIdFirst(g, raw) ==
  IF raw \in NodeIds(g) THEN {raw}
  ELSE IF raw \in DOMAIN named THEN {named[raw]} \cap NodeIds(g) ELSE {}

\* _resolve_node_id; the empty set stands for the two errors.
Resolve(g, raw) ==
  LET known == IF raw \in DOMAIN named THEN named[raw] ELSE raw
      place == {k \in DOMAIN Places : Places[k] = raw} IN
  IF known \in NodeIds(g) THEN {known}
  ELSE IF \E k \in place : k <= Len(g.nodes) THEN {g.nodes[k].id : k \in place}
  ELSE IF Cardinality(ByLabel(g, raw)) = 1 THEN {n.id : n \in ByLabel(g, raw)}
  ELSE {}

References == NodeIds(draft) \cup DOMAIN named \cup ToSet(Places)
                \cup {n.label : n \in ToSet(draft.nodes)}

-----------------------------------------------------------------------------
(* Edges *)

\* _resolve_ports: all the ports of a side, or the one the operation names.
PortsFor(ports, handle) == IF handle = "" THEN ports ELSE SelectSeq(ports, LAMBDA p : p.id = handle)

\* _best_port_pair: the first compatible pair, source ports first.
PortPairs(g, s, t, sh, th) ==
  LET outs == PortsFor(Definition(NodeOf(g, s)).outputs, sh)
      ins  == PortsFor(Definition(NodeOf(g, t)).inputs, th)
      fits == {p \in (DOMAIN outs) \X (DOMAIN ins) : Compatible(outs[p[1]].type, ins[p[2]].type)}
      first == {p \in fits : \A q \in fits : p[1] < q[1] \/ (p[1] = q[1] /\ p[2] <= q[2])}
  IN {<<outs[p[1]], ins[p[2]]>> : p \in first}

EdgeId(s, sh, t, th) == <<s, sh, t, th>>

\* Mutant: an input that has a connection is not noticed.
NeverOccupied(g, t, port) == FALSE

Occupied(g, t, port) ==
  ~port.multiple /\ \E e \in ToSet(g.edges) : e.target = t /\ e.targetHandle = port.id

\* _add_edge
Connected(g, s, t, sh, th) ==
  {[g EXCEPT !.edges = Append(@, [id |-> EdgeId(s, p[1].id, t, p[2].id), source |-> s, target |-> t,
                                  sourceHandle |-> p[1].id, targetHandle |-> p[2].id])] :
     p \in {q \in PortPairs(g, s, t, sh, th) :
              /\ EdgeId(s, q[1].id, t, q[2].id) \notin {e.id : e \in ToSet(g.edges)}
              /\ ~Occupied(g, t, q[2])}}

Without(g, dropped(_)) == [g EXCEPT !.edges = SelectSeq(@, LAMBDA e : ~dropped(e))]

-----------------------------------------------------------------------------
(* Operations *)

\* A new node has a type and may have an id and a name given to it.
NewNodes == [type : DOMAIN Catalog, id : GivenIds \cup {None}, client : ClientIds \cup {None}]

NewId(new) == IF new.id = None THEN FreshIds[ops + 1] ELSE new.id

\* _make_node: a node without a label is called by the place it gets; to give
\* it one is what UpdateNode does.
Added(g, new) ==
  [g EXCEPT !.nodes = Append(@, [id |-> NewId(new), type |-> new.type, params |-> "default",
                                 label |-> Places[Len(g.nodes) + 1]])]

CanAdd(g, new) == /\ Canonical(new.type) \in DOMAIN Catalog /\ Catalog[Canonical(new.type)].implemented
                  /\ NewId(new) \notin NodeIds(g)
                  /\ Len(g.nodes) < Len(Places)

NamedAs(new) ==
  IF new.client = None THEN named
  ELSE [c \in DOMAIN named \cup {new.client} |-> IF c = new.client THEN NewId(new) ELSE named[c]]

\* A port an insertion does not name is that of the edge it takes apart, if any.
Taken(handle, edge, ofEdge) ==
  IF handle # None THEN handle ELSE IF edge = None THEN "" ELSE ofEdge

\* Mutant: the connection that is taken apart is not replaced.
InsertedBeside(g, new, after, edge, h) ==
  LET grown == Added(g, new)
      cut   == IF edge = None THEN grown ELSE Without(grown, LAMBDA e : e = edge) IN
  Connected(cut, after, NewId(new), Taken(h.source, edge, edge.sourceHandle), h.target)

\* The new node, fed by `after`, and in front of what the edge led to.
Inserted(g, new, after, edge, h) ==
  LET grown == Added(g, new)
      cut   == IF edge = None THEN grown ELSE Without(grown, LAMBDA e : e = edge)
      fed   == Connected(cut, after, NewId(new), Taken(h.source, edge, edge.sourceHandle), h.target) IN
  IF edge = None THEN fed
  ELSE UNION {Connected(f, NewId(new), edge.target, h.output,
                        Taken(h.downstream, edge, edge.targetHandle)) : f \in fed}

\* The edge an insertion takes apart: the only one there is, or the only one
\* to the node named as `before`.
SplitEdges(g, after, before) ==
  LET out == {e \in ToSet(g.edges) : e.source = after /\ (before = None \/ e.target = before)} IN
  IF out = {} /\ before = None THEN {None}
  ELSE IF Cardinality(out) = 1 THEN out ELSE {}

Removed(g, n) ==
  [nodes |-> SelectSeq(g.nodes, LAMBDA x : x.id # n),
   edges |-> SelectSeq(g.edges, LAMBDA e : n \notin {e.source, e.target})]

Relabelled(g, n, label) ==
  [g EXCEPT !.nodes = [i \in DOMAIN @ |-> IF @[i].id = n THEN [@[i] EXCEPT !.label = label] ELSE @[i]]]

-----------------------------------------------------------------------------
(* A batch *)

Begin(g) ==
  /\ batch = "none"
  /\ saved' = g /\ draft' = g /\ batch' = "open"
  /\ UNCHANGED <<named, ops>>

Step == batch = "open" /\ ops < MaxOps /\ ops' = ops + 1 /\ UNCHANGED <<saved, batch>>

AddNode(new) ==
  /\ Step
  /\ CanAdd(draft, new)
  /\ draft' = Added(draft, new)
  /\ named' = NamedAs(new)

InsertNode(new, after, before) ==
  /\ Step
  /\ CanAdd(draft, new)
  /\ \E a \in Resolve(draft, after), b \in IF before = None THEN {None} ELSE Resolve(draft, before) :
       \E edge \in SplitEdges(draft, a, b), h \in InsertionHandles :
         draft' \in Inserted(draft, new, a, edge, h)
  /\ named' = NamedAs(new)

UpdateNode(ref, label) ==
  /\ Step
  /\ \E n \in Resolve(draft, ref) : draft' = Relabelled(draft, n, label)
  /\ UNCHANGED named

RemoveNode(ref) ==
  /\ Step
  /\ \E n \in Resolve(draft, ref) : draft' = Removed(draft, n)
  /\ UNCHANGED named

Connect(from, to, sh, th) ==
  /\ Step
  /\ \E s \in Resolve(draft, from), t \in Resolve(draft, to) : draft' \in Connected(draft, s, t, sh, th)
  /\ UNCHANGED named

Disconnect(from, to) ==
  /\ Step
  /\ \E s \in Resolve(draft, from), t \in Resolve(draft, to) :
       /\ \E e \in ToSet(draft.edges) : e.source = s /\ e.target = t
       /\ draft' = Without(draft, LAMBDA e : e.source = s /\ e.target = t)
  /\ UNCHANGED named

DisconnectEdge(e) ==
  /\ Step
  /\ draft' = Without(draft, LAMBDA d : d = e)
  /\ UNCHANGED named

\* Mutant: the result is saved as it is.
AcceptsAll(g) == TRUE

Accepts(g) == ValidDraft(g)

Save ==
  /\ batch = "open" /\ ops > 0
  /\ Accepts(draft)
  /\ saved' = draft /\ batch' = "saved"
  /\ UNCHANGED <<draft, named, ops>>

\* An operation raised an error, or the draft is not valid.
Refuse ==
  /\ batch = "open" /\ ops > 0
  /\ batch' = "refused"
  /\ UNCHANGED <<saved, draft, named, ops>>

Next ==
  \/ \E g \in Bases : Begin(g)
  \/ \E new \in NewNodes : AddNode(new)
  \/ \E ref \in References :
       \/ RemoveNode(ref)
       \/ \E label \in ToSet(Places) : UpdateNode(ref, label)
       \/ \E new \in NewNodes, before \in References \cup {None} : InsertNode(new, ref, before)
       \/ \E to \in References : \/ Disconnect(ref, to)
                                 \/ \E sh, th \in Handles : Connect(ref, to, sh, th)
  \/ \E e \in ToSet(draft.edges) : DisconnectEdge(e)
  \/ Save \/ Refuse

-----------------------------------------------------------------------------
(* A draft is a graph over the catalog; a batch has no more operations than   *)
(* the bound.                                                                 *)
TypeOK ==
  /\ \A g \in {saved, draft} : /\ \A n \in ToSet(g.nodes) : Known(n)
                               /\ \A e \in ToSet(g.edges) : e.id \in Seq(STRING)
  /\ \A c \in DOMAIN named : c \in ClientIds /\ named[c] \in ToSet(FreshIds) \cup GivenIds
  /\ ops \in 0..MaxOps
  /\ batch \in {"none", "open", "saved", "refused"}

\* Excused: a saved edge may name no input, which the validation reads as the
\* first one and _add_edge as none, so that one more edge can be connected to
\* that input; the validation then refuses the batch.
NamedTwice(g, i) == LET e == g.edges[i] IN
  Cardinality({j \in Plugged(g, e.target, TargetHandle(g, e)) : g.edges[j].targetHandle # ""}) > 1

\* Whatever operations a batch holds, in whatever order, the draft has no
\* connection to a missing node or port, no repeated id, and no input that more
\* edges name than it takes: all the validation can find is a cycle, and an
\* input that was saved with an edge that does not name it.
DraftStaysSound ==
  batch # "none" =>
    /\ Problems(draft, {}, FALSE, FALSE) \subseteq {"circular_dependency", "multiple_edges_single_input"}
    /\ \A i \in DOMAIN draft.edges : Crowded(draft, i) => ~NamedTwice(draft, i)

\* What the assistant saves is a valid draft.
SavedIsDraft == batch # "none" => ValidDraft(saved)

\* A name given to a new node means the node of the id this node got for as long
\* as the draft has one, whatever is added, removed or renamed after it, under
\* whatever id, name or label.
NamesHold == \A c \in DOMAIN named : named[c] \in NodeIds(draft) => Resolve(draft, c) = {named[c]}

Reaches(g, a, b) == b \in Downstream({a}, g.edges)
Inserting == Len(draft'.nodes) > Len(draft.nodes) /\ draft'.edges # draft.edges

\* A node inserted into a connection takes it apart without separating what it
\* connected: every node still reaches the nodes it reached before.
InsertionKeepsPaths ==
  [][Inserting => \A a, b \in NodeIds(draft) : Reaches(draft, a, b) => Reaches(draft', a, b)]_actionVars
=============================================================================
