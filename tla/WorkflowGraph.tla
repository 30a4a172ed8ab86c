--------------------------- MODULE WorkflowGraph ---------------------------
(* The graph algorithms that planning, validation and execution share: the   *)
(* topological sort of graph/operations.py, the upstream closure of the      *)
(* planner, the downstream walks of the scheduler and of run_state.py.       *)
(* An edge is a record with at least source and target; lists of nodes and   *)
(* edges are sequences, because their order decides what the sort returns    *)
(* and in which order a node receives its inputs.                            *)
EXTENDS Naturals, Sequences, SequencesExt, FiniteSets

\* The edges of a list that enter and that leave a node, in list order.
EdgesInto(n, edges) == SelectSeq(edges, LAMBDA e : e.target = n)
EdgesFrom(n, edges) == SelectSeq(edges, LAMBDA e : e.source = n)

\* The items of a list at some of its indices, in list order: SelectSeq in a form
\* that proofs can unfold, as are the functions below.
Picking(s, I) ==
  LET picked[i \in 0..Len(s)] ==
        IF i = 0 THEN <<>>
        ELSE IF i \in I THEN Append(picked[i - 1], s[i]) ELSE picked[i - 1]
  IN picked

Picked(s, I) == Picking(s, I)[Len(s)]

EndsIn(e, nodes) == e.source \in nodes /\ e.target \in nodes

-----------------------------------------------------------------------------
(* topological_sort: Kahn's algorithm with a queue.  Its order and its queue *)
(* are one list, of which the first k nodes have been taken; the count of a  *)
(* node is that of the edges into it that have not been handled.             *)

\* The nodes that no edge enters.
SortStart(ids, edges) ==
  Picked(ids, {i \in DOMAIN ids :
                 /\ \A j \in 1..(i - 1) : ids[j] # ids[i]
                 /\ \A e \in ToSet(edges) : EndsIn(e, ToSet(ids)) => e.target # ids[i]})

\* Handling edge i, when its source follows those of taken, brings the count of
\* its target to zero.
Frees(i, taken, ids, edges) ==
  /\ EndsIn(edges[i], ToSet(ids))
  /\ \A j \in DOMAIN edges :
       EndsIn(edges[j], ToSet(ids)) /\ edges[j].target = edges[i].target
       => edges[j].source \in taken \/ (edges[j].source = edges[i].source /\ j <= i)

\* The k-th node is taken, and its edges are handled in list order.
SortStep(order, k, ids, edges) ==
  IF k \notin DOMAIN order THEN order
  ELSE LET taken == {order[j] : j \in 1..(k - 1)} IN
       order \o Picked([i \in DOMAIN edges |-> edges[i].target],
                       {i \in DOMAIN edges : /\ edges[i].source = order[k]
                                             /\ Frees(i, taken, ids, edges)})

SortStates(ids, edges) ==
  LET after[k \in 0..Len(ids)] ==
        IF k = 0 THEN SortStart(ids, edges) ELSE SortStep(after[k - 1], k, ids, edges)
  IN after

Sorted(ids, edges) == SortStates(ids, edges)[Len(ids)]

\* The sort raises "Workflow contains a circular dependency." otherwise.
Sortable(ids, edges) == Len(Sorted(ids, edges)) = Len(ids)

-----------------------------------------------------------------------------
(* The walks along the edges *)

\* What a walk has found after k rounds, and in the end.
Walk(nodes, steps) ==
  LET found[k \in 0..Cardinality(steps)] ==
        IF k = 0 THEN nodes
        ELSE found[k - 1] \cup {p[2] : p \in {q \in steps : q[1] \in found[k - 1]}}
  IN found

Closure(nodes, steps) == Walk(nodes, steps)[Cardinality(steps)]

SourcesOf(n, edges)     == {e.source : e \in {d \in ToSet(edges) : d.target = n}}
TargetsOf(nodes, edges) == {e.target : e \in {d \in ToSet(edges) : d.source \in nodes}}

\* Mutant: only the direct sources are needed.
DirectSources(n, edges) == {n} \cup SourcesOf(n, edges)

\* The planner's _upstream_closure: the selected node and what it needs.
UpstreamClosure(n, edges) == Closure({n}, {<<e.target, e.source>> : e \in ToSet(edges)})

\* affected_downstream_nodes and _descendants: everything a path leads to.
Downstream(nodes, edges) ==
  Closure(TargetsOf(nodes, edges), {<<e.source, e.target>> : e \in ToSet(edges)})

\* _descendants of run_state.py does not count the seeds themselves.
Descendants(seeds, edges) == Downstream(seeds, edges) \ seeds

\* build_execution_plan: the nodes and edges a run executes, in list order.
\* None selects the whole graph.
PlannedIds(ids, edges, selected, none) ==
  Picked(ids, {i \in DOMAIN ids : selected = none \/ ids[i] \in UpstreamClosure(selected, edges)})

PlannedEdges(ids, edges, selected, none) ==
  LET planned == ToSet(PlannedIds(ids, edges, selected, none))
  IN Picked(edges, {i \in DOMAIN edges : EndsIn(edges[i], planned)})

Plan(ids, edges, selected, none) ==
  Sorted(PlannedIds(ids, edges, selected, none), PlannedEdges(ids, edges, selected, none))

\* upstream_outputs: the values a node receives, in the order of the edge list;
\* an edge whose source has no result contributes nothing.
Received(n, edges, results) ==
  LET into == Picked(edges, {i \in DOMAIN edges : edges[i].target = n /\ edges[i].source \in DOMAIN results})
  IN [i \in DOMAIN into |-> results[into[i].source]]
=============================================================================
