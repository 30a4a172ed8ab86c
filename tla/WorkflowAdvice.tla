--------------------------- MODULE WorkflowAdvice ---------------------------
(* What the assistant is told about a workflow and recommends for it          *)
(* (domains/assistant/workflow_tools.py and workflow_advisor.py): how deep    *)
(* each node lies, which tables a new step should be attached to, and the     *)
(* plan that completes a curated pattern with what is already there.          *)
(*                                                                            *)
(* A node is [id, type, category, table, tidy]: its registry id and category, *)
(* whether it puts out a dataframe, and whether its name is one of a          *)
(* preparation step.  A step is [id, types, required, condition]; types are   *)
(* the catalog nodes its query resolves to.                                   *)
EXTENDS WorkflowGraph, Integers

CONSTANTS
  Preparing,  \* "Data Cleaning", "Transformation", "ML Data Processing"
  Sourcing,   \* those and "Data Input", "Utilities": modeling_source_categories
  Rewinding,  \* steps whose presence does not move the source back
  None

Ids(g) == [i \in DOMAIN g.nodes |-> g.nodes[i].id]
Pick(g, n) == CHOOSE x \in ToSet(g.nodes) : x.id = n

-----------------------------------------------------------------------------
(* graphDepth: a topological sweep that keeps the largest depth seen *)

Start(g) ==
  LET need == [n \in ToSet(Ids(g)) |-> Len(EdgesInto(n, g.edges))] IN
  [need |-> need, depth |-> [n \in ToSet(Ids(g)) |-> 0],
   queue |-> SelectSeq(Ids(g), LAMBDA n : need[n] = 0)]

Larger(a, b) == IF a > b THEN a ELSE b

\* Mutant: a node keeps the depth its first source gives it.
DeepenOnce(s, e) ==
  LET left == Larger(0, s.need[e.target] - 1) IN
  [s EXCEPT !.need[e.target] = left,
            !.depth[e.target] = IF @ = 0 THEN s.depth[e.source] + 1 ELSE @,
            !.queue = IF left = 0 THEN Append(@, e.target) ELSE @]

Deepen(s, e) ==
  LET left == Larger(0, s.need[e.target] - 1) IN
  [s EXCEPT !.need[e.target] = left,
            !.depth[e.target] = Larger(@, s.depth[e.source] + 1),
            !.queue = IF left = 0 THEN Append(@, e.target) ELSE @]

Sweep(g, s) ==
  IF s.queue = <<>> THEN s
  ELSE FoldLeft(Deepen, [s EXCEPT !.queue = Tail(@)], EdgesFrom(Head(s.queue), g.edges))

Depth(g) ==
  LET run[k \in 0..Len(g.nodes)] == IF k = 0 THEN Start(g) ELSE Sweep(g, run[k - 1])
  IN run[Len(g.nodes)].depth

-----------------------------------------------------------------------------
(* preferredDataframeSourceNodeIds *)

Tables(g)  == SelectSeq(g.nodes, LAMBDA n : n.table)
Sources(g) == LET some == SelectSeq(Tables(g), LAMBDA n : n.category \in Sourcing) IN
              IF some = <<>> THEN Tables(g) ELSE some

EndpointOf(g, n, nodes) == \A e \in ToSet(g.edges) : e.source = n.id =>
                             e.target \notin {m.id : m \in ToSet(nodes)}

\* Mutant: ends of the modeling branch get no bonus.
RankWithoutBonus(g, n) ==
  Depth(g)[n.id] * 10 + (IF n.category \in Preparing THEN 40 ELSE 0)
  + (IF n.tidy THEN 25 ELSE 0) + 2 * Len(EdgesInto(n.id, g.edges))

\* attachment_rank
Rank(g, n) ==
  Depth(g)[n.id] * 10 + (IF EndpointOf(g, n, Sources(g)) THEN 100 ELSE 0)
  + (IF n.category \in Preparing THEN 40 ELSE 0)
  + (IF n.tidy THEN 25 ELSE 0) + 2 * Len(EdgesInto(n.id, g.edges))

\* The first of those with the highest rank: sorted is stable.
Preferred(g) ==
  LET s == Sources(g)
      best == {i \in DOMAIN s : \A j \in DOMAIN s : Rank(g, s[i]) >= Rank(g, s[j])} IN
  IF s = <<>> THEN None ELSE s[CHOOSE i \in best : \A j \in best : i <= j].id

-----------------------------------------------------------------------------
(* _action_plan: the steps of the pattern, in order *)

\* _annotate_step_with_workflow
Matches(step, g) == SelectSeq(g.nodes, LAMBDA n : n.type \in step.types)

New(step) == <<"new", step.id>>
Old(n)    == <<"node", n>>

\* Mutant: the new node of a step is the source even when none was found.
PlanStepAnyway(g, p, step) ==
  IF Matches(step, g) # <<>>
  THEN [p EXCEPT !.present = @ \cup {step.id},
                 !.source = IF p.source = None \/ step.id \notin Rewinding
                            THEN Old(Matches(step, g)[1].id) ELSE @]
  ELSE [p EXCEPT !.add = IF step.required /\ step.types # {} THEN Append(@, step.id) ELSE @,
                 !.connect = IF step.required /\ step.types # {} /\ p.source # None
                             THEN Append(@, <<p.source, step.id>>) ELSE @,
                 !.source = New(step)]

PlanStep(g, p, step) ==
  IF Matches(step, g) # <<>>
  THEN [p EXCEPT !.present = @ \cup {step.id},
                 !.source = IF p.source = None \/ step.id \notin Rewinding
                            THEN Old(Matches(step, g)[1].id) ELSE @]
  ELSE IF ~step.required \/ step.types = {} THEN p
  ELSE [p EXCEPT !.add = Append(@, step.id),
                 !.connect = IF p.source = None THEN @ ELSE Append(@, <<p.source, step.id>>),
                 !.source = New(step)]

ActionPlan(g, steps) ==
  FoldLeft(LAMBDA p, step : PlanStep(g, p, step),
           [source |-> IF Preferred(g) = None THEN None ELSE Old(Preferred(g)),
            add |-> <<>>, connect |-> <<>>, present |-> {}], steps)

\* _connection_advice: the step that the preferred source should feed.
AdvisedStep(g, steps, training) ==
  LET missing == SelectSeq(steps, LAMBDA s : s.required /\ Matches(s, g) = <<>>)
      select  == SelectSeq(steps, LAMBDA s : s.id = "select" /\ Matches(s, g) = <<>>) IN
  IF training /\ select # <<>> THEN select[1].id
  ELSE IF missing # <<>> THEN missing[1].id ELSE None

-----------------------------------------------------------------------------
\* "Depth gives the assistant a deterministic notion of "latest"": in a graph
\* without a cycle it is the length of the longest path to the node, whatever
\* the order of nodes and edges.
DepthIsLongestPath(g) ==
  LET ends[k \in 0..Len(g.nodes)] ==   \* where paths of k edges end
        IF k = 0 THEN ToSet(Ids(g))
        ELSE {e.target : e \in {d \in ToSet(g.edges) : d.source \in ends[k - 1]}}
  IN Sortable(Ids(g), g.edges) =>
       \A n \in ToSet(Ids(g)) : /\ n \in ends[Depth(g)[n]]
                                /\ \A k \in (Depth(g)[n] + 1)..Len(g.nodes) : n \notin ends[k]

\* The table a new step is attached to is the end of its branch: nothing that
\* prepares data for modeling comes after it.
PreferredIsEndpoint(g) ==
  Sortable(Ids(g), g.edges) /\ Preferred(g) # None =>
    EndpointOf(g, Pick(g, Preferred(g)), Sources(g))

\* The plan can be carried out in the order given: a connection starts at a
\* node of the workflow or at one added before, every required step for which
\* the catalog has a node is there or added, none of them twice, and the step
\* the connection advice names is one that is missing.
PlanCanBeDone(g, steps) ==
  LET p == ActionPlan(g, steps)
      pos(id) == CHOOSE i \in DOMAIN p.add : p.add[i] = id IN
  /\ \A c \in ToSet(p.connect) : LET from == c[1][2] IN
       IF c[1][1] = "node" THEN from \in ToSet(Ids(g))
       ELSE from \in ToSet(p.add) /\ pos(from) < pos(c[2])
  /\ \A s \in ToSet(steps) : s.required /\ s.types # {} =>
       (s.id \in p.present) # (s.id \in ToSet(p.add))
  /\ \A t \in BOOLEAN : AdvisedStep(g, steps, t) \notin p.present
=============================================================================
