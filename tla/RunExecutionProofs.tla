------------------------- MODULE RunExecutionProofs -------------------------
(***************************************************************************)
(* What the graph algorithms return for every list of nodes and edges:     *)
(* topological_sort lists sources before targets and leaves nothing out    *)
(* unless it raises, and the walks return the least set that the edges do  *)
(* not leave.  Each recursive function is first shown to satisfy its       *)
(* equation; its properties then follow by Climb, induction over a set of  *)
(* numbers.  What lists and walks have in common with the continuations of *)
(* answers is proved in SubmissionWatchProofs.                             *)
(*                                                                         *)
(* What the runs of a workflow show is coherent for every list of nodes,   *)
(* every set of graphs that may be submitted and any number of runs.  The  *)
(* results of a child are built up along its plan (FoldSound), the results *)
(* of a partial run are laid over older ones (MergedView), and XInv says   *)
(* what manifests, records and rows may rely on in between.                *)
(***************************************************************************)
EXTENDS RunExecution, FiniteSetTheorems, WellFoundedInduction, TLAPS

-----------------------------------------------------------------------------
(* Lists and walks, as SubmissionWatchProofs has them *)

\* Nothing of what is cited from it depends on its parameters.
Walks == INSTANCE SubmissionWatchProofs WITH
  Pairs <- <<>>, Versions <- {}, SourceRuns <- {}, Workers <- {}, Flow <- <<>>, GetNode <- None,
  Limit <- 1, MaxIds <- 0, source <- None, tasks <- None, watch <- None, answered <- None,
  answering <- None, ids <- None, queued <- None, reminded <- None, worker <- None, late <- None

\* The items picked are those at the indices, each once.
LEMMA PickedItems ==
  ASSUME NEW X, NEW s \in Seq(X), NEW I \in SUBSET DOMAIN s
  PROVE  /\ Picked(s, I) \in Seq(X)
         /\ ToSet(Picked(s, I)) = {s[i] : i \in I}
         /\ (\A i, j \in I : s[i] = s[j] => i = j) => IsInjective(Picked(s, I))
<1>1. Walks!Picked(s, I) = Picked(s, I)
  BY DEF Walks!Picked, Picked, Walks!Picking, Picking
<1>2. \A p : Walks!ToSet(p) = ToSet(p) /\ (Walks!IsInjective(p) <=> IsInjective(p))
  BY DEF Walks!ToSet, ToSet, Walks!IsInjective, IsInjective
<1> QED BY <1>1, <1>2, Walks!PickedItems

\* Two lists one after the other.
LEMMA Concatenated ==
  ASSUME NEW X, NEW s \in Seq(X), NEW t \in Seq(X)
  PROVE  /\ s \o t \in Seq(X) /\ DOMAIN s \subseteq DOMAIN (s \o t) /\ DOMAIN (s \o t) \subseteq Nat
         /\ ToSet(s \o t) = ToSet(s) \cup ToSet(t)
         /\ \A i \in DOMAIN s : (s \o t)[i] = s[i]
         /\ \A i \in DOMAIN (s \o t) \ DOMAIN s : /\ (s \o t)[i] \in ToSet(t)
                                                  /\ \A j \in DOMAIN s : j < i
         /\ IsInjective(s) /\ IsInjective(t) /\ ToSet(s) \cap ToSet(t) = {} => IsInjective(s \o t)
<1>1. \A p : Walks!ToSet(p) = ToSet(p) /\ (Walks!IsInjective(p) <=> IsInjective(p))
  BY DEF Walks!ToSet, ToSet, Walks!IsInjective, IsInjective
<1> QED BY <1>1, Walks!Concatenated

\* The operators of the instance are those of this module.
LEMMA SameWalks ==
  /\ \A s : Walks!ToSet(s) = ToSet(s)
  /\ \A nodes, edges : Walks!Downstream(nodes, edges) = Downstream(nodes, edges)
  /\ \A n, edges : Walks!UpstreamClosure(n, edges) = UpstreamClosure(n, edges)
<1>1. \A S : Walks!Cardinality(S) = Cardinality(S)
  BY DEF Walks!Cardinality, Cardinality
<1>2. \A S, T : Walks!Closure(S, T) = Closure(S, T)
  BY <1>1 DEF Walks!Walk, Walk, Walks!Closure, Closure
<1>3. \A s : Walks!ToSet(s) = ToSet(s)
  BY DEF Walks!ToSet, ToSet
<1>4. \A nodes, edges : Walks!TargetsOf(nodes, edges) = TargetsOf(nodes, edges)
  BY <1>3 DEF Walks!TargetsOf, TargetsOf
<1> QED BY <1>2, <1>3, <1>4 DEF Walks!Downstream, Downstream, Walks!UpstreamClosure, UpstreamClosure

\* _upstream_closure: the selected node, every source of a member, and nothing
\* that is not needed.
LEMMA UpstreamIsLeast ==
  ASSUME NEW E, NEW edges \in Seq(E), NEW n
  PROVE  /\ n \in UpstreamClosure(n, edges)
         /\ \A e \in ToSet(edges) : e.target \in UpstreamClosure(n, edges)
                                      => e.source \in UpstreamClosure(n, edges)
         /\ \A S : n \in S /\ (\A e \in ToSet(edges) : e.target \in S => e.source \in S)
                   => UpstreamClosure(n, edges) \subseteq S
BY SameWalks, Walks!UpstreamIsLeast

\* affected_downstream_nodes: the targets of the nodes and of what follows
\* them, and nothing else.
LEMMA DownstreamIsLeast ==
  ASSUME NEW E, NEW edges \in Seq(E), NEW nodes
  PROVE  /\ \A e \in ToSet(edges) : e.source \in nodes \cup Downstream(nodes, edges)
                                      => e.target \in Downstream(nodes, edges)
         /\ \A S : (\A e \in ToSet(edges) : e.source \in nodes \cup S => e.target \in S)
                   => Downstream(nodes, edges) \subseteq S
BY SameWalks, Walks!DownstreamIsLeast

-----------------------------------------------------------------------------
(* The topological sort *)

\* The states of the sort satisfy their equation.
LEMMA SortUnfolds ==
  ASSUME NEW X, NEW ids \in Seq(X), NEW edges
  PROVE  /\ SortStates(ids, edges)[0] = SortStart(ids, edges)
         /\ \A k \in 1..Len(ids) :
              SortStates(ids, edges)[k] = SortStep(SortStates(ids, edges)[k - 1], k, ids, edges)
<1> DEFINE H(v, k) == SortStep(v, k, ids, edges)
           F(f, m) == f = [k \in 0..m |-> IF k = 0 THEN SortStart(ids, edges) ELSE H(f[k - 1], k)]
           P == {m \in 0..Len(ids) : \E f : F(f, m)}
<1> HIDE DEF H
<1>1. F([k \in 0..0 |-> SortStart(ids, edges)], 0)
  OBVIOUS
<1>2. ASSUME NEW k \in 0..(Len(ids) - 1), NEW f, F(f, k)
      PROVE  F([i \in 0..(k + 1) |-> IF i = k + 1 THEN H(f[k], k + 1) ELSE f[i]], k + 1)
  BY <1>2
<1>3. (\E f : F(f, 0)) /\ \A k \in 0..(Len(ids) - 1) : (\E f : F(f, k)) => (\E f : F(f, k + 1))
  <2> HIDE DEF F
  <2> QED BY <1>1, <1>2, Zenon
<1>4. Len(ids) \in P
  <2>1. 0 \in P
    <3> HIDE DEF F
    <3> QED BY <1>3
  <2>2. ASSUME NEW k \in 0..(Len(ids) - 1), k \in P
        PROVE  k + 1 \in P
    <3>1. k + 1 \in 0..Len(ids)
      OBVIOUS
    <3> HIDE DEF F
    <3> QED BY <1>3, <2>2, <3>1
  <2> HIDE DEF P
  <2>3. 0..Len(ids) \subseteq P
    BY <2>1, <2>2, Walks!Climb
  <2> QED BY <2>3
<1>5. \E f : F(f, Len(ids))
  BY <1>4
<1>6. F(SortStates(ids, edges), Len(ids))
  BY <1>5 DEF SortStates, H
<1>7. /\ SortStates(ids, edges)[0] = SortStart(ids, edges)
      /\ \A k \in 1..Len(ids) : SortStates(ids, edges)[k] = H(SortStates(ids, edges)[k - 1], k)
  BY <1>6
<1> QED BY <1>7 DEF H

\* A list of items of a set.
LEMMA Retyped ==
  ASSUME NEW X, NEW Y, NEW s \in Seq(X), \A j \in DOMAIN s : s[j] \in Y
  PROVE  s \in Seq(Y)
<1>1. Len(s) \in Nat /\ s = [j \in 1..Len(s) |-> s[j]]
  OBVIOUS
<1>2. s \in [1..Len(s) -> Y]
  BY <1>1
<1> QED BY <1>1, <1>2

\* An edge that the sort counts.
Inner(e, ids) == EndsIn(e, ToSet(ids))

\* The first k nodes of a list.
Past(order, k) == {order[j] : j \in {i \in DOMAIN order : i <= k}}

\* What the sort knows when it has taken k nodes: the nodes of its order are
\* nodes, each once; the source of every edge into one of them comes before it
\* and has been taken; a node whose sources all have been taken is in the order.
SortSound(order, k, ids, edges) ==
  /\ order \in Seq(ToSet(ids)) /\ IsInjective(order)
  /\ \A p \in DOMAIN order : \A e \in ToSet(edges) : Inner(e, ids) /\ e.target = order[p] =>
       \E q \in DOMAIN order : q < p /\ q <= k /\ order[q] = e.source
  /\ \A n \in ToSet(ids) :
       (\A e \in ToSet(edges) : Inner(e, ids) /\ e.target = n => e.source \in Past(order, k))
       => n \in ToSet(order)

\* Before a node is taken.
LEMMA SortStartSound ==
  ASSUME NEW X, NEW ids \in Seq(X), NEW E, NEW edges \in Seq(E)
  PROVE  SortSound(SortStart(ids, edges), 0, ids, edges)
<1> DEFINE I == {i \in DOMAIN ids :
                   /\ \A j \in 1..(i - 1) : ids[j] # ids[i]
                   /\ \A e \in ToSet(edges) : EndsIn(e, ToSet(ids)) => e.target # ids[i]}
           order == SortStart(ids, edges)
<1>1. order = Picked(ids, I)
  BY DEF SortStart
<1>2. ids \in Seq(ToSet(ids)) /\ I \in SUBSET DOMAIN ids
  BY DEF ToSet
<1>3. \A i, j \in I : ids[i] = ids[j] => i = j
  OBVIOUS
<1>4. order \in Seq(ToSet(ids)) /\ ToSet(order) = {ids[i] : i \in I} /\ IsInjective(order)
  <2> HIDE DEF I
  <2> QED BY <1>1, <1>2, <1>3, PickedItems
<1>5. \A p \in DOMAIN order : \A e \in ToSet(edges) : Inner(e, ids) => e.target # order[p]
  <2>1. \A i \in I : \A e \in ToSet(edges) : Inner(e, ids) => e.target # ids[i]
    BY DEF Inner
  <2>2. \A p \in DOMAIN order : order[p] \in ToSet(order)
    BY DEF ToSet
  <2> HIDE DEF I, order
  <2> QED BY <1>4, <2>1, <2>2
<1>6. ASSUME NEW n \in ToSet(ids),
             \A e \in ToSet(edges) : Inner(e, ids) /\ e.target = n => e.source \in Past(order, 0)
      PROVE  n \in ToSet(order)
  <2>1. Past(order, 0) = {}
    BY <1>4 DEF Past
  <2>2. PICK i \in {j \in DOMAIN ids : ids[j] = n} : \A j \in {j \in DOMAIN ids : ids[j] = n} : i <= j
    <3>1. {j \in DOMAIN ids : ids[j] = n} \in SUBSET Nat /\ {j \in DOMAIN ids : ids[j] = n} # {}
      BY DEF ToSet
    <3> QED BY <3>1, Walks!Least
  <2>3. i \in I
    BY <1>6, <2>1, <2>2 DEF Inner
  <2> QED BY <1>4, <2>2, <2>3
<1> HIDE DEF I, order
<1>7. SortSound(order, 0, ids, edges)
  BY <1>4, <1>5, <1>6 DEF SortSound
<1> QED BY <1>7 DEF order

\* Taking a node.
LEMMA SortStepSound ==
  ASSUME NEW X, NEW ids \in Seq(X), NEW E, NEW edges \in Seq(E), NEW k \in Nat, NEW order,
         SortSound(order, k, ids, edges)
  PROVE  SortSound(SortStep(order, k + 1, ids, edges), k + 1, ids, edges)
<1>1. /\ order \in Seq(ToSet(ids)) /\ IsInjective(order)
      /\ DOMAIN order = 1..Len(order) /\ Len(order) \in Nat
      /\ \A p \in DOMAIN order : \A e \in ToSet(edges) : Inner(e, ids) /\ e.target = order[p] =>
           \E q \in DOMAIN order : q < p /\ q <= k /\ order[q] = e.source
      /\ \A n \in ToSet(ids) :
           (\A e \in ToSet(edges) : Inner(e, ids) /\ e.target = n => e.source \in Past(order, k))
           => n \in ToSet(order)
  BY DEF SortSound
<1>2. CASE k + 1 \notin DOMAIN order
  <2>1. Past(order, k + 1) = Past(order, k)
    BY <1>1, <1>2 DEF Past
  <2>2. \A q \in DOMAIN order : q <= k => q <= k + 1
    BY <1>1
  <2>3. SortStep(order, k + 1, ids, edges) = order
    BY <1>2 DEF SortStep
  <2> QED BY <1>1, <2>1, <2>2, <2>3 DEF SortSound
<1>3. CASE k + 1 \in DOMAIN order
  <2> DEFINE taken == Past(order, k)
             n == order[k + 1]
             targets == [i \in DOMAIN edges |-> edges[i].target]
             I == {i \in DOMAIN edges : edges[i].source = n /\ Frees(i, taken, ids, edges)}
             new == Picked(targets, I)
             longer == order \o new
  <2>1. SortStep(order, k + 1, ids, edges) = longer
    <3>1. {order[j] : j \in 1..((k + 1) - 1)} = taken
      BY <1>1, <1>3 DEF Past
    <3> QED BY <1>3, <3>1 DEF SortStep
  <2>2. /\ DOMAIN edges = 1..Len(edges) /\ Len(edges) \in Nat
        /\ \A i \in DOMAIN edges : edges[i] \in ToSet(edges) /\ (Inner(edges[i], ids) <=> EndsIn(edges[i], ToSet(ids)))
        /\ \A e \in ToSet(edges) : \E i \in DOMAIN edges : e = edges[i]
    BY DEF ToSet, Inner
  <2>3. n \notin taken
    BY <1>1, <1>3 DEF Past, IsInjective
  <2>4. \A i \in I : /\ i \in DOMAIN edges /\ edges[i].source = n
                     /\ Inner(edges[i], ids) /\ edges[i].target \in ToSet(ids)
                     /\ \A j \in DOMAIN edges : Inner(edges[j], ids) /\ edges[j].target = edges[i].target
                          => edges[j].source \in taken \/ (edges[j].source = n /\ j <= i)
    BY <2>2 DEF Frees, EndsIn
  <2>5. ASSUME NEW i \in DOMAIN edges, edges[i].source = n, Inner(edges[i], ids),
               \A j \in DOMAIN edges : Inner(edges[j], ids) /\ edges[j].target = edges[i].target
                 => edges[j].source \in taken \/ (edges[j].source = n /\ j <= i)
        PROVE  i \in I
    BY <2>2, <2>5 DEF Frees
  <2> HIDE DEF I, taken, n
  <2>6. \A i, j \in I : targets[i] = targets[j] => i = j
    BY <2>2, <2>3, <2>4
  <2>7. new \in Seq(ToSet(ids)) /\ ToSet(new) = {edges[i].target : i \in I} /\ IsInjective(new)
    <3>1. /\ targets \in Seq({edges[i].target : i \in DOMAIN edges})
          /\ I \in SUBSET DOMAIN targets /\ \A i \in I : targets[i] = edges[i].target
      BY <2>2, <2>4
    <3> HIDE DEF targets
    <3>2. /\ new \in Seq({edges[i].target : i \in DOMAIN edges}) /\ ToSet(new) = {targets[i] : i \in I}
          /\ IsInjective(new)
      BY <2>6, <3>1, PickedItems
    <3>3. ToSet(new) = {edges[i].target : i \in I}
      BY <3>1, <3>2
    <3>4. \A j \in DOMAIN new : new[j] \in ToSet(ids)
      BY <2>4, <3>3 DEF ToSet
    <3> HIDE DEF new
    <3>5. new \in Seq(ToSet(ids))
      BY <3>2, <3>4, Retyped
    <3> QED BY <3>2, <3>3, <3>5
  <2> HIDE DEF new
  <2>8. ToSet(order) \cap ToSet(new) = {}
    <3> SUFFICES ASSUME NEW p \in DOMAIN order, NEW i \in I, order[p] = edges[i].target PROVE FALSE
      BY <2>7 DEF ToSet
    <3>1. PICK q \in DOMAIN order : q <= k /\ order[q] = n
      BY <1>1, <2>2, <2>4
    <3> QED BY <2>3, <3>1 DEF taken, Past
  <2>9. /\ longer \in Seq(ToSet(ids)) /\ DOMAIN order \subseteq DOMAIN longer
        /\ DOMAIN longer \subseteq Nat
        /\ \A i \in DOMAIN order : longer[i] = order[i]
        /\ \A i \in DOMAIN longer \ DOMAIN order : longer[i] \in ToSet(new) /\ \A j \in DOMAIN order : j < i
        /\ IsInjective(longer) /\ ToSet(longer) = ToSet(order) \cup ToSet(new)
    BY <1>1, <2>7, <2>8, Concatenated
  <2> HIDE DEF longer
  <2>10. ASSUME NEW p \in DOMAIN longer, NEW e \in ToSet(edges), Inner(e, ids), e.target = longer[p]
         PROVE  \E q \in DOMAIN longer : q < p /\ q <= k + 1 /\ longer[q] = e.source
    <3>1. CASE p \in DOMAIN order
      <4>1. PICK q \in DOMAIN order : q < p /\ q <= k /\ order[q] = e.source
        BY <1>1, <2>9, <2>10, <3>1
      <4> QED BY <1>1, <2>9, <4>1
    <3>2. CASE p \notin DOMAIN order
      <4>1. PICK i \in I : e.target = edges[i].target
        BY <2>7, <2>9, <2>10, <3>2
      <4>2. e.source \in taken \/ e.source = n
        BY <2>2, <2>4, <2>10, <4>1
      <4>3. PICK q \in DOMAIN order : q <= k + 1 /\ order[q] = e.source
        BY <1>1, <1>3, <4>2 DEF taken, n, Past
      <4> QED BY <2>9, <3>2, <4>3
    <3> QED BY <3>1, <3>2
  <2>11. ASSUME NEW m \in ToSet(ids),
                \A e \in ToSet(edges) : Inner(e, ids) /\ e.target = m => e.source \in Past(longer, k + 1)
         PROVE  m \in ToSet(longer)
    <3>1. \A x \in Past(longer, k + 1) : x \in taken \/ x = n
      BY <1>1, <1>3, <2>9 DEF Past, taken, n
    <3> DEFINE J == {j \in DOMAIN edges : Inner(edges[j], ids) /\ edges[j].target = m /\ edges[j].source = n}
    <3>2. CASE J = {}
      <4>1. \A e \in ToSet(edges) : Inner(e, ids) /\ e.target = m => e.source \in taken
        BY <2>2, <2>11, <3>1, <3>2
      <4> QED BY <1>1, <2>9, <4>1 DEF taken
    <3>3. CASE J # {}
      <4>1. PICK i \in J : \A j \in J : j <= i
        <5>1. J \in SUBSET (0..Len(edges))
          BY <2>2
        <5> HIDE DEF J
        <5> QED BY <2>2, <3>3, <5>1, Walks!Greatest
      <4>2. \A j \in DOMAIN edges : Inner(edges[j], ids) /\ edges[j].target = m
              => edges[j].source \in taken \/ (edges[j].source = n /\ j <= i)
        BY <2>2, <2>11, <3>1, <4>1
      <4>3. i \in I
        BY <2>5, <4>1, <4>2
      <4> QED BY <2>7, <2>9, <4>1, <4>3
    <3> QED BY <3>2, <3>3
  <2> QED BY <2>1, <2>9, <2>10, <2>11 DEF SortSound
<1> QED BY <1>2, <1>3

\* The sort when it has nothing left to take.
LEMMA SortedIsSound ==
  ASSUME NEW X, NEW ids \in Seq(X), NEW E, NEW edges \in Seq(E)
  PROVE  SortSound(Sorted(ids, edges), Len(ids), ids, edges)
<1> DEFINE A(k) == SortStates(ids, edges)[k]
           G == {k \in 0..Len(ids) : SortSound(A(k), k, ids, edges)}
<1>1. 0 \in G
  BY SortUnfolds, SortStartSound
<1>2. ASSUME NEW k \in 0..(Len(ids) - 1), k \in G
      PROVE  k + 1 \in G
  <2>1. k \in Nat /\ k + 1 \in 0..Len(ids) /\ k + 1 \in 1..Len(ids) /\ (k + 1) - 1 = k
    OBVIOUS
  <2>2. A(k + 1) = SortStep(A(k), k + 1, ids, edges)
    BY <2>1, SortUnfolds
  <2> HIDE DEF A
  <2> QED BY <1>2, <2>1, <2>2, SortStepSound
<1>3. 0..Len(ids) \subseteq G
  <2>1. Len(ids) \in Nat
    OBVIOUS
  <2> HIDE DEF G, A
  <2> QED BY <1>1, <1>2, <2>1, Walks!Climb
<1>4. SortSound(A(Len(ids)), Len(ids), ids, edges)
  BY <1>3
<1> QED BY <1>4 DEF Sorted

\* A list has as many items as places when it has each once.
LEMMA ItemsOfList ==
  ASSUME NEW X, NEW s \in Seq(X)
  PROVE  /\ IsFiniteSet(ToSet(s)) /\ Cardinality(ToSet(s)) \in Nat
         /\ Cardinality(ToSet(s)) <= Len(s)
         /\ Cardinality(ToSet(s)) = Len(s) <=> IsInjective(s)
<1> DEFINE I == 1..Len(s)
<1>1. IsFiniteSet(I) /\ Cardinality(I) = Len(s) /\ Len(s) \in Nat /\ DOMAIN s = I
  BY FS_Interval
<1>2. s \in Surjection(I, ToSet(s))
  BY DEF Surjection, ToSet
<1>3. s \in Injection(I, ToSet(s)) <=> IsInjective(s)
  <2>1. s \in [I -> ToSet(s)]
    BY <1>2 DEF Surjection
  <2> QED BY <1>1, <2>1 DEF Injection, IsInjective
<1> HIDE DEF I
<1>4. /\ IsFiniteSet(ToSet(s)) /\ Cardinality(ToSet(s)) <= Cardinality(I)
      /\ Cardinality(ToSet(s)) = Cardinality(I) <=> s \in Injection(I, ToSet(s))
  BY <1>1, <1>2, FS_Surjection
<1> QED BY <1>1, <1>3, <1>4, FS_CardinalityType

\* Unless it raises, topological_sort lists every node once, behind the source
\* of each edge into it.
THEOREM SortIsTopological ==
  ASSUME NEW X, NEW ids \in Seq(X), NEW E, NEW edges \in Seq(E), Sortable(ids, edges)
  PROVE  /\ Sorted(ids, edges) \in Seq(ToSet(ids)) /\ IsInjective(Sorted(ids, edges))
         /\ ToSet(Sorted(ids, edges)) = ToSet(ids)
         /\ \A p \in DOMAIN Sorted(ids, edges) : \A e \in ToSet(edges) :
              EndsIn(e, ToSet(ids)) /\ e.target = Sorted(ids, edges)[p] =>
                \E q \in DOMAIN Sorted(ids, edges) : q < p /\ Sorted(ids, edges)[q] = e.source
<1> DEFINE order == Sorted(ids, edges)
<1>1. /\ order \in Seq(ToSet(ids)) /\ IsInjective(order)
      /\ \A p \in DOMAIN order : \A e \in ToSet(edges) : Inner(e, ids) /\ e.target = order[p] =>
           \E q \in DOMAIN order : q < p /\ q <= Len(ids) /\ order[q] = e.source
  BY SortedIsSound DEF SortSound
<1>2. Len(order) = Len(ids)
  BY DEF Sortable
<1> HIDE DEF order
<1>3. ToSet(order) = ToSet(ids)
  <2>1. ToSet(order) \subseteq ToSet(ids)
    BY <1>1 DEF ToSet
  <2>2. /\ IsFiniteSet(ToSet(ids)) /\ Cardinality(ToSet(ids)) \in Nat
        /\ Cardinality(ToSet(ids)) <= Len(ids)
    BY ItemsOfList
  <2>3. Cardinality(ToSet(order)) = Len(ids) /\ Len(ids) \in Nat
    BY <1>1, <1>2, ItemsOfList
  <2>4. Cardinality(ToSet(order)) <= Cardinality(ToSet(ids))
    BY <2>1, <2>2, FS_Subset
  <2>5. Cardinality(ToSet(ids)) = Cardinality(ToSet(order))
    BY <2>2, <2>3, <2>4
  <2> QED BY <2>1, <2>2, <2>5, FS_Subset
<1> QED BY <1>1, <1>3 DEF Inner, order

\* topological_sort raises exactly when some nodes wait for each other: it
\* accepts a list if every group of its nodes has a member that no edge from the
\* group enters.
THEOREM SortFindsCycles ==
  ASSUME NEW X, NEW ids \in Seq(X), IsInjective(ids), NEW E, NEW edges \in Seq(E)
  PROVE  Sortable(ids, edges) <=>
           \A C \in SUBSET ToSet(ids) : C # {} =>
             \E n \in C : \A e \in ToSet(edges) : e.target = n => e.source \notin C
<1> DEFINE order == Sorted(ids, edges)
<1>1. ASSUME Sortable(ids, edges), NEW C \in SUBSET ToSet(ids), C # {}
      PROVE  \E n \in C : \A e \in ToSet(edges) : e.target = n => e.source \notin C
  <2>1. /\ order \in Seq(ToSet(ids)) /\ ToSet(order) = ToSet(ids) /\ IsInjective(order)
        /\ \A p \in DOMAIN order : \A e \in ToSet(edges) :
             EndsIn(e, ToSet(ids)) /\ e.target = order[p] =>
               \E q \in DOMAIN order : q < p /\ order[q] = e.source
    BY <1>1, SortIsTopological
  <2> HIDE DEF order
  <2>2. PICK p \in {j \in DOMAIN order : order[j] \in C} :
          \A q \in {j \in DOMAIN order : order[j] \in C} : p <= q
    <3>1. {j \in DOMAIN order : order[j] \in C} \in SUBSET Nat
      BY <2>1
    <3>2. {j \in DOMAIN order : order[j] \in C} # {}
      BY <1>1, <2>1 DEF ToSet
    <3> QED BY <3>1, <3>2, Walks!Least
  <2>3. ASSUME NEW e \in ToSet(edges), e.target = order[p], e.source \in C
        PROVE  FALSE
    <3>1. PICK q \in DOMAIN order : q < p /\ order[q] = e.source
      BY <1>1, <2>1, <2>2, <2>3 DEF EndsIn
    <3>2. p <= q /\ p \in Nat /\ q \in Nat
      BY <2>1, <2>2, <2>3, <3>1
    <3> QED BY <3>1, <3>2
  <2> QED BY <2>2, <2>3
<1>2. ASSUME \A C \in SUBSET ToSet(ids) : C # {} =>
               \E n \in C : \A e \in ToSet(edges) : e.target = n => e.source \notin C
      PROVE  Sortable(ids, edges)
  <2>1. /\ order \in Seq(ToSet(ids)) /\ IsInjective(order)
        /\ \A n \in ToSet(ids) :
             (\A e \in ToSet(edges) : Inner(e, ids) /\ e.target = n => e.source \in Past(order, Len(ids)))
             => n \in ToSet(order)
    BY SortedIsSound DEF SortSound
  <2> HIDE DEF order
  <2>2. /\ IsFiniteSet(ToSet(ids)) /\ Cardinality(ToSet(ids)) = Len(ids) /\ Len(ids) \in Nat
        /\ Cardinality(ToSet(order)) = Len(order)
        /\ ToSet(order) \subseteq ToSet(ids)
    <3>1. ToSet(order) \subseteq ToSet(ids)
      BY <2>1 DEF ToSet
    <3>2. Cardinality(ToSet(order)) = Len(order)
      BY <2>1, ItemsOfList
    <3> QED BY <3>1, <3>2, ItemsOfList
  <2>3. Past(order, Len(ids)) = ToSet(order)
    <3>1. Len(order) <= Len(ids)
      BY <2>2, FS_Subset
    <3> QED BY <2>1, <2>2, <3>1 DEF Past, ToSet
  <2>4. ToSet(order) = ToSet(ids)
    <3> SUFFICES ASSUME ToSet(ids) \ ToSet(order) # {} PROVE FALSE
      BY <2>2
    <3>1. PICK n \in ToSet(ids) \ ToSet(order) :
            \A e \in ToSet(edges) : e.target = n => e.source \notin ToSet(ids) \ ToSet(order)
      BY <1>2
    <3> QED BY <2>1, <2>3, <3>1 DEF Inner, EndsIn
  <2> QED BY <2>2, <2>4 DEF Sortable, order
<1> QED BY <1>1, <1>2

-----------------------------------------------------------------------------
(* Plans *)

\* What build_execution_plan executes.
Needed(ids, edges, selected, none) ==
  IF selected = none THEN ToSet(ids) ELSE UpstreamClosure(selected, edges)

\* An order of nodes in which each follows the sources of the edges into it.
IsOrder(order, nodes, edges) ==
  /\ IsInjective(order) /\ ToSet(order) = nodes
  /\ \A p \in DOMAIN order : \A e \in ToSet(edges) :
       e.target = order[p] => \E q \in DOMAIN order : q < p /\ order[q] = e.source

\* The nodes and edges of a plan: those that the selected node needs, and every
\* edge into one of them.
LEMMA PlannedParts ==
  ASSUME NEW X, NEW ids \in Seq(X), IsInjective(ids), NEW none,
         NEW edges \in Seq([source : ToSet(ids), target : ToSet(ids)]),
         NEW selected \in ToSet(ids) \cup {none}
  PROVE  /\ PlannedIds(ids, edges, selected, none) \in Seq(ToSet(ids))
         /\ IsInjective(PlannedIds(ids, edges, selected, none))
         /\ ToSet(PlannedIds(ids, edges, selected, none)) = Needed(ids, edges, selected, none)
         /\ Needed(ids, edges, selected, none) \subseteq ToSet(ids)
         /\ PlannedEdges(ids, edges, selected, none) \in Seq([source : ToSet(ids), target : ToSet(ids)])
         /\ ToSet(PlannedEdges(ids, edges, selected, none))
              = {e \in ToSet(edges) : e.target \in Needed(ids, edges, selected, none)}
         /\ \A e \in ToSet(edges) : e.target \in Needed(ids, edges, selected, none)
                                      => e.source \in Needed(ids, edges, selected, none)
<1> DEFINE Ends == [source : ToSet(ids), target : ToSet(ids)]
           needed == Needed(ids, edges, selected, none)
           I == {i \in DOMAIN ids : selected = none \/ ids[i] \in UpstreamClosure(selected, edges)}
           nodes == PlannedIds(ids, edges, selected, none)
           J == {j \in DOMAIN edges : EndsIn(edges[j], ToSet(nodes))}
<1>1. \A e \in ToSet(edges) : e.source \in ToSet(ids) /\ e.target \in ToSet(ids)
  <2>1. edges \in Seq(Ends) /\ \A e \in Ends : e.source \in ToSet(ids) /\ e.target \in ToSet(ids)
    OBVIOUS
  <2> HIDE DEF Ends
  <2>2. \A e \in ToSet(edges) : e \in Ends
    BY <2>1 DEF ToSet
  <2> QED BY <2>1, <2>2
<1>2. needed \subseteq ToSet(ids)
  BY <1>1, UpstreamIsLeast DEF Needed
<1>3. \A e \in ToSet(edges) : e.target \in needed => e.source \in needed
  BY <1>1, UpstreamIsLeast DEF Needed
<1>4. /\ nodes \in Seq(ToSet(ids)) /\ ToSet(nodes) = {ids[i] : i \in I} /\ IsInjective(nodes)
  <2>1. ids \in Seq(ToSet(ids)) /\ I \in SUBSET DOMAIN ids
    BY DEF ToSet
  <2>2. \A i, j \in I : ids[i] = ids[j] => i = j
    BY DEF IsInjective
  <2>3. nodes = Picked(ids, I)
    BY DEF PlannedIds
  <2> HIDE DEF I, nodes
  <2> QED BY <2>1, <2>2, <2>3, PickedItems
<1>5. ToSet(nodes) = needed
  <2>1. \A i \in DOMAIN ids : i \in I <=> ids[i] \in needed
    BY DEF Needed, ToSet
  <2>2. ToSet(ids) = {ids[i] : i \in DOMAIN ids}
    BY DEF ToSet
  <2> HIDE DEF I, needed, nodes
  <2>3. ToSet(nodes) \subseteq needed
    BY <1>4, <2>1 DEF I
  <2>4. needed \subseteq ToSet(nodes)
    BY <1>2, <1>4, <2>1, <2>2
  <2> QED BY <2>3, <2>4
<1> HIDE DEF nodes, needed
<1>6. /\ PlannedEdges(ids, edges, selected, none) \in Seq(Ends)
      /\ ToSet(PlannedEdges(ids, edges, selected, none)) = {edges[j] : j \in J}
  <2>1. PlannedEdges(ids, edges, selected, none) = Picked(edges, J)
    BY DEF PlannedEdges, nodes
  <2>2. J \in SUBSET DOMAIN edges
    OBVIOUS
  <2> HIDE DEF J, Ends
  <2> QED BY <2>1, <2>2, PickedItems DEF Ends
<1>7. {edges[j] : j \in J} = {e \in ToSet(edges) : e.target \in needed}
  <2>1. \A e \in ToSet(edges) : EndsIn(e, needed) <=> e.target \in needed
    BY <1>3 DEF EndsIn
  <2>2. ToSet(edges) = {edges[j] : j \in DOMAIN edges}
    BY DEF ToSet
  <2>3. {edges[j] : j \in J} = {e \in ToSet(edges) : EndsIn(e, needed)}
    BY <1>5, <2>2
  <2> QED BY <2>1, <2>3
<1> QED BY <1>2, <1>3, <1>4, <1>5, <1>6, <1>7 DEF nodes, needed

\* build_execution_plan: a plan without a cycle executes exactly what is needed,
\* each node once and after all that it receives something from.
THEOREM PlanIsComplete ==
  ASSUME NEW X, NEW ids \in Seq(X), IsInjective(ids), NEW none,
         NEW edges \in Seq([source : ToSet(ids), target : ToSet(ids)]),
         NEW selected \in ToSet(ids) \cup {none},
         Sortable(PlannedIds(ids, edges, selected, none), PlannedEdges(ids, edges, selected, none))
  PROVE  /\ Plan(ids, edges, selected, none) \in Seq(ToSet(ids))
         /\ IsOrder(Plan(ids, edges, selected, none), Needed(ids, edges, selected, none), edges)
<1> DEFINE nodes == PlannedIds(ids, edges, selected, none)
           inner == PlannedEdges(ids, edges, selected, none)
           order == Plan(ids, edges, selected, none)
           needed == Needed(ids, edges, selected, none)
           Ends == [source : ToSet(ids), target : ToSet(ids)]
<1>1. /\ nodes \in Seq(ToSet(ids)) /\ ToSet(nodes) = needed /\ needed \subseteq ToSet(ids)
      /\ inner \in Seq(Ends)
      /\ ToSet(inner) = {e \in ToSet(edges) : e.target \in needed}
      /\ \A e \in ToSet(edges) : e.target \in needed => e.source \in needed
  BY PlannedParts
<1>2. order = Sorted(nodes, inner) /\ Sortable(nodes, inner)
  BY DEF Plan
<1> HIDE DEF nodes, inner, order, needed, Ends
<1>3. /\ order \in Seq(needed) /\ IsInjective(order) /\ ToSet(order) = needed
      /\ \A p \in DOMAIN order : \A e \in ToSet(inner) :
           EndsIn(e, needed) /\ e.target = order[p] => \E q \in DOMAIN order : q < p /\ order[q] = e.source
  BY <1>1, <1>2, SortIsTopological
<1>4. order \in Seq(ToSet(ids))
  BY <1>1, <1>3
<1>5. ASSUME NEW p \in DOMAIN order, NEW e \in ToSet(edges), e.target = order[p]
      PROVE  \E q \in DOMAIN order : q < p /\ order[q] = e.source
  <2>1. order[p] \in needed
    BY <1>3 DEF ToSet
  <2> QED BY <1>1, <1>3, <1>5, <2>1 DEF EndsIn
<1> QED BY <1>3, <1>4, <1>5 DEF IsOrder, order, needed

\* What a plan executes lies on no cycle.
LEMMA PlanHasNoCycle ==
  ASSUME NEW X, NEW ids \in Seq(X), IsInjective(ids), NEW none,
         NEW edges \in Seq([source : ToSet(ids), target : ToSet(ids)]),
         NEW selected \in ToSet(ids) \cup {none},
         Sortable(PlannedIds(ids, edges, selected, none), PlannedEdges(ids, edges, selected, none)),
         NEW n \in Needed(ids, edges, selected, none)
  PROVE  n \notin Downstream({n}, PlannedEdges(ids, edges, selected, none))
<1> DEFINE inner == PlannedEdges(ids, edges, selected, none)
           order == Plan(ids, edges, selected, none)
           needed == Needed(ids, edges, selected, none)
           Ends == [source : ToSet(ids), target : ToSet(ids)]
<1>1. inner \in Seq(Ends) /\ ToSet(inner) = {e \in ToSet(edges) : e.target \in needed}
  BY PlannedParts
<1>2. order \in Seq(ToSet(ids)) /\ IsOrder(order, needed, edges)
  BY PlanIsComplete
<1> HIDE DEF inner, order, needed, Ends
<1>3. PICK p \in DOMAIN order : order[p] = n
  BY <1>2 DEF IsOrder, ToSet, needed
<1> DEFINE S == {order[q] : q \in {h \in DOMAIN order : p < h}}
<1>4. ASSUME NEW e \in ToSet(inner), e.source \in {n} \cup S
      PROVE  e.target \in S
  <2>1. PICK q \in DOMAIN order : order[q] = e.target
    BY <1>1, <1>2 DEF IsOrder, ToSet
  <2>2. PICK h \in DOMAIN order : h < q /\ order[h] = e.source
    BY <1>1, <1>2, <2>1 DEF IsOrder
  <2>3. p <= h
    BY <1>2, <1>3, <1>4, <2>2 DEF IsOrder, IsInjective
  <2>4. p \in Nat /\ h \in Nat /\ q \in Nat
    BY <1>2
  <2> QED BY <2>1, <2>2, <2>3, <2>4
<1>5. Downstream({n}, inner) \subseteq S
  BY <1>1, <1>4, DownstreamIsLeast
<1>6. n \notin S
  BY <1>2, <1>3 DEF IsOrder, IsInjective
<1> QED BY <1>5, <1>6 DEF inner

\* upstream_outputs: the results of the sources that have one.
LEMMA ReceivedResults ==
  ASSUME NEW E, NEW edges \in Seq(E), NEW n, NEW results
  PROVE  /\ Received(n, edges, results) \in Seq({results[x] : x \in DOMAIN results})
         /\ ToSet(Received(n, edges, results)) = {results[x] : x \in SourcesOf(n, edges) \cap DOMAIN results}
<1> DEFINE I == {i \in DOMAIN edges : edges[i].target = n /\ edges[i].source \in DOMAIN results}
           into == Picked(edges, I)
           got == [i \in DOMAIN into |-> results[into[i].source]]
<1>1. Received(n, edges, results) = got
  BY DEF Received
<1>2. into \in Seq(E) /\ ToSet(into) = {edges[i] : i \in I}
  <2>1. I \in SUBSET DOMAIN edges
    OBVIOUS
  <2> HIDE DEF I
  <2> QED BY <2>1, PickedItems
<1>3. \A e : e \in ToSet(into) <=> e \in ToSet(edges) /\ e.target = n /\ e.source \in DOMAIN results
  <2>1. \A e : e \in ToSet(edges) <=> \E i \in DOMAIN edges : e = edges[i]
    BY DEF ToSet
  <2> HIDE DEF into
  <2> QED BY <1>2, <2>1
<1> HIDE DEF into, I
<1>4. \A i \in DOMAIN into : into[i] \in ToSet(into)
  BY DEF ToSet
<1>5. got \in Seq({results[x] : x \in DOMAIN results})
  BY <1>2, <1>3, <1>4
<1>6. ToSet(got) = {results[e.source] : e \in ToSet(into)}
  BY <1>2 DEF ToSet
<1>7. {results[e.source] : e \in ToSet(into)} = {results[x] : x \in SourcesOf(n, edges) \cap DOMAIN results}
  BY <1>3 DEF SourcesOf
<1> QED BY <1>1, <1>5, <1>6, <1>7

-----------------------------------------------------------------------------
(* The parameters *)

\* The list of nodes, and the edges of a graph that may be submitted.
LEMMA Lists ==
  /\ Ids \in Seq(Nodes) /\ IsInjective(Ids)
  /\ \A g \in Graphs : g.edges \in Seq([source : Nodes, target : Nodes])
  /\ Selections \subseteq Nodes \cup {None} /\ None \notin Nodes
BY IdsAssumption, GraphAssumption, SelectionAssumption DEF IsInjective

\* The ends of its edges, and what a node of it needs, are nodes.
LEMMA EdgeEnds ==
  ASSUME NEW g \in Graphs
  PROVE  /\ \A e \in ToSet(g.edges) : e.source \in Nodes /\ e.target \in Nodes
         /\ \A n \in Nodes : UpstreamClosure(n, g.edges) \subseteq Nodes
<1> DEFINE Ends == [source : Nodes, target : Nodes]
<1>0. g.edges \in Seq(Ends)
  BY Lists
<1>1. \A e \in ToSet(g.edges) : e \in Ends
  <2> HIDE DEF Ends
  <2> QED BY <1>0 DEF ToSet
<1>2. \A e \in ToSet(g.edges) : e.source \in Nodes /\ e.target \in Nodes
  BY <1>1
<1> QED BY <1>2, Lists, UpstreamIsLeast

\* A run that has been accepted: its plan has no cycle.
Accepted(q) ==
  /\ q.graph \in Graphs /\ q.selected \in Selections
  /\ Sortable(PlannedIds(Ids, q.graph.edges, q.selected, None),
              PlannedEdges(Ids, q.graph.edges, q.selected, None))

\* What an accepted run executes.
Whole(q) == Needed(Ids, q.graph.edges, q.selected, None)

LEMMA AcceptedPlan ==
  ASSUME NEW q, Accepted(q)
  PROVE  /\ PlanOf(q) \in Seq(Nodes) /\ IsOrder(PlanOf(q), Whole(q), q.graph.edges)
         /\ Whole(q) \subseteq Nodes
         /\ PlannedEdges(Ids, q.graph.edges, q.selected, None) \in Seq([source : Nodes, target : Nodes])
         /\ ToSet(PlannedEdges(Ids, q.graph.edges, q.selected, None))
              = {e \in ToSet(q.graph.edges) : e.target \in Whole(q)}
<1>1. /\ Ids \in Seq(Nodes) /\ IsInjective(Ids) /\ q.graph.edges \in Seq([source : ToSet(Ids), target : ToSet(Ids)])
      /\ q.selected \in ToSet(Ids) \cup {None}
  BY Lists DEF Accepted, Nodes
<1>2. /\ PlanOf(q) \in Seq(ToSet(Ids))
      /\ IsOrder(PlanOf(q), Needed(Ids, q.graph.edges, q.selected, None), q.graph.edges)
  BY <1>1, PlanIsComplete DEF Accepted, PlanOf
<1>3. /\ Needed(Ids, q.graph.edges, q.selected, None) \subseteq ToSet(Ids)
      /\ PlannedEdges(Ids, q.graph.edges, q.selected, None) \in Seq([source : ToSet(Ids), target : ToSet(Ids)])
      /\ ToSet(PlannedEdges(Ids, q.graph.edges, q.selected, None))
              = {e \in ToSet(q.graph.edges) : e.target \in Needed(Ids, q.graph.edges, q.selected, None)}
  BY <1>1, PlannedParts
<1> QED BY <1>2, <1>3 DEF Whole, Nodes

-----------------------------------------------------------------------------
(* Keys *)

\* A result determines the key it is kept under.
KeyOf(v) == [n |-> v.n, setting |-> v.setting, read |-> v.read,
             refs |-> {<<u.n, u>> : u \in ToSet(v.inputs)}]

\* The entries of a cache, of a manifest or of the records of a child.
Entries(c) == \A k \in DOMAIN c : k = KeyOf(c[k])

-----------------------------------------------------------------------------
(* The child, node by node *)

\* What is shown for a graph fits together, and waits for the answers.
View(g, results) ==
  /\ DOMAIN results \subseteq Nodes
  /\ \A n \in DOMAIN results :
       /\ FromSources(n, g, results)
       /\ g.reads[n] \in UpstreamClosure(n, g.edges) => FromReference(n, g, results)
       /\ \A t \in (Awaiting \ {n}) \cap UpstreamClosure(n, g.edges) :
            t \in DOMAIN results /\ results[t].answers > 0

\* What a child is given.
ChildSound(q) ==
  /\ Accepted(q) /\ Entries(q.manifest) /\ q.answers \in Nat
  /\ q.edges = PlannedEdges(Ids, q.graph.edges, q.selected, None)

\* A task that nobody has answered holds up what follows it.
Waits(q, s) ==
  \A t \in Awaiting \cap DOMAIN s.results :
    /\ s.results[t].answers = q.answers
    /\ q.answers = 0 => Downstream({t}, q.edges) \subseteq s.deferred

\* A result that was not restored was not in the manifest, and is kept.
Recorded(q, s) ==
  \A n \in DOMAIN s.results : Caching(q, n) =>
    /\ KeyOf(s.results[n]) \in DOMAIN s.records \cup DOMAIN q.manifest
    /\ n # q.selected /\ s.status[n] # "cached" => KeyOf(s.results[n]) \notin DOMAIN q.manifest

\* After k nodes of the plan: up to a failure each of them has a result, unless
\* it waits with all that follows it.
FoldSound(q, s, k) ==
  /\ s = [results |-> s.results, status |-> s.status, records |-> s.records,
          deferred |-> s.deferred, ended |-> s.ended]
  /\ View(q.graph, s.results)
  /\ DOMAIN s.results \subseteq Past(PlanOf(q), k) /\ DOMAIN s.results \subseteq DOMAIN s.status
  /\ s.ended = "succeeded" => Past(PlanOf(q), k) \subseteq DOMAIN s.results \cup s.deferred
  /\ \A e \in ToSet(q.edges) : e.source \in s.deferred => e.target \in s.deferred
  /\ s.ended \in {"succeeded", "failed", "cancelled"}
  /\ Waits(q, s) /\ Entries(s.records) /\ Recorded(q, s)

\* Before the first node.
LEMMA StartedSound ==
  ASSUME NEW q, ChildSound(q)
  PROVE  FoldSound(q, Started, 0)
<1>1. DOMAIN EmptyMap = {}
  BY DEF EmptyMap
<1>2. PlanOf(q) \in Seq(Nodes)
  BY AcceptedPlan DEF ChildSound
<1>3. Past(PlanOf(q), 0) = {}
  BY <1>2 DEF Past
<1> QED BY <1>1, <1>3 DEF FoldSound, Started, View, Waits, Entries, Recorded

\* What a result needs is shown with it.
LEMMA ViewUpstream ==
  ASSUME NEW g \in Graphs, NEW results, View(g, results), NEW n \in DOMAIN results
  PROVE  UpstreamClosure(n, g.edges) \subseteq DOMAIN results
<1> DEFINE Ends == [source : Nodes, target : Nodes]
<1>1. g.edges \in Seq(Ends)
  BY Lists
<1>2. \A e \in ToSet(g.edges) : e.target \in DOMAIN results => e.source \in DOMAIN results
  BY DEF View, FromSources, SourcesOf
<1> HIDE DEF Ends
<1> QED BY <1>1, <1>2, UpstreamIsLeast

\* Node n is the next of the plan, after k others.
Turn(q, k, n) == ChildSound(q) /\ k \in 0..(Len(PlanOf(q)) - 1) /\ n = PlanOf(q)[k + 1]

\* The node that comes next has no result yet, and nothing that is not planned
\* leads to it.
LEMMA NextNode ==
  ASSUME NEW q, NEW k, NEW n, Turn(q, k, n)
  PROVE  /\ n \in Nodes /\ n \in Whole(q) /\ n \notin Past(PlanOf(q), k)
         /\ Past(PlanOf(q), k + 1) = Past(PlanOf(q), k) \cup {n}
         /\ SourcesOf(n, q.graph.edges) \subseteq Past(PlanOf(q), k)
         /\ SourcesOf(n, q.edges) = SourcesOf(n, q.graph.edges)
<1> DEFINE p == PlanOf(q)
           Ends == [source : Nodes, target : Nodes]
<1>0. k \in Nat
  BY AcceptedPlan DEF Turn, ChildSound
<1>1. /\ p \in Seq(Nodes) /\ IsOrder(p, Whole(q), q.graph.edges) /\ Whole(q) \subseteq Nodes
      /\ ToSet(q.edges) = {e \in ToSet(q.graph.edges) : e.target \in Whole(q)}
  BY AcceptedPlan DEF ChildSound, Turn
<1> HIDE DEF p
<1>2. k + 1 \in DOMAIN p /\ n = p[k + 1]
  BY <1>1 DEF p, Turn
<1>3. n \in Nodes /\ n \in Whole(q)
  BY <1>1, <1>2 DEF IsOrder, ToSet
<1>4. n \notin Past(p, k)
  BY <1>0, <1>1, <1>2 DEF IsOrder, IsInjective, Past
<1>5. Past(p, k + 1) = Past(p, k) \cup {n}
  <2>1. \A i \in DOMAIN p : i <= k + 1 <=> i <= k \/ i = k + 1
    BY <1>0, <1>1
  <2> QED BY <1>2, <2>1 DEF Past
<1>6. SourcesOf(n, q.graph.edges) \subseteq Past(p, k)
  <2>1. ASSUME NEW e \in ToSet(q.graph.edges), e.target = n
        PROVE  e.source \in Past(p, k)
    <3>1. PICK j \in DOMAIN p : j < k + 1 /\ p[j] = e.source
      BY <1>1, <1>2, <2>1 DEF IsOrder
    <3>2. j <= k
      BY <1>0, <1>1, <3>1
    <3> QED BY <3>1, <3>2 DEF Past
  <2> QED BY <2>1 DEF SourcesOf
<1>7. SourcesOf(n, q.edges) = SourcesOf(n, q.graph.edges)
  BY <1>1, <1>3 DEF SourcesOf
<1> QED BY <1>3, <1>4, <1>5, <1>6, <1>7 DEF p

\* A node that is passed over: it waits, it failed, or the run has ended.
LEMMA PassedOver ==
  ASSUME NEW q, NEW k, NEW n, Turn(q, k, n),
         NEW s, FoldSound(q, s, k), NEW status, NEW ended \in {"succeeded", "failed", "cancelled"},
         ended = "succeeded" => s.ended = "succeeded" /\ n \in s.deferred
  PROVE  FoldSound(q, [results |-> s.results, status |-> With(s.status, n, status),
                       records |-> s.records, deferred |-> s.deferred, ended |-> ended], k + 1)
<1>1. PICK t : t = [results |-> s.results, status |-> With(s.status, n, status),
                    records |-> s.records, deferred |-> s.deferred, ended |-> ended]
  OBVIOUS
<1>2. n \notin Past(PlanOf(q), k) /\ Past(PlanOf(q), k + 1) = Past(PlanOf(q), k) \cup {n}
  BY NextNode
<1>3. n \notin DOMAIN s.results
  BY <1>2 DEF FoldSound
<1>4. /\ DOMAIN With(s.status, n, status) = DOMAIN s.status \cup {n}
      /\ \A m \in DOMAIN s.status : m # n => With(s.status, n, status)[m] = s.status[m]
  BY DEF With
<1>5. /\ t = [results |-> t.results, status |-> t.status, records |-> t.records,
               deferred |-> t.deferred, ended |-> t.ended]
      /\ t.results = s.results /\ t.status = With(s.status, n, status) /\ t.records = s.records
      /\ t.deferred = s.deferred /\ t.ended = ended
  BY <1>1
<1>6. Recorded(q, t)
  BY <1>3, <1>4, <1>5 DEF Recorded, FoldSound
<1>7. Waits(q, t)
  BY <1>5 DEF Waits, FoldSound
<1>8. /\ DOMAIN t.results \subseteq Past(PlanOf(q), k + 1) /\ DOMAIN t.results \subseteq DOMAIN t.status
      /\ t.ended = "succeeded" => Past(PlanOf(q), k + 1) \subseteq DOMAIN t.results \cup t.deferred
  BY <1>2, <1>4, <1>5 DEF FoldSound
<1>9. FoldSound(q, t, k + 1)
  BY <1>5, <1>6, <1>7, <1>8 DEF FoldSound
<1> QED BY <1>1, <1>9

\* Nothing above a node that does not wait is a task without an answer.
LEMMA AnsweredAbove ==
  ASSUME NEW q, NEW k, NEW n, Turn(q, k, n),
         NEW s, FoldSound(q, s, k), s.ended = "succeeded", n \notin s.deferred
  PROVE  /\ SourcesOf(n, q.graph.edges) \subseteq DOMAIN s.results
         /\ UpstreamClosure(n, q.graph.edges) \subseteq DOMAIN s.results \cup {n}
         /\ \A t \in (Awaiting \ {n}) \cap UpstreamClosure(n, q.graph.edges) :
              t \in DOMAIN s.results /\ s.results[t].answers > 0
<1> DEFINE Ends == [source : Nodes, target : Nodes]
           edges == q.graph.edges
<1>1. q.graph \in Graphs /\ edges \in Seq(Ends) /\ q.edges \in Seq(Ends)
  BY Lists, AcceptedPlan DEF ChildSound, Accepted, Turn
<1> HIDE DEF Ends
<1>2. SourcesOf(n, edges) \subseteq DOMAIN s.results
  <2>1. ASSUME NEW x \in SourcesOf(n, edges)
        PROVE  x \in DOMAIN s.results
    <3>1. x \in SourcesOf(n, q.edges) /\ x \in Past(PlanOf(q), k)
      BY NextNode
    <3>2. x \notin s.deferred
      BY <3>1 DEF SourcesOf, FoldSound
    <3> QED BY <3>1, <3>2 DEF FoldSound
  <2> QED BY <2>1
<1>3. UpstreamClosure(n, edges) \subseteq DOMAIN s.results \cup {n}
  <2>1. \A e \in ToSet(edges) : e.target \in DOMAIN s.results => e.source \in DOMAIN s.results
    BY DEF FoldSound, View, FromSources, SourcesOf
  <2>2. \A e \in ToSet(edges) : e.target = n => e.source \in DOMAIN s.results
    BY <1>2 DEF SourcesOf
  <2>3. PICK S : S = DOMAIN s.results \cup {n}
    OBVIOUS
  <2>4. n \in S /\ \A e \in ToSet(edges) : e.target \in S => e.source \in S
    BY <2>1, <2>2, <2>3
  <2>5. UpstreamClosure(n, edges) \subseteq S
    BY <1>1, <2>4, UpstreamIsLeast
  <2> QED BY <2>3, <2>5
<1>4. ASSUME NEW t \in (Awaiting \ {n}) \cap UpstreamClosure(n, edges)
      PROVE  t \in DOMAIN s.results /\ s.results[t].answers > 0
  <2>1. t \in DOMAIN s.results /\ s.results[t].answers = q.answers /\ q.answers \in Nat
    BY <1>3, <1>4 DEF FoldSound, Waits, ChildSound, Turn
  <2>2. ASSUME q.answers = 0
        PROVE  FALSE
    <3> DEFINE D == Downstream({t}, q.edges)
               S == {x \in Whole(q) : x # t /\ x \notin D}
    <3>1. D \subseteq s.deferred
      BY <1>4, <2>1, <2>2 DEF FoldSound, Waits
    <3>2. \A e \in ToSet(q.edges) : e.source \in {t} \cup D => e.target \in D
      BY <1>1, DownstreamIsLeast
    <3> HIDE DEF D
    <3>3. n \in S
      BY <1>4, <3>1, NextNode
    <3>4. ASSUME NEW e \in ToSet(edges), e.target \in S
          PROVE  e.source \in S
      <4>1. e \in ToSet(q.edges)
        BY <3>4, AcceptedPlan DEF ChildSound, Turn
      <4>2. e.source \in Whole(q)
        <5>1. IsOrder(PlanOf(q), Whole(q), edges)
          BY AcceptedPlan DEF ChildSound, Turn
        <5> QED BY <3>4, <5>1 DEF IsOrder, ToSet
      <4> QED BY <3>2, <3>4, <4>1, <4>2
    <3>5. UpstreamClosure(n, edges) \subseteq S
      <4> HIDE DEF S
      <4> QED BY <1>1, <3>3, <3>4, UpstreamIsLeast
    <3> QED BY <1>4, <3>5
  <2> QED BY <2>1, <2>2
<1> QED BY <1>2, <1>3, <1>4

\* Value v is what node n computes from the results at hand.
Fits(q, s, n, v) ==
  /\ v.n = n /\ v.setting = q.graph.setting[n]
  /\ ToSet(v.inputs) = {s.results[x] : x \in SourcesOf(n, q.graph.edges)}
  /\ Readable(n, q.graph, s.results) /\ v.read = ReadBy(n, q.graph, s.results)
  /\ n \in Awaiting => v.answers = q.answers

\* Its key is the one the child looks it up and stores it under.
LEMMA FittingKey ==
  ASSUME NEW q, NEW k, NEW n, Turn(q, k, n), NEW s, FoldSound(q, s, k),
         s.ended = "succeeded", n \notin s.deferred, NEW v, Fits(q, s, n, v)
  PROVE  KeyOf(v) = KeyFor(q, s, n)
<1>1. SourcesOf(n, q.graph.edges) \subseteq DOMAIN s.results /\ SourcesOf(n, q.edges) = SourcesOf(n, q.graph.edges)
  BY AnsweredAbove, NextNode
<1>2. \A x \in DOMAIN s.results : s.results[x].n = x
  BY DEF FoldSound, View, FromSources
<1>3. {<<u.n, u>> : u \in ToSet(v.inputs)} = {<<x, s.results[x]>> : x \in SourcesOf(n, q.graph.edges)}
  BY <1>1, <1>2 DEF Fits
<1>4. Refs(n, q.edges, s.results) = {<<x, s.results[x]>> : x \in SourcesOf(n, q.graph.edges)}
  BY <1>1 DEF Refs, SourcesOf
<1> QED BY <1>3, <1>4 DEF KeyOf, KeyFor, Key, Fits

\* A view with a result for one more node.
LEMMA ViewGrows ==
  ASSUME NEW q, NEW k, NEW n, Turn(q, k, n), NEW s, FoldSound(q, s, k),
         s.ended = "succeeded", n \notin s.deferred, NEW v, Fits(q, s, n, v)
  PROVE  View(q.graph, With(s.results, n, v))
<1>1. PICK g : g = q.graph
  OBVIOUS
<1>2. PICK f : f = With(s.results, n, v)
  OBVIOUS
<1>3. g \in Graphs /\ View(g, s.results)
  BY <1>1 DEF Turn, ChildSound, Accepted, FoldSound
<1>4. /\ SourcesOf(n, g.edges) \subseteq DOMAIN s.results
      /\ UpstreamClosure(n, g.edges) \subseteq DOMAIN s.results \cup {n}
      /\ \A t \in (Awaiting \ {n}) \cap UpstreamClosure(n, g.edges) :
           t \in DOMAIN s.results /\ s.results[t].answers > 0
  BY <1>1, AnsweredAbove
<1>5. n \in Nodes /\ n \notin DOMAIN s.results
  BY NextNode DEF FoldSound
<1>6. /\ DOMAIN f = DOMAIN s.results \cup {n} /\ f[n] = v
      /\ \A m \in DOMAIN s.results : f[m] = s.results[m]
  BY <1>2, <1>5 DEF With
<1>7. DOMAIN f \subseteq Nodes
  BY <1>3, <1>5, <1>6 DEF View
<1>8. \A m \in DOMAIN s.results : UpstreamClosure(m, g.edges) \subseteq DOMAIN s.results
  BY <1>3, ViewUpstream
<1>9. ASSUME NEW m \in DOMAIN s.results
      PROVE  /\ FromSources(m, g, f)
             /\ g.reads[m] \in UpstreamClosure(m, g.edges) => FromReference(m, g, f)
             /\ \A t \in (Awaiting \ {m}) \cap UpstreamClosure(m, g.edges) :
                  t \in DOMAIN f /\ f[t].answers > 0
  <2>1. /\ FromSources(m, g, s.results)
        /\ g.reads[m] \in UpstreamClosure(m, g.edges) => FromReference(m, g, s.results)
        /\ \A t \in (Awaiting \ {m}) \cap UpstreamClosure(m, g.edges) :
             t \in DOMAIN s.results /\ s.results[t].answers > 0
    BY <1>3 DEF View
  <2>2. FromSources(m, g, f)
    BY <1>6, <2>1 DEF FromSources
  <2>3. g.reads[m] \in UpstreamClosure(m, g.edges) => FromReference(m, g, f)
    BY <1>6, <1>8, <2>1 DEF FromReference, Get
  <2> QED BY <1>6, <2>1, <2>2, <2>3
<1>10. FromSources(n, g, f)
  BY <1>1, <1>4, <1>6 DEF FromSources, Fits
<1>11. FromReference(n, g, f)
  BY <1>1, <1>6, <1>5 DEF FromReference, Fits, Readable, ReadBy, Get
<1>12. \A t \in (Awaiting \ {n}) \cap UpstreamClosure(n, g.edges) : t \in DOMAIN f /\ f[t].answers > 0
  BY <1>4, <1>6
<1>13. View(g, f)
  BY <1>6, <1>7, <1>9, <1>10, <1>11, <1>12 DEF View
<1> QED BY <1>1, <1>2, <1>13

\* The deferred nodes when node n has its result.
DeferredBy(q, s, n) ==
  IF Defers(n, q.answers) THEN s.deferred \cup Downstream({n}, q.edges) ELSE s.deferred

\* A node that gets a result, restored or computed.
LEMMA ResultAdded ==
  ASSUME NEW q, NEW k, NEW n, Turn(q, k, n), NEW s, FoldSound(q, s, k),
         s.ended = "succeeded", n \notin s.deferred, NEW v, Fits(q, s, n, v), NEW status,
         NEW records, Entries(records), DOMAIN s.records \subseteq DOMAIN records,
         Caching(q, n) => KeyOf(v) \in DOMAIN records \cup DOMAIN q.manifest,
         Caching(q, n) /\ n # q.selected /\ status # "cached" => KeyOf(v) \notin DOMAIN q.manifest
  PROVE  FoldSound(q, [results |-> With(s.results, n, v), status |-> With(s.status, n, status),
                       records |-> records, deferred |-> DeferredBy(q, s, n), ended |-> s.ended], k + 1)
<1>1. PICK t : t = [results |-> With(s.results, n, v), status |-> With(s.status, n, status),
                    records |-> records, deferred |-> DeferredBy(q, s, n), ended |-> s.ended]
  OBVIOUS
<1>2. n \notin Past(PlanOf(q), k) /\ Past(PlanOf(q), k + 1) = Past(PlanOf(q), k) \cup {n}
  BY NextNode
<1>3. n \notin DOMAIN s.results
  BY <1>2 DEF FoldSound
<1>4. /\ t = [results |-> t.results, status |-> t.status, records |-> t.records,
               deferred |-> t.deferred, ended |-> t.ended]
      /\ t.results = With(s.results, n, v) /\ t.status = With(s.status, n, status)
      /\ t.records = records /\ t.deferred = DeferredBy(q, s, n) /\ t.ended = s.ended
  BY <1>1
<1>5. /\ DOMAIN t.results = DOMAIN s.results \cup {n} /\ t.results[n] = v
      /\ \A m \in DOMAIN s.results : t.results[m] = s.results[m]
  BY <1>3, <1>4 DEF With
<1>6. /\ DOMAIN t.status = DOMAIN s.status \cup {n} /\ t.status[n] = status
      /\ \A m \in DOMAIN s.results : m \in DOMAIN s.status /\ t.status[m] = s.status[m]
  BY <1>3, <1>4 DEF With, FoldSound
<1>7. View(q.graph, t.results)
  BY <1>4, ViewGrows
<1>8. \A e \in ToSet(q.edges) : e.source \in t.deferred => e.target \in t.deferred
  <2> DEFINE Ends == [source : Nodes, target : Nodes]
  <2>1. q.edges \in Seq(Ends)
    BY AcceptedPlan DEF ChildSound, Turn
  <2> HIDE DEF Ends
  <2>2. \A e \in ToSet(q.edges) : e.source \in Downstream({n}, q.edges) => e.target \in Downstream({n}, q.edges)
    BY <2>1, DownstreamIsLeast
  <2> QED BY <1>4, <2>2 DEF DeferredBy, FoldSound
<1>9. Waits(q, t)
  <2>1. ASSUME NEW m \in Awaiting \cap DOMAIN s.results
        PROVE  /\ t.results[m].answers = q.answers
               /\ q.answers = 0 => Downstream({m}, q.edges) \subseteq t.deferred
    BY <1>4, <1>5, <2>1 DEF Waits, FoldSound, DeferredBy
  <2>2. ASSUME n \in Awaiting
        PROVE  /\ t.results[n].answers = q.answers
               /\ q.answers = 0 => Downstream({n}, q.edges) \subseteq t.deferred
    BY <1>4, <1>5, <2>2 DEF Fits, DeferredBy, Defers
  <2> QED BY <1>5, <2>1, <2>2 DEF Waits
<1>10. Recorded(q, t)
  <2>1. ASSUME NEW m \in DOMAIN s.results, Caching(q, m)
        PROVE  /\ KeyOf(t.results[m]) \in DOMAIN t.records \cup DOMAIN q.manifest
               /\ m # q.selected /\ t.status[m] # "cached" => KeyOf(t.results[m]) \notin DOMAIN q.manifest
    BY <1>4, <1>5, <1>6, <2>1 DEF Recorded, FoldSound
  <2>2. ASSUME Caching(q, n)
        PROVE  /\ KeyOf(t.results[n]) \in DOMAIN t.records \cup DOMAIN q.manifest
               /\ n # q.selected /\ t.status[n] # "cached" => KeyOf(t.results[n]) \notin DOMAIN q.manifest
    BY <1>4, <1>5, <1>6, <2>2
  <2> QED BY <1>5, <2>1, <2>2 DEF Recorded
<1>11. /\ DOMAIN t.results \subseteq Past(PlanOf(q), k + 1) /\ DOMAIN t.results \subseteq DOMAIN t.status
       /\ t.ended = "succeeded" => Past(PlanOf(q), k + 1) \subseteq DOMAIN t.results \cup t.deferred
  BY <1>2, <1>4, <1>5, <1>6 DEF FoldSound, DeferredBy
<1>12. FoldSound(q, t, k + 1)
  BY <1>4, <1>7, <1>8, <1>9, <1>10, <1>11 DEF FoldSound
<1> QED BY <1>1, <1>12

\* What the branches of ExecuteNode return.
Passed(s, n, status, ended) ==
  [results |-> s.results, status |-> With(s.status, n, status), records |-> s.records,
   deferred |-> s.deferred, ended |-> ended]

Added(q, s, n, v, status, records) ==
  [results |-> With(s.results, n, v), status |-> With(s.status, n, status),
   records |-> records, deferred |-> DeferredBy(q, s, n), ended |-> s.ended]

LEMMA Shapes ==
  ASSUME NEW q, NEW s, NEW n,
         s = [results |-> s.results, status |-> s.status, records |-> s.records,
              deferred |-> s.deferred, ended |-> s.ended]
  PROVE  /\ \A status : Mark(s, n, status) = Passed(s, n, status, s.ended)
         /\ \A status, ended : [Mark(s, n, status) EXCEPT !.ended = ended] = Passed(s, n, status, ended)
         /\ \A v, status : Keep(s, n, v, status, q) = Added(q, s, n, v, status, s.records)
         /\ \A v : Store(q, s, n, v) =
              Added(q, s, n, v, "succeeded",
                    IF Caching(q, n) THEN With(s.records, KeyFor(q, s, n), v) ELSE s.records)
<1>1. ASSUME NEW st
      PROVE  Mark(s, n, st) = Passed(s, n, st, s.ended)
  <2>1. PICK r, u, c, d, e : s = [results |-> r, status |-> u, records |-> c, deferred |-> d, ended |-> e]
    OBVIOUS
  <2>2. s.results = r /\ s.status = u /\ s.records = c /\ s.deferred = d /\ s.ended = e
    BY <2>1
  <2>3. PICK w : w = With(u, n, st)
    OBVIOUS
  <2>4. [s EXCEPT !.status = With(s.status, n, st)] =
          [results |-> r, status |-> w, records |-> c, deferred |-> d, ended |-> e]
    BY <2>1, <2>2, <2>3
  <2> QED BY <2>2, <2>3, <2>4 DEF Mark, Passed
<1>2. ASSUME NEW st, NEW ended
      PROVE  [Mark(s, n, st) EXCEPT !.ended = ended] = Passed(s, n, st, ended)
  BY <1>1 DEF Passed
<1>3. ASSUME NEW v, NEW st
      PROVE  Keep(s, n, v, st, q) = Added(q, s, n, v, st, s.records)
  BY DEF Keep, DeferredBy, Added
<1>4. ASSUME NEW v
      PROVE  Store(q, s, n, v) =
               Added(q, s, n, v, "succeeded",
                     IF Caching(q, n) THEN With(s.records, KeyFor(q, s, n), v) ELSE s.records)
  <2>1. PICK m : m = Keep(s, n, v, "succeeded", q)
    OBVIOUS
  <2>2. /\ m = [results |-> With(s.results, n, v), status |-> With(s.status, n, "succeeded"),
                records |-> s.records, deferred |-> DeferredBy(q, s, n), ended |-> s.ended]
        /\ m.records = s.records
    BY <1>3, <2>1 DEF Added
  <2>3. PICK c : c = IF Caching(q, n) THEN With(s.records, KeyFor(q, s, n), v) ELSE s.records
    OBVIOUS
  <2>4. Store(q, s, n, v) = [m EXCEPT !.records = c]
    BY <2>1, <2>2, <2>3 DEF Store
  <2>5. [m EXCEPT !.records = c] =
          [results |-> With(s.results, n, v), status |-> With(s.status, n, "succeeded"),
           records |-> c, deferred |-> DeferredBy(q, s, n), ended |-> s.ended]
    BY <2>2
  <2> QED BY <2>3, <2>4, <2>5 DEF Added
<1> QED BY <1>1, <1>2, <1>3, <1>4

\* The results at hand of the sources of a node are what it receives.
Taken(n, edges, results) == {results[x] : x \in SourcesOf(n, edges) \cap DOMAIN results}

LEMMA ReceivedTaken ==
  ASSUME NEW E, NEW edges \in Seq(E), NEW n, NEW results
  PROVE  ToSet(Received(n, edges, results)) = Taken(n, edges, results)
BY ReceivedResults DEF Taken

\* What a node computes from the results at hand fits them.
LEMMA ComputedFits ==
  ASSUME NEW q, NEW k, NEW n, Turn(q, k, n), NEW s, FoldSound(q, s, k),
         s.ended = "succeeded", n \notin s.deferred, Readable(n, q.graph, s.results)
  PROVE  Fits(q, s, n, Computed(n, q.graph, q.edges, s.results, q.answers))
<1> DEFINE Ends == [source : Nodes, target : Nodes]
<1>1. q.edges \in Seq(Ends)
  BY AcceptedPlan DEF ChildSound, Turn
<1>2. SourcesOf(n, q.graph.edges) \subseteq DOMAIN s.results /\ SourcesOf(n, q.edges) = SourcesOf(n, q.graph.edges)
  BY AnsweredAbove, NextNode
<1> HIDE DEF Ends
<1>3. ToSet(Received(n, q.edges, s.results)) = {s.results[x] : x \in SourcesOf(n, q.edges) \cap DOMAIN s.results}
  BY <1>1, ReceivedTaken DEF Taken
<1>4. ToSet(Received(n, q.edges, s.results)) = {s.results[x] : x \in SourcesOf(n, q.graph.edges)}
  BY <1>2, <1>3
<1> QED BY <1>4 DEF Fits, Computed

\* And so does what the manifest serves.
LEMMA ServedFits ==
  ASSUME NEW q, NEW k, NEW n, Turn(q, k, n), NEW s, FoldSound(q, s, k),
         s.ended = "succeeded", n \notin s.deferred, Readable(n, q.graph, s.results),
         Served(q, s, n)
  PROVE  Fits(q, s, n, q.manifest[KeyFor(q, s, n)]) /\ KeyFor(q, s, n) \in DOMAIN q.manifest
<1>1. PICK v : v = q.manifest[KeyFor(q, s, n)]
  OBVIOUS
<1>2. KeyFor(q, s, n) = KeyOf(v) /\ KeyFor(q, s, n) \in DOMAIN q.manifest
  BY <1>1 DEF Served, Turn, ChildSound, Entries
<1>3. /\ v.n = n /\ v.setting = q.graph.setting[n] /\ v.read = ReadBy(n, q.graph, s.results)
      /\ {<<u.n, u>> : u \in ToSet(v.inputs)} = Refs(n, q.edges, s.results)
  BY <1>2 DEF KeyFor, KeyOf, Key
<1>4. SourcesOf(n, q.graph.edges) \subseteq DOMAIN s.results /\ SourcesOf(n, q.edges) = SourcesOf(n, q.graph.edges)
  BY AnsweredAbove, NextNode
<1>5. Refs(n, q.edges, s.results) = {<<x, s.results[x]>> : x \in SourcesOf(n, q.graph.edges)}
  BY <1>4 DEF Refs, SourcesOf
<1>6. ToSet(v.inputs) = {s.results[x] : x \in SourcesOf(n, q.graph.edges)}
  <2>1. ASSUME NEW u \in ToSet(v.inputs)
        PROVE  u \in {s.results[x] : x \in SourcesOf(n, q.graph.edges)}
    <3>1. <<u.n, u>> \in {<<x, s.results[x]>> : x \in SourcesOf(n, q.graph.edges)}
      BY <1>3, <1>5, <2>1
    <3> QED BY <3>1
  <2>2. ASSUME NEW x \in SourcesOf(n, q.graph.edges)
        PROVE  s.results[x] \in ToSet(v.inputs)
    <3>1. <<x, s.results[x]>> \in {<<u.n, u>> : u \in ToSet(v.inputs)}
      BY <1>3, <1>5, <2>2
    <3> QED BY <3>1
  <2> QED BY <2>1, <2>2
<1>7. n \notin Awaiting
  BY AwaitingAssumption DEF Served, Caching
<1> QED BY <1>1, <1>2, <1>3, <1>6, <1>7 DEF Fits

\* One node of the plan.
LEMMA NodeExecuted ==
  ASSUME NEW q, NEW k, NEW n, Turn(q, k, n), NEW s, FoldSound(q, s, k)
  PROVE  FoldSound(q, ExecuteNode(q, s, n), k + 1)
<1> DEFINE value == Computed(n, q.graph, q.edges, s.results, q.answers)
           key == KeyFor(q, s, n)
<1>1. /\ s = [results |-> s.results, status |-> s.status, records |-> s.records,
               deferred |-> s.deferred, ended |-> s.ended]
      /\ s.ended \in {"succeeded", "failed", "cancelled"} /\ Entries(s.records)
  BY DEF FoldSound
<1>2. /\ \A status : Mark(s, n, status) = Passed(s, n, status, s.ended)
      /\ \A status, ended : [Mark(s, n, status) EXCEPT !.ended = ended] = Passed(s, n, status, ended)
      /\ \A v, status : Keep(s, n, v, status, q) = Added(q, s, n, v, status, s.records)
      /\ \A v : Store(q, s, n, v) =
           Added(q, s, n, v, "succeeded",
                 IF Caching(q, n) THEN With(s.records, KeyFor(q, s, n), v) ELSE s.records)
  BY <1>1, Shapes
<1>3. ASSUME NEW status, NEW end \in {"failed", "cancelled"}
      PROVE  FoldSound(q, Passed(s, n, status, end), k + 1)
  BY PassedOver DEF Passed
<1>4. CASE s.ended # "succeeded" \/ n \in s.deferred
  <2>1. ExecuteNode(q, s, n) = Passed(s, n, "skipped", s.ended)
    <3> HIDE DEF value, key
    <3> QED BY <1>2, <1>4 DEF ExecuteNode
  <2>2. FoldSound(q, Passed(s, n, "skipped", s.ended), k + 1)
    BY <1>1, <1>4, PassedOver DEF Passed
  <2> QED BY <2>1, <2>2
<1>5. ASSUME s.ended = "succeeded", n \notin s.deferred, q.stop = n /\ q.how = "cancelled"
      PROVE  FoldSound(q, ExecuteNode(q, s, n), k + 1)
  <2>1. ExecuteNode(q, s, n) = Passed(s, n, "cancelled", "cancelled")
    <3> HIDE DEF value, key
    <3> QED BY <1>2, <1>5 DEF ExecuteNode
  <2> QED BY <1>3, <2>1
<1>6. ASSUME s.ended = "succeeded", n \notin s.deferred, ~(q.stop = n /\ q.how = "cancelled"),
             ~Readable(n, q.graph, s.results)
      PROVE  FoldSound(q, ExecuteNode(q, s, n), k + 1)
  <2>1. ExecuteNode(q, s, n) = Passed(s, n, "failed", "failed")
    <3> HIDE DEF value, key
    <3> QED BY <1>2, <1>6 DEF ExecuteNode
  <2> QED BY <1>3, <2>1
<1>7. ASSUME s.ended = "succeeded", n \notin s.deferred, ~(q.stop = n /\ q.how = "cancelled"),
             Readable(n, q.graph, s.results), Served(q, s, n)
      PROVE  FoldSound(q, ExecuteNode(q, s, n), k + 1)
  <2>1. ExecuteNode(q, s, n) = Added(q, s, n, q.manifest[key], "cached", s.records)
    <3> HIDE DEF value
    <3> QED BY <1>2, <1>7 DEF ExecuteNode
  <2>2. Fits(q, s, n, q.manifest[key]) /\ key \in DOMAIN q.manifest
    BY <1>7, ServedFits
  <2>3. KeyOf(q.manifest[key]) = key
    BY <1>7, <2>2, FittingKey
  <2>4. PICK v : v = q.manifest[key]
    OBVIOUS
  <2> HIDE DEF key
  <2>5. FoldSound(q, Added(q, s, n, v, "cached", s.records), k + 1)
    BY <1>1, <1>7, <2>2, <2>3, <2>4, ResultAdded DEF Added
  <2> QED BY <2>1, <2>4, <2>5
<1>8. ASSUME s.ended = "succeeded", n \notin s.deferred, ~(q.stop = n /\ q.how = "cancelled"),
             Readable(n, q.graph, s.results), ~Served(q, s, n), q.stop = n
      PROVE  FoldSound(q, ExecuteNode(q, s, n), k + 1)
  <2>1. ExecuteNode(q, s, n) = Passed(s, n, "failed", "failed")
    <3> HIDE DEF value, key
    <3> QED BY <1>2, <1>8 DEF ExecuteNode
  <2> QED BY <1>3, <2>1
<1>9. ASSUME s.ended = "succeeded", n \notin s.deferred, Readable(n, q.graph, s.results),
             ~Served(q, s, n), q.stop # n
      PROVE  FoldSound(q, ExecuteNode(q, s, n), k + 1)
  <2>1. ExecuteNode(q, s, n) = Store(q, s, n, value)
    <3> HIDE DEF key
    <3> QED BY <1>9 DEF ExecuteNode
  <2>2. Fits(q, s, n, value)
    BY <1>9, ComputedFits
  <2>3. KeyOf(value) = key
    BY <1>9, <2>2, FittingKey
  <2>4. Caching(q, n) /\ n # q.selected => key \notin DOMAIN q.manifest
    BY <1>9 DEF Served
  <2>5. PICK v : v = value
    OBVIOUS
  <2>6. PICK records : records = IF Caching(q, n) THEN With(s.records, key, v) ELSE s.records
    OBVIOUS
  <2> HIDE DEF key, value
  <2>7. /\ Entries(records) /\ DOMAIN s.records \subseteq DOMAIN records
        /\ Caching(q, n) => key \in DOMAIN records
    BY <1>1, <2>3, <2>5, <2>6 DEF With, Entries
  <2>8. FoldSound(q, Added(q, s, n, v, "succeeded", records), k + 1)
    BY <1>9, <2>2, <2>3, <2>4, <2>5, <2>7, ResultAdded DEF Added
  <2> QED BY <1>2, <2>1, <2>5, <2>6, <2>8 DEF key, value
<1> QED BY <1>1, <1>4, <1>5, <1>6, <1>7, <1>8, <1>9

\* What the child knows after each node satisfies its equation.
LEMMA ExecutedUnfolds ==
  ASSUME NEW q, NEW plan \in Seq(Nodes)
  PROVE  /\ Executed(q, plan)[0] = Started
         /\ \A k \in 1..Len(plan) : Executed(q, plan)[k] = ExecuteNode(q, Executed(q, plan)[k - 1], plan[k])
<1> DEFINE H(v, k) == ExecuteNode(q, v, plan[k])
           F(f, m) == f = [k \in 0..m |-> IF k = 0 THEN Started ELSE H(f[k - 1], k)]
           P == {m \in 0..Len(plan) : \E f : F(f, m)}
<1> HIDE DEF H
<1>1. F([k \in 0..0 |-> Started], 0)
  OBVIOUS
<1>2. ASSUME NEW k \in 0..(Len(plan) - 1), NEW f, F(f, k)
      PROVE  F([i \in 0..(k + 1) |-> IF i = k + 1 THEN H(f[k], k + 1) ELSE f[i]], k + 1)
  BY <1>2
<1>3. (\E f : F(f, 0)) /\ \A k \in 0..(Len(plan) - 1) : (\E f : F(f, k)) => (\E f : F(f, k + 1))
  <2> HIDE DEF F
  <2> QED BY <1>1, <1>2, Zenon
<1>4. Len(plan) \in P
  <2>1. 0 \in P
    <3> HIDE DEF F
    <3> QED BY <1>3
  <2>2. ASSUME NEW k \in 0..(Len(plan) - 1), k \in P
        PROVE  k + 1 \in P
    <3>1. k + 1 \in 0..Len(plan)
      OBVIOUS
    <3> HIDE DEF F
    <3> QED BY <1>3, <2>2, <3>1
  <2> HIDE DEF P
  <2>3. 0..Len(plan) \subseteq P
    BY <2>1, <2>2, Walks!Climb
  <2> QED BY <2>3
<1>5. \E f : F(f, Len(plan))
  BY <1>4
<1>6. F(Executed(q, plan), Len(plan))
  BY <1>5 DEF Executed, H
<1>7. /\ Executed(q, plan)[0] = Started
      /\ \A k \in 1..Len(plan) : Executed(q, plan)[k] = H(Executed(q, plan)[k - 1], k)
  BY <1>6
<1> QED BY <1>7 DEF H

\* The whole plan: what a child reports.
LEMMA ExecuteSound ==
  ASSUME NEW q, ChildSound(q)
  PROVE  FoldSound(q, Execute(q), Len(PlanOf(q)))
<1> DEFINE N == Len(PlanOf(q))
           G == {k \in 0..N : FoldSound(q, Executed(q, PlanOf(q))[k], k)}
<1>1. PlanOf(q) \in Seq(Nodes) /\ N \in Nat
  BY AcceptedPlan DEF ChildSound
<1>2. 0 \in G
  BY <1>1, StartedSound, ExecutedUnfolds
<1>3. ASSUME NEW k \in 0..(N - 1), k \in G
      PROVE  k + 1 \in G
  <2>1. PICK n : n = PlanOf(q)[k + 1]
    OBVIOUS
  <2>2. Turn(q, k, n)
    BY <2>1 DEF Turn
  <2>3. k + 1 \in 1..N /\ (k + 1) - 1 = k
    BY <1>1
  <2>4. PICK s : s = Executed(q, PlanOf(q))[k]
    OBVIOUS
  <2>5. Executed(q, PlanOf(q))[k + 1] = ExecuteNode(q, s, n)
    BY <1>1, <2>1, <2>3, <2>4, ExecutedUnfolds
  <2>6. FoldSound(q, s, k)
    BY <1>3, <2>4
  <2>7. FoldSound(q, ExecuteNode(q, s, n), k + 1)
    BY <2>2, <2>6, NodeExecuted
  <2> QED BY <2>3, <2>5, <2>7
<1> HIDE DEF G
<1>4. 0..N \subseteq G
  BY <1>1, <1>2, <1>3, Walks!Climb
<1> QED BY <1>1, <1>4 DEF G, Execute

-----------------------------------------------------------------------------
(* The results of a run over those of its base *)

\* What a run has computed, and a run it may be laid over.
Layers(g, executed, done, base) ==
  /\ g \in Graphs /\ View(g, done.results) /\ DOMAIN done.results \subseteq executed
  /\ DOMAIN done.results \subseteq DOMAIN done.status
  /\ base.graph \in Graphs /\ View(base.graph, base.results)
  /\ DOMAIN base.results \subseteq DOMAIN base.status

\* The nodes of the base that nothing changed above.
Steady(g, executed, done, base) ==
  {x \in DOMAIN base.results : LET C == Changed(executed, g, done.results, base)
                               IN x \notin C /\ x \notin Downstream(C, g.edges)}

\* Each of them is shown as it was, and is still computed from the same sources.
LEMMA SteadyNodes ==
  ASSUME NEW g, NEW executed, NEW done, NEW base, Layers(g, executed, done, base),
         NEW x \in Steady(g, executed, done, base)
  PROVE  /\ x \in DOMAIN Merged(g, executed, done, base).results
         /\ Merged(g, executed, done, base).results[x] = base.results[x]
         /\ g.setting[x] = base.graph.setting[x] /\ g.reads[x] = base.graph.reads[x]
         /\ SourcesOf(x, g.edges) = SourcesOf(x, base.graph.edges)
         /\ SourcesOf(x, g.edges) \subseteq Steady(g, executed, done, base)
<1> DEFINE C == Changed(executed, g, done.results, base)
           D == Downstream(C, g.edges)
           gone == Invalidated(executed, C, g)
           kept == (Nodes \ executed) \ gone
           M == Merged(g, executed, done, base)
           Ends == [source : Nodes, target : Nodes]
<1>1. x \in DOMAIN base.results /\ x \notin C /\ x \notin D /\ x \in Nodes
  BY DEF Steady, Layers, View
<1>2. Signature(x, g) = Signature(x, base.graph)
  BY <1>1 DEF Changed
<1>3. g.setting[x] = base.graph.setting[x] /\ g.reads[x] = base.graph.reads[x]
      /\ SourcesOf(x, g.edges) = SourcesOf(x, base.graph.edges)
  BY <1>2 DEF Signature
<1>4. x \in executed => x \in DOMAIN done.results /\ done.results[x] = base.results[x]
  BY <1>1, <1>2 DEF Changed, ResultChanged, Get
<1>5. M.results = Over(done.results, Restrict(base.results, kept \cap DOMAIN base.results))
  BY DEF Merged
<1>6. x \in DOMAIN M.results /\ M.results[x] = base.results[x]
  <2>1. CASE x \in executed
    <3>1. PICK f : M.results = Over(done.results, f)
      BY <1>5
    <3> HIDE DEF M, kept, C, D
    <3> QED BY <1>4, <2>1, <3>1 DEF Over
  <2>2. CASE x \notin executed
    <3>1. x \in kept \cap DOMAIN base.results
      BY <1>1, <2>2 DEF Invalidated, Descendants
    <3>2. x \notin DOMAIN done.results
      BY <2>2 DEF Layers
    <3> HIDE DEF M, kept, C, D
    <3>3. PICK f : f = Restrict(base.results, kept \cap DOMAIN base.results)
      OBVIOUS
    <3>4. x \in DOMAIN f /\ f[x] = base.results[x]
      BY <3>1, <3>3 DEF Restrict
    <3>5. M.results = Over(done.results, f)
      BY <1>5, <3>3
    <3> QED BY <3>2, <3>4, <3>5 DEF Over
  <2> QED BY <2>1, <2>2
<1>7. SourcesOf(x, g.edges) \subseteq Steady(g, executed, done, base)
  <2>1. SourcesOf(x, g.edges) \subseteq DOMAIN base.results
    BY <1>1, <1>3 DEF Layers, View, FromSources
  <2>2. g.edges \in Seq(Ends)
    BY Lists DEF Layers
  <2> HIDE DEF C, Ends
  <2>3. \A e \in ToSet(g.edges) : e.source \in C \cup D => e.target \in D
    BY <2>2, DownstreamIsLeast
  <2>4. \A y \in SourcesOf(x, g.edges) : y \notin C /\ y \notin D
    BY <1>1, <2>3 DEF SourcesOf
  <2> QED BY <2>1, <2>4 DEF Steady, C
<1> QED BY <1>3, <1>6, <1>7

\* The merged results are a view of the new graph.
LEMMA MergedView ==
  ASSUME NEW g, NEW executed, NEW done, NEW base, Layers(g, executed, done, base)
  PROVE  /\ View(g, Merged(g, executed, done, base).results)
         /\ DOMAIN Merged(g, executed, done, base).results \subseteq DOMAIN Merged(g, executed, done, base).status
<1> DEFINE C == Changed(executed, g, done.results, base)
           gone == Invalidated(executed, C, g)
           kept == (Nodes \ executed) \ gone
           Ends == [source : Nodes, target : Nodes]
<1>1. PICK S : S = Steady(g, executed, done, base)
  OBVIOUS
<1>2. PICK M : M = Merged(g, executed, done, base)
  OBVIOUS
<1>3. PICK f, h : /\ f = Restrict(base.results, kept \cap DOMAIN base.results)
                  /\ h = Restrict(base.status, kept \cap DOMAIN base.status)
  OBVIOUS
<1>4. M.results = Over(done.results, f) /\ M.status = Over(done.status, h)
  BY <1>2, <1>3 DEF Merged
<1>5. DOMAIN f = kept \cap DOMAIN base.results /\ DOMAIN h = kept \cap DOMAIN base.status
  BY <1>3 DEF Restrict
<1>6. DOMAIN f \subseteq S
  <2>1. \A n \in kept : n \notin C /\ n \notin Downstream(C, g.edges)
    BY DEF Invalidated, Descendants
  <2> HIDE DEF kept
  <2> QED BY <1>1, <1>5, <2>1 DEF Steady
<1> HIDE DEF kept
<1>7. g \in Graphs /\ base.graph \in Graphs /\ g.edges \in Seq(Ends) /\ base.graph.edges \in Seq(Ends)
  BY Lists DEF Layers
<1> HIDE DEF Ends
<1>8. /\ View(g, done.results) /\ View(base.graph, base.results)
      /\ DOMAIN done.results \subseteq DOMAIN done.status /\ DOMAIN base.results \subseteq DOMAIN base.status
  BY DEF Layers
<1>9. /\ DOMAIN M.results = DOMAIN done.results \cup DOMAIN f /\ DOMAIN M.status = DOMAIN done.status \cup DOMAIN h
      /\ \A n \in DOMAIN done.results : M.results[n] = done.results[n]
  BY <1>4 DEF Over
<1>10. \A x \in S : /\ x \in DOMAIN M.results /\ M.results[x] = base.results[x]
                    /\ g.setting[x] = base.graph.setting[x] /\ g.reads[x] = base.graph.reads[x]
                    /\ SourcesOf(x, g.edges) = SourcesOf(x, base.graph.edges)
                    /\ SourcesOf(x, g.edges) \subseteq S
  BY <1>1, <1>2, SteadyNodes
<1>11. S \subseteq DOMAIN base.results /\ DOMAIN base.results \subseteq Nodes
  BY <1>1, <1>8 DEF Steady, View
<1>12. DOMAIN M.results \subseteq DOMAIN M.status
  BY <1>5, <1>8, <1>9
<1>13. DOMAIN M.results \subseteq Nodes
  BY <1>6, <1>8, <1>9, <1>11 DEF View
<1>14. ASSUME NEW n \in DOMAIN done.results
       PROVE  /\ FromSources(n, g, M.results)
              /\ g.reads[n] \in UpstreamClosure(n, g.edges) => FromReference(n, g, M.results)
              /\ \A t \in (Awaiting \ {n}) \cap UpstreamClosure(n, g.edges) :
                   t \in DOMAIN M.results /\ M.results[t].answers > 0
  <2>1. /\ FromSources(n, g, done.results)
        /\ g.reads[n] \in UpstreamClosure(n, g.edges) => FromReference(n, g, done.results)
        /\ \A t \in (Awaiting \ {n}) \cap UpstreamClosure(n, g.edges) :
             t \in DOMAIN done.results /\ done.results[t].answers > 0
    BY <1>8 DEF View
  <2>2. UpstreamClosure(n, g.edges) \subseteq DOMAIN done.results
    BY <1>7, <1>8, ViewUpstream
  <2>3. FromSources(n, g, M.results)
    BY <1>9, <2>1 DEF FromSources
  <2>4. g.reads[n] \in UpstreamClosure(n, g.edges) => FromReference(n, g, M.results)
    BY <1>9, <2>1, <2>2 DEF FromReference, Get
  <2> QED BY <1>9, <2>1, <2>3, <2>4
<1>15. ASSUME NEW n \in S
       PROVE  /\ FromSources(n, g, M.results)
              /\ g.reads[n] \in UpstreamClosure(n, g.edges) => FromReference(n, g, M.results)
              /\ \A t \in (Awaiting \ {n}) \cap UpstreamClosure(n, g.edges) :
                   t \in DOMAIN M.results /\ M.results[t].answers > 0
  <2>1. /\ FromSources(n, base.graph, base.results)
        /\ base.graph.reads[n] \in UpstreamClosure(n, base.graph.edges) => FromReference(n, base.graph, base.results)
        /\ \A t \in (Awaiting \ {n}) \cap UpstreamClosure(n, base.graph.edges) :
             t \in DOMAIN base.results /\ base.results[t].answers > 0
    BY <1>8, <1>11, <1>15 DEF View
  <2>2. FromSources(n, g, M.results)
    BY <1>10, <1>15, <2>1 DEF FromSources
  <2>3. UpstreamClosure(n, g.edges) \subseteq S \cap UpstreamClosure(n, base.graph.edges)
    <3>1. PICK T : T = S \cap UpstreamClosure(n, base.graph.edges)
      OBVIOUS
    <3>2. /\ n \in UpstreamClosure(n, base.graph.edges)
          /\ \A e \in ToSet(base.graph.edges) : e.target \in UpstreamClosure(n, base.graph.edges)
                                               => e.source \in UpstreamClosure(n, base.graph.edges)
      BY <1>7, UpstreamIsLeast
    <3>3. ASSUME NEW e \in ToSet(g.edges), e.target \in T
          PROVE  e.source \in T
      <4>1. e.source \in SourcesOf(e.target, g.edges)
        BY DEF SourcesOf
      <4>2. e.source \in S /\ e.source \in SourcesOf(e.target, base.graph.edges)
        BY <1>10, <3>1, <3>3, <4>1
      <4>3. PICK d \in ToSet(base.graph.edges) : d.target = e.target /\ d.source = e.source
        BY <4>2 DEF SourcesOf
      <4> QED BY <3>1, <3>2, <3>3, <4>2, <4>3
    <3>4. n \in T
      BY <1>15, <3>1, <3>2
    <3>5. UpstreamClosure(n, g.edges) \subseteq T
      BY <1>7, <3>3, <3>4, UpstreamIsLeast
    <3> QED BY <3>1, <3>5
  <2>4. g.reads[n] \in UpstreamClosure(n, g.edges) => FromReference(n, g, M.results)
    BY <1>10, <1>11, <1>15, <2>1, <2>3 DEF FromReference, Get
  <2>5. \A t \in (Awaiting \ {n}) \cap UpstreamClosure(n, g.edges) :
          t \in DOMAIN M.results /\ M.results[t].answers > 0
    BY <1>10, <2>1, <2>3
  <2> QED BY <2>2, <2>4, <2>5
<1>16. View(g, M.results)
  BY <1>6, <1>9, <1>13, <1>14, <1>15 DEF View
<1> QED BY <1>2, <1>12, <1>16

\* Of the nodes it executes a run shows its own results.
LEMMA MergedOwn ==
  ASSUME NEW g, NEW executed, NEW done, NEW base, Layers(g, executed, done, base),
         NEW n \in executed, n \in DOMAIN Merged(g, executed, done, base).results
  PROVE  /\ n \in DOMAIN done.results
         /\ Merged(g, executed, done, base).results[n] = done.results[n]
         /\ Merged(g, executed, done, base).status[n] = done.status[n]
<1> DEFINE gone == Invalidated(executed, Changed(executed, g, done.results, base), g)
           kept == (Nodes \ executed) \ gone
<1>1. PICK M : M = Merged(g, executed, done, base)
  OBVIOUS
<1>2. PICK f, h : /\ f = Restrict(base.results, kept \cap DOMAIN base.results)
                  /\ h = Restrict(base.status, kept \cap DOMAIN base.status)
  OBVIOUS
<1>3. M.results = Over(done.results, f) /\ M.status = Over(done.status, h)
  BY <1>1, <1>2 DEF Merged
<1>4. n \notin DOMAIN f
  BY <1>2 DEF Restrict
<1>5. n \in DOMAIN done.results
  BY <1>1, <1>3, <1>4 DEF Over
<1>6. M.results[n] = done.results[n] /\ M.status[n] = done.status[n]
  BY <1>3, <1>5 DEF Over, Layers
<1> QED BY <1>1, <1>5, <1>6

-----------------------------------------------------------------------------
(* The inductive invariant *)

\* Run s has left the result it shows for node n in the cache.
Left(s, n) ==
  /\ run[s].at = "succeeded" /\ run[s].enabled
  /\ n \in run[s].executed /\ n \in DOMAIN run[s].results /\ n \notin Uncached

\* Of what the runs had left before a moment, every key is one of keys, and a
\* value of node n is another than v.
Known(keys, seen) ==
  \A s \in Runs : \A n \in Nodes :
    Left(s, n) /\ run[s].finished < seen => KeyOf(run[s].results[n]) \in keys

Novel(n, v, seen) ==
  \A s \in Runs : Left(s, n) /\ run[s].finished < seen => run[s].results[n] # v

\* What a run that is prepared may rely on.
RunningSound(q) ==
  /\ Entries(q.manifest) /\ q.answers \in Nat /\ q.seen \in Nat /\ q.seen <= clock
  /\ expiries = 0 /\ q.enabled =>
       DOMAIN q.manifest \subseteq DOMAIN cache /\ Known(DOMAIN q.manifest, q.seen)

\* What its child reports, and the base it was finished with.
FinishingSound(q) ==
  /\ View(q.graph, q.done.results) /\ DOMAIN q.done.results \subseteq Whole(q)
  /\ DOMAIN q.done.results \subseteq DOMAIN q.done.status
  /\ Entries(q.done.records) /\ q.done.ended \in {"succeeded", "failed", "cancelled"}
  /\ q.seen \in Nat /\ q.seen <= clock
  /\ q.base # None => q.base \in Succeeded
  /\ \A n \in DOMAIN q.done.results : expiries = 0 /\ q.enabled /\ n \notin Uncached =>
       /\ KeyOf(q.done.results[n]) \in DOMAIN q.done.records \cup DOMAIN cache
       /\ n # q.selected /\ q.done.status[n] # "cached" => Novel(n, q.done.results[n], q.seen)

\* What it shows in the end.
SucceededSound(q) ==
  /\ View(q.graph, q.results) /\ DOMAIN q.results \subseteq DOMAIN q.status
  /\ q.executed = Whole(q) /\ q.base \in Runs \cup {None}
  /\ q.seen \in Nat /\ q.seen <= clock /\ q.finished \in Nat /\ q.finished < clock
  /\ \A n \in q.executed \cap DOMAIN q.results :
       expiries = 0 /\ q.enabled /\ n \notin Uncached /\ n # q.selected /\ q.status[n] # "cached"
       => Novel(n, q.results[n], q.seen)

RowSound(q) ==
  /\ q.at \in {"absent", "queued", "running", "finishing", "succeeded", "failed", "cancelled"}
  /\ q.at \in {"queued", "running", "finishing", "succeeded"} => Accepted(q)
  /\ q.at = "running" => RunningSound(q)
  /\ q.at = "finishing" => FinishingSound(q)
  /\ q.at = "succeeded" => SucceededSound(q)

CacheSound ==
  /\ Entries(cache)
  /\ expiries = 0 => Known(DOMAIN cache, clock)

CountsSound ==
  /\ shown \in Runs \cup {None} /\ clock \in Nat /\ clock = Cardinality(Succeeded)
  /\ answers \in 0..MaxAnswers /\ expiries \in 0..MaxExpiries

XInv ==
  /\ run = [r \in Runs |-> run[r]] /\ \A r \in Runs : RowSound(run[r])
  /\ CacheSound /\ CountsSound

\* What every step respects: successful runs stay as they are and are counted in
\* the order in which they end, and until an entry expires the cache grows.
Grows ==
  /\ \A s \in Runs : run'[s].at = "succeeded" => run'[s] = run[s] \/ run'[s].finished = clock
  /\ Succeeded \subseteq Succeeded'
  /\ clock \in Nat /\ clock' \in Nat /\ clock <= clock'
  /\ expiries' = 0 => expiries = 0 /\ DOMAIN cache \subseteq DOMAIN cache'

\* What was left before a moment of the past stays what was left before it.
LEMMA PastKept ==
  ASSUME Grows, NEW seen \in Nat, seen <= clock
  PROVE  /\ \A keys : Known(keys, seen) => Known(keys, seen)'
         /\ \A n, v : Novel(n, v, seen) => Novel(n, v, seen)'
<1>1. ASSUME NEW s \in Runs, NEW n, Left(s, n)', run'[s].finished < seen
      PROVE  Left(s, n) /\ run[s].finished < seen /\ run'[s].results = run[s].results
  <2>1. run'[s].at = "succeeded"
    BY <1>1 DEF Left
  <2>2. run'[s].finished # clock
    BY <1>1 DEF Grows
  <2>3. run'[s] = run[s]
    BY <2>1, <2>2 DEF Grows
  <2> QED BY <1>1, <2>3 DEF Left
<1>2. ASSUME NEW keys, Known(keys, seen)
      PROVE  Known(keys, seen)'
  BY <1>1, <1>2 DEF Known
<1>3. ASSUME NEW n, NEW v, Novel(n, v, seen)
      PROVE  Novel(n, v, seen)'
  BY <1>1, <1>3 DEF Novel
<1> QED BY <1>2, <1>3

\* A row that stays is as sound after the step as before.
LEMMA RowKept ==
  ASSUME Grows, NEW q, RowSound(q)
  PROVE  RowSound(q)'
<1>1. RunningSound(q) => RunningSound(q)'
  <2>1. SUFFICES ASSUME RunningSound(q) PROVE RunningSound(q)'
    OBVIOUS
  <2>2. Entries(q.manifest) /\ q.answers \in Nat /\ q.seen \in Nat /\ q.seen <= clock
    BY <2>1 DEF RunningSound
  <2>3. q.seen <= clock'
    BY <2>2 DEF Grows
  <2>4. ASSUME expiries' = 0, q.enabled
        PROVE  DOMAIN q.manifest \subseteq DOMAIN cache' /\ Known(DOMAIN q.manifest, q.seen)'
    <3>1. DOMAIN q.manifest \subseteq DOMAIN cache /\ Known(DOMAIN q.manifest, q.seen)
      BY <2>1, <2>4 DEF RunningSound, Grows
    <3>2. DOMAIN cache \subseteq DOMAIN cache'
      BY <2>4 DEF Grows
    <3> QED BY <2>2, <3>1, <3>2, PastKept
  <2> QED BY <2>2, <2>3, <2>4 DEF RunningSound
<1>2. FinishingSound(q) => FinishingSound(q)'
  <2>1. SUFFICES ASSUME FinishingSound(q) PROVE FinishingSound(q)'
    OBVIOUS
  <2>2. /\ View(q.graph, q.done.results) /\ DOMAIN q.done.results \subseteq Whole(q)
        /\ DOMAIN q.done.results \subseteq DOMAIN q.done.status
        /\ Entries(q.done.records) /\ q.done.ended \in {"succeeded", "failed", "cancelled"}
        /\ q.seen \in Nat /\ q.seen <= clock
    BY <2>1 DEF FinishingSound
  <2>3. q.seen <= clock' /\ (q.base # None => q.base \in Succeeded')
    BY <2>1, <2>2 DEF Grows, FinishingSound
  <2>4. ASSUME NEW n \in DOMAIN q.done.results, expiries' = 0, q.enabled, n \notin Uncached
        PROVE  /\ KeyOf(q.done.results[n]) \in DOMAIN q.done.records \cup DOMAIN cache'
               /\ n # q.selected /\ q.done.status[n] # "cached" => Novel(n, q.done.results[n], q.seen)'
    <3>1. /\ KeyOf(q.done.results[n]) \in DOMAIN q.done.records \cup DOMAIN cache
          /\ n # q.selected /\ q.done.status[n] # "cached" => Novel(n, q.done.results[n], q.seen)
      BY <2>1, <2>4 DEF FinishingSound, Grows
    <3>2. DOMAIN cache \subseteq DOMAIN cache'
      BY <2>4 DEF Grows
    <3> QED BY <2>2, <3>1, <3>2, PastKept
  <2> QED BY <2>2, <2>3, <2>4 DEF FinishingSound
<1>3. SucceededSound(q) => SucceededSound(q)'
  <2>1. SUFFICES ASSUME SucceededSound(q) PROVE SucceededSound(q)'
    OBVIOUS
  <2>2. /\ View(q.graph, q.results) /\ DOMAIN q.results \subseteq DOMAIN q.status
        /\ q.executed = Whole(q) /\ q.base \in Runs \cup {None}
        /\ q.seen \in Nat /\ q.seen <= clock /\ q.finished \in Nat /\ q.finished < clock
    BY <2>1 DEF SucceededSound
  <2>3. q.seen <= clock' /\ q.finished < clock'
    BY <2>2 DEF Grows
  <2>4. ASSUME NEW n \in q.executed \cap DOMAIN q.results, expiries' = 0, q.enabled, n \notin Uncached,
               n # q.selected, q.status[n] # "cached"
        PROVE  Novel(n, q.results[n], q.seen)'
    <3>1. Novel(n, q.results[n], q.seen)
      BY <2>1, <2>4 DEF SucceededSound, Grows
    <3> QED BY <2>2, <3>1, PastKept
  <2> QED BY <2>2, <2>3, <2>4 DEF SucceededSound
<1> QED BY <1>1, <1>2, <1>3 DEF RowSound

\* A step of run r, whose new row is sound.
LEMMA RunStepped ==
  ASSUME XInv, Grows, NEW r \in Runs, NEW x, run' = [run EXCEPT ![r] = x],
         RowSound(x)', CacheSound', CountsSound'
  PROVE  XInv'
<1>1. run' = [s \in Runs |-> run'[s]] /\ run'[r] = x /\ \A s \in Runs : s # r => run'[s] = run[s]
  BY DEF XInv
<1>2. ASSUME NEW s \in Runs
      PROVE  RowSound(run[s])'
  <2>1. CASE s = r
    BY <1>1, <2>1
  <2>2. CASE s # r
    <3>1. PICK q : q = run[s]
      OBVIOUS
    <3>2. RowSound(q)'
      BY <3>1, RowKept DEF XInv
    <3>3. run'[s] = q
      BY <1>1, <2>2, <3>1
    <3> QED BY <3>2, <3>3
  <2> QED BY <2>1, <2>2
<1> QED BY <1>1, <1>2 DEF XInv

\* A step of a run that does not end it leaves the successful runs, and what
\* else does not change, as they were.
LEMMA QuietStep ==
  ASSUME XInv, NEW r \in Runs, NEW x, run' = [run EXCEPT ![r] = x],
         run[r].at # "succeeded", x.at # "succeeded",
         UNCHANGED <<cache, answers, shown, clock, expiries>>, Grows => RowSound(x)'
  PROVE  XInv'
<1>1. /\ run'[r] = x /\ \A s \in Runs : s # r => run'[s] = run[s]
      /\ clock \in Nat
  BY DEF XInv, CountsSound
<1>2. Succeeded' = Succeeded
  BY <1>1 DEF Succeeded
<1>3. Grows
  BY <1>1, <1>2 DEF Grows
<1>4. CacheSound'
  <2>1. expiries = 0 => Known(DOMAIN cache, clock)'
    <3>1. ASSUME expiries = 0
          PROVE  Known(DOMAIN cache, clock)'
      <4>1. PICK keys, seen : keys = DOMAIN cache /\ seen = clock
        OBVIOUS
      <4>2. Known(keys, seen)'
        BY <1>1, <1>3, <3>1, <4>1, PastKept DEF XInv, CacheSound
      <4> QED BY <4>1, <4>2
    <3> QED BY <3>1
  <2> QED BY <2>1 DEF XInv, CacheSound
<1>5. CountsSound'
  BY <1>2 DEF XInv, CountsSound
<1> QED BY <1>3, <1>4, <1>5, RunStepped

-----------------------------------------------------------------------------
(* The actions *)

LEMMA InitSound ==
  ASSUME Init
  PROVE  XInv
<1>1. \A r \in Runs : run[r].at = "absent"
  BY DEF Init, Absent
<1>2. Succeeded = {}
  BY <1>1 DEF Succeeded
<1>3. Cardinality(Succeeded) = 0
  BY <1>2, FS_EmptySet
<1>4. \A r \in Runs : RowSound(run[r])
  BY <1>1 DEF RowSound
<1>5. DOMAIN cache = {}
  BY DEF Init, EmptyMap
<1>6. CacheSound
  BY <1>1, <1>5 DEF CacheSound, Entries, Known, Left
<1>7. CountsSound
  BY <1>3, BoundAssumption DEF Init, CountsSound
<1> QED BY <1>4, <1>6, <1>7 DEF XInv, Init

\* A run is submitted with a graph that has a plan.
LEMMA CreateSound ==
  ASSUME XInv, NEW r \in Runs, NEW g \in Graphs, NEW selected \in Selections, NEW bypass, NEW stream,
         Create(r, g, selected, bypass, stream)
  PROVE  XInv'
<1>1. PICK x : x = [at |-> "queued", graph |-> g, selected |-> selected, bypass |-> bypass, stream |-> stream]
  OBVIOUS
<1>2. /\ run' = [run EXCEPT ![r] = x] /\ run[r].at = "absent"
      /\ UNCHANGED <<cache, answers, shown, clock, expiries>>
      /\ Sortable(PlannedIds(Ids, g.edges, selected, None), PlannedEdges(Ids, g.edges, selected, None))
  BY <1>1 DEF Create
<1>3. x.at = "queued" /\ x.graph = g /\ x.selected = selected
  BY <1>1
<1>4. Accepted(x)
  BY <1>2, <1>3 DEF Accepted
<1>5. RowSound(x)'
  BY <1>3, <1>4 DEF RowSound
<1> QED BY <1>2, <1>3, <1>5, QuietStep

\* It is prepared with what the cache holds, unless it bypasses it.
LEMMA PrepareSound ==
  ASSUME XInv, NEW r \in Runs, Prepare(r)
  PROVE  XInv'
<1>1. PICK q : q = run[r]
  OBVIOUS
<1>2. PICK x : x = [at |-> "running", graph |-> q.graph, selected |-> q.selected,
                    stream |-> q.stream, enabled |-> ~q.bypass,
                    manifest |-> IF q.bypass THEN EmptyMap ELSE cache,
                    answers |-> answers, seen |-> clock]
  OBVIOUS
<1>3. /\ run' = [run EXCEPT ![r] = x] /\ q.at = "queued"
      /\ UNCHANGED <<cache, answers, shown, clock, expiries>>
  BY <1>1, <1>2 DEF Prepare
<1>4. /\ x.at = "running" /\ x.graph = q.graph /\ x.selected = q.selected /\ x.answers = answers /\ x.seen = clock
      /\ x.enabled = ~q.bypass /\ x.manifest = (IF q.bypass THEN EmptyMap ELSE cache)
  BY <1>2
<1>5. Accepted(q)
  BY <1>1, <1>3 DEF XInv, RowSound
<1>6. Accepted(x)
  BY <1>4, <1>5 DEF Accepted
<1>7. /\ Entries(cache) /\ clock \in Nat /\ answers \in Nat
      /\ expiries = 0 => Known(DOMAIN cache, clock)
  BY BoundAssumption DEF XInv, CacheSound, CountsSound
<1>8. Entries(x.manifest) /\ (x.enabled => x.manifest = cache)
  <2>1. Entries(EmptyMap)
    BY DEF Entries, EmptyMap
  <2> QED BY <1>4, <1>7, <2>1
<1>9. ASSUME Grows
      PROVE  RowSound(x)'
  <2>1. PICK keys, seen : keys = DOMAIN cache /\ seen = clock
    OBVIOUS
  <2>2. expiries = 0 => Known(keys, seen)'
    BY <1>7, <1>9, <2>1, PastKept
  <2>3. RunningSound(x)'
    BY <1>3, <1>4, <1>7, <1>8, <2>1, <2>2 DEF RunningSound
  <2> QED BY <1>4, <1>6, <2>3 DEF RowSound
<1>10. run[r].at # "succeeded" /\ x.at # "succeeded"
  BY <1>1, <1>3, <1>4
<1> QED BY <1>3, <1>9, <1>10, QuietStep

\* The latest successful run of a stream exists when there is one.
LEMMA BaseSucceeded ==
  ASSUME XInv, NEW r \in Runs, Base(r) # None
  PROVE  Base(r) \in Succeeded
<1> DEFINE done == {s \in Runs \ {r} : run[s].at = "succeeded" /\ run[s].stream = run[r].stream}
           T == {run[s].finished : s \in done}
<1>1. done # {} /\ Base(r) = CHOOSE s \in done : \A t \in done : run[t].finished <= run[s].finished
  BY DEF Base
<1>2. clock \in Nat /\ \A s \in done : run[s].finished \in 0..clock
  BY DEF XInv, CountsSound, RowSound, SucceededSound
<1>3. PICK m \in T : \A k \in T : k <= m
  <2>1. T \in SUBSET (0..clock) /\ T # {}
    BY <1>1, <1>2
  <2> HIDE DEF T
  <2> QED BY <1>2, <2>1, Walks!Greatest
<1>4. \E s \in done : \A t \in done : run[t].finished <= run[s].finished
  BY <1>3
<1>5. Base(r) \in done
  <2> HIDE DEF done
  <2> QED BY <1>1, <1>4
<1> QED BY <1>5 DEF Succeeded

\* The child has executed the plan.
LEMMA FinishSound ==
  ASSUME XInv, NEW r \in Runs, NEW stop, NEW how \in {"done", "failed", "cancelled"}, Finish(r, stop, how)
  PROVE  XInv'
<1>1. PICK q : q = run[r]
  OBVIOUS
<1>2. PICK c : c = Child(q, stop, how)
  OBVIOUS
<1>3. PICK all : all = Execute(c)
  OBVIOUS
<1>4. PICK done : done = IF stop = None /\ how = "cancelled" THEN [all EXCEPT !.ended = how] ELSE all
  OBVIOUS
<1>5. PICK x : x = [at |-> "finishing", graph |-> q.graph, selected |-> q.selected,
                    stream |-> q.stream, done |-> done, base |-> Base(r),
                    enabled |-> q.enabled, seen |-> q.seen, answers |-> q.answers]
  OBVIOUS
<1>6. /\ run' = [run EXCEPT ![r] = x] /\ q.at = "running"
      /\ UNCHANGED <<cache, answers, shown, clock, expiries>>
  BY <1>1, <1>2, <1>3, <1>4, <1>5 DEF Finish
<1>7. /\ x.at = "finishing" /\ x.graph = q.graph /\ x.selected = q.selected /\ x.done = done
      /\ x.base = Base(r) /\ x.enabled = q.enabled /\ x.seen = q.seen
  BY <1>5
<1>8. /\ c.graph = q.graph /\ c.selected = q.selected /\ c.enabled = q.enabled /\ c.manifest = q.manifest
      /\ c.answers = q.answers /\ c.edges = PlannedEdges(Ids, q.graph.edges, q.selected, None)
  BY <1>2 DEF Child
<1>9. Accepted(q) /\ RunningSound(q)
  BY <1>1, <1>6 DEF XInv, RowSound
<1>10. ChildSound(c) /\ Accepted(x) /\ Whole(c) = Whole(x)
  BY <1>7, <1>8, <1>9 DEF ChildSound, Accepted, RunningSound, Whole
<1>11. FoldSound(c, all, Len(PlanOf(c)))
  BY <1>3, <1>10, ExecuteSound
<1>12. /\ all = [results |-> all.results, status |-> all.status, records |-> all.records,
                 deferred |-> all.deferred, ended |-> all.ended]
       /\ all.ended \in {"succeeded", "failed", "cancelled"}
       /\ View(q.graph, all.results) /\ DOMAIN all.results \subseteq Past(PlanOf(c), Len(PlanOf(c)))
       /\ DOMAIN all.results \subseteq DOMAIN all.status
       /\ Entries(all.records) /\ Recorded(c, all)
  BY <1>8, <1>11 DEF FoldSound
<1>13. Past(PlanOf(c), Len(PlanOf(c))) \subseteq Whole(x)
  BY <1>10, AcceptedPlan DEF ChildSound, IsOrder, Past, ToSet
<1>14. /\ done.results = all.results /\ done.status = all.status /\ done.records = all.records
       /\ done.ended \in {"succeeded", "failed", "cancelled"}
  BY <1>4, <1>12
<1>15. ASSUME NEW n \in DOMAIN done.results, expiries = 0, q.enabled, n \notin Uncached
       PROVE  /\ KeyOf(done.results[n]) \in DOMAIN done.records \cup DOMAIN cache
              /\ n # q.selected /\ done.status[n] # "cached" => Novel(n, done.results[n], q.seen)
  <2>1. Caching(c, n)
    BY <1>8, <1>15 DEF Caching
  <2>2. /\ KeyOf(done.results[n]) \in DOMAIN done.records \cup DOMAIN q.manifest
        /\ n # q.selected /\ done.status[n] # "cached" => KeyOf(done.results[n]) \notin DOMAIN q.manifest
    BY <1>8, <1>12, <1>14, <1>15, <2>1 DEF Recorded
  <2>3. DOMAIN q.manifest \subseteq DOMAIN cache /\ Known(DOMAIN q.manifest, q.seen)
    BY <1>9, <1>15 DEF RunningSound
  <2>4. n \in Nodes
    BY <1>12, <1>14, <1>15 DEF View
  <2>5. KeyOf(done.results[n]) \notin DOMAIN q.manifest => Novel(n, done.results[n], q.seen)
    BY <2>3, <2>4 DEF Known, Novel
  <2> QED BY <2>2, <2>3, <2>5
<1>16. ASSUME Grows
       PROVE  RowSound(x)'
  <2>1. x.seen \in Nat /\ x.seen <= clock
    BY <1>7, <1>9 DEF RunningSound
  <2>2. x.base # None => x.base \in Succeeded'
    BY <1>7, <1>16, BaseSucceeded DEF Grows
  <2>3. ASSUME NEW n \in DOMAIN x.done.results, expiries' = 0, x.enabled, n \notin Uncached
        PROVE  /\ KeyOf(x.done.results[n]) \in DOMAIN x.done.records \cup DOMAIN cache'
               /\ n # x.selected /\ x.done.status[n] # "cached" => Novel(n, x.done.results[n], x.seen)'
    <3>1. /\ KeyOf(x.done.results[n]) \in DOMAIN x.done.records \cup DOMAIN cache
          /\ n # x.selected /\ x.done.status[n] # "cached" => Novel(n, x.done.results[n], x.seen)
      BY <1>6, <1>7, <1>15, <2>3
    <3> QED BY <1>6, <1>16, <2>1, <3>1, PastKept
  <2>4. /\ View(x.graph, x.done.results) /\ DOMAIN x.done.results \subseteq Whole(x)
        /\ DOMAIN x.done.results \subseteq DOMAIN x.done.status
        /\ Entries(x.done.records) /\ x.done.ended \in {"succeeded", "failed", "cancelled"}
    BY <1>7, <1>12, <1>13, <1>14
  <2>5. FinishingSound(x)'
    BY <1>6, <2>1, <2>2, <2>3, <2>4 DEF FinishingSound
  <2> QED BY <1>7, <1>10, <2>5 DEF RowSound
<1>17. run[r].at # "succeeded" /\ x.at # "succeeded"
  BY <1>1, <1>6, <1>7
<1> QED BY <1>6, <1>16, <1>17, QuietStep

\* The records of a run are laid over the entries of the cache.
LEMMA StoredEntries ==
  ASSUME NEW q, Entries(q.done.records), Entries(cache)
  PROVE  Entries(Stored(q)) /\ DOMAIN Stored(q) = DOMAIN q.done.records \cup DOMAIN cache
<1> DEFINE fresh == {k \in DOMAIN q.done.records : k \notin DOMAIN cache \/ k.n = q.selected}
<1>1. PICK f : f = Restrict(q.done.records, fresh)
  OBVIOUS
<1>2. Stored(q) = Over(f, cache)
  BY <1>1 DEF Stored
<1>3. DOMAIN f = fresh /\ \A k \in fresh : f[k] = q.done.records[k]
  BY <1>1 DEF Restrict
<1>4. DOMAIN Over(f, cache) = DOMAIN q.done.records \cup DOMAIN cache
  BY <1>3 DEF Over
<1>5. Entries(Over(f, cache))
  BY <1>3 DEF Over, Entries
<1> QED BY <1>2, <1>4, <1>5

\* A run whose child did not succeed ends without results.
LEMMA FailedCommit ==
  ASSUME XInv, NEW r \in Runs, Commit(r), run[r].done.ended # "succeeded"
  PROVE  XInv'
<1>1. PICK q : q = run[r]
  OBVIOUS
<1>2. PICK x : x = [at |-> q.done.ended]
  OBVIOUS
<1>3. /\ run' = [run EXCEPT ![r] = x] /\ q.at = "finishing" /\ cache' = Stored(q)
      /\ UNCHANGED <<answers, shown, clock, expiries>>
  BY <1>1, <1>2 DEF Commit
<1>4. FinishingSound(q)
  BY <1>1, <1>3 DEF XInv, RowSound
<1>5. x.at = q.done.ended /\ x.at \in {"failed", "cancelled"}
  BY <1>1, <1>2, <1>4 DEF FinishingSound
<1>6. /\ run'[r] = x /\ \A s \in Runs : s # r => run'[s] = run[s]
      /\ clock \in Nat
  BY <1>3 DEF XInv, CountsSound
<1>7. Succeeded' = Succeeded
  BY <1>1, <1>3, <1>5, <1>6 DEF Succeeded
<1>8. Entries(cache') /\ DOMAIN cache \subseteq DOMAIN cache'
  BY <1>3, <1>4, StoredEntries DEF XInv, CacheSound, FinishingSound
<1>9. Grows
  BY <1>3, <1>5, <1>6, <1>7, <1>8 DEF Grows
<1>10. CacheSound'
  <2>1. PICK keys, seen : keys = DOMAIN cache /\ seen = clock
    OBVIOUS
  <2>2. expiries = 0 => Known(keys, seen)'
    BY <1>6, <1>9, <2>1, PastKept DEF XInv, CacheSound
  <2>3. expiries' = 0 => Known(DOMAIN cache, clock)'
    BY <1>3, <1>8, <2>1, <2>2 DEF Known
  <2> QED BY <1>8, <2>3 DEF CacheSound
<1>11. CountsSound'
  BY <1>3, <1>7 DEF XInv, CountsSound
<1>12. RowSound(x)'
  BY <1>5 DEF RowSound
<1> QED BY <1>3, <1>9, <1>10, <1>11, <1>12, RunStepped

\* What a successful run shows, given what it computed and its base.
LEMMA UnderSound ==
  ASSUME XInv, NEW q, Accepted(q), FinishingSound(q), NEW executed, executed = Whole(q), NEW under,
         under = (IF q.base = None THEN [results |-> q.done.results, status |-> q.done.status]
                  ELSE Merged(q.graph, executed, q.done, run[q.base]))
  PROVE  /\ View(q.graph, under.results) /\ DOMAIN under.results \subseteq DOMAIN under.status
         /\ q.base \in Runs \cup {None}
         /\ \A n \in executed \cap DOMAIN under.results :
              /\ n \in DOMAIN q.done.results
              /\ under.results[n] = q.done.results[n] /\ under.status[n] = q.done.status[n]
<1>1. CASE q.base = None
  <2>1. under.results = q.done.results /\ under.status = q.done.status
    BY <1>1
  <2> QED BY <1>1, <2>1 DEF FinishingSound
<1>2. CASE q.base # None
  <2>1. PICK base : base = run[q.base]
    OBVIOUS
  <2>2. q.base \in Runs /\ base.at = "succeeded"
    BY <1>2, <2>1 DEF FinishingSound, Succeeded
  <2>3. Accepted(base) /\ SucceededSound(base)
    BY <2>1, <2>2 DEF XInv, RowSound
  <2>4. Layers(q.graph, executed, q.done, base)
    BY <2>3 DEF Layers, Accepted, FinishingSound, SucceededSound
  <2>5. under = Merged(q.graph, executed, q.done, base)
    BY <1>2, <2>1
  <2>6. View(q.graph, under.results) /\ DOMAIN under.results \subseteq DOMAIN under.status
    BY <2>4, <2>5, MergedView
  <2>7. ASSUME NEW n \in executed, n \in DOMAIN under.results
        PROVE  /\ n \in DOMAIN q.done.results
               /\ under.results[n] = q.done.results[n] /\ under.status[n] = q.done.status[n]
    BY <2>4, <2>5, <2>7, MergedOwn
  <2> QED BY <2>2, <2>6, <2>7
<1> QED BY <1>1, <1>2

\* A successful run is shown, and counted.
LEMMA SuccessfulCommit ==
  ASSUME XInv, NEW r \in Runs, Commit(r), run[r].done.ended = "succeeded"
  PROVE  XInv'
<1>1. PICK q : q = run[r]
  OBVIOUS
<1>2. PICK executed : executed = ToSet(Plan(Ids, q.graph.edges, q.selected, None))
  OBVIOUS
<1>3. PICK under : under = IF q.base = None THEN [results |-> q.done.results, status |-> q.done.status]
                           ELSE Merged(q.graph, executed, q.done, run[q.base])
  OBVIOUS
<1>4. PICK x : x = [at |-> "succeeded", graph |-> q.graph, stream |-> q.stream,
                    selected |-> q.selected, enabled |-> q.enabled, seen |-> q.seen,
                    executed |-> executed, results |-> under.results,
                    status |-> under.status, base |-> q.base,
                    answers |-> q.answers, finished |-> clock]
  OBVIOUS
<1>5. /\ run' = [run EXCEPT ![r] = x] /\ q.at = "finishing" /\ cache' = Stored(q)
      /\ shown' = r /\ clock' = clock + 1 /\ UNCHANGED <<answers, expiries>>
  BY <1>1, <1>2, <1>3, <1>4 DEF Commit
<1>6. Accepted(q) /\ FinishingSound(q)
  BY <1>1, <1>5 DEF XInv, RowSound
<1>7. /\ x.at = "succeeded" /\ x.graph = q.graph /\ x.selected = q.selected /\ x.enabled = q.enabled
      /\ x.seen = q.seen /\ x.executed = executed /\ x.results = under.results /\ x.status = under.status
      /\ x.base = q.base /\ x.finished = clock
  BY <1>4
<1>8. /\ run'[r] = x /\ \A s \in Runs : s # r => run'[s] = run[s]
      /\ clock \in Nat
  BY <1>5 DEF XInv, CountsSound
<1>9. Succeeded' = Succeeded \cup {r} /\ r \notin Succeeded
  BY <1>1, <1>5, <1>7, <1>8 DEF Succeeded
<1>10. /\ Entries(cache') /\ DOMAIN cache' = DOMAIN q.done.records \cup DOMAIN cache
  BY <1>5, <1>6, StoredEntries DEF XInv, CacheSound, FinishingSound
<1>11. Grows
  BY <1>5, <1>7, <1>8, <1>9, <1>10 DEF Grows
<1>12. executed = Whole(q)
  BY <1>2, <1>6, AcceptedPlan DEF IsOrder, PlanOf
<1>13. /\ View(q.graph, under.results) /\ DOMAIN under.results \subseteq DOMAIN under.status
       /\ q.base \in Runs \cup {None}
       /\ \A n \in executed \cap DOMAIN under.results :
            /\ n \in DOMAIN q.done.results
            /\ under.results[n] = q.done.results[n] /\ under.status[n] = q.done.status[n]
  BY <1>3, <1>6, <1>12, UnderSound
<1>14. RowSound(x)'
  <2>1. Accepted(x) /\ Whole(x) = Whole(q)
    BY <1>6, <1>7 DEF Accepted, Whole
  <2>2. x.seen \in Nat /\ x.seen <= clock
    BY <1>6, <1>7 DEF FinishingSound
  <2>3. ASSUME NEW n \in x.executed \cap DOMAIN x.results, expiries' = 0, x.enabled, n \notin Uncached,
               n # x.selected, x.status[n] # "cached"
        PROVE  Novel(n, x.results[n], x.seen)'
    <3>1. /\ n \in DOMAIN q.done.results
          /\ x.results[n] = q.done.results[n] /\ x.status[n] = q.done.status[n]
      BY <1>7, <1>13, <2>3
    <3>2. Novel(n, x.results[n], x.seen)
      BY <1>5, <1>6, <1>7, <2>3, <3>1 DEF FinishingSound
    <3> QED BY <1>11, <2>2, <3>2, PastKept
  <2>4. x.seen <= clock' /\ x.finished \in Nat /\ x.finished < clock'
    BY <1>5, <1>7, <1>8, <2>2
  <2>5. /\ View(x.graph, x.results) /\ DOMAIN x.results \subseteq DOMAIN x.status
        /\ x.executed = Whole(x) /\ x.base \in Runs \cup {None}
    BY <1>7, <1>12, <1>13, <2>1
  <2>6. SucceededSound(x)'
    BY <2>2, <2>3, <2>4, <2>5 DEF SucceededSound
  <2> QED BY <1>7, <2>1, <2>6 DEF RowSound
<1>15. CacheSound'
  <2>1. ASSUME expiries' = 0, NEW s \in Runs, NEW n \in Nodes, Left(s, n)'
        PROVE  KeyOf(run'[s].results[n]) \in DOMAIN cache'
    <3>1. CASE s = r
      <4>1. x.enabled /\ n \in x.executed /\ n \in DOMAIN x.results /\ n \notin Uncached
        BY <1>8, <2>1, <3>1 DEF Left
      <4>2. n \in DOMAIN q.done.results /\ x.results[n] = q.done.results[n]
        BY <1>7, <1>13, <4>1
      <4>3. KeyOf(q.done.results[n]) \in DOMAIN q.done.records \cup DOMAIN cache
        BY <1>5, <1>6, <1>7, <2>1, <4>1, <4>2 DEF FinishingSound
      <4> QED BY <1>8, <1>10, <3>1, <4>2, <4>3
    <3>2. CASE s # r
      <4>1. run'[s] = run[s]
        BY <1>8, <3>2
      <4>2. Left(s, n)
        BY <2>1, <4>1 DEF Left
      <4>3. run[s].finished < clock
        BY <4>2 DEF Left, XInv, RowSound, SucceededSound
      <4>4. Known(DOMAIN cache, clock)
        BY <1>5, <2>1 DEF XInv, CacheSound
      <4>5. KeyOf(run[s].results[n]) \in DOMAIN cache
        BY <4>2, <4>3, <4>4 DEF Known
      <4> QED BY <1>10, <4>1, <4>5
    <3> QED BY <3>1, <3>2
  <2>2. expiries' = 0 => Known(DOMAIN cache, clock)'
    BY <2>1 DEF Known
  <2> QED BY <1>10, <2>2 DEF CacheSound
<1>16. CountsSound'
  <2>1. IsFiniteSet(Runs)
    BY BoundAssumption, FS_Interval DEF Runs
  <2>2. IsFiniteSet(Succeeded)
    BY <2>1, FS_Subset DEF Succeeded
  <2>3. Cardinality(Succeeded \cup {r}) = Cardinality(Succeeded) + 1
    BY <1>9, <2>2, FS_AddElement
  <2> QED BY <1>5, <1>9, <2>3 DEF XInv, CountsSound
<1> QED BY <1>5, <1>11, <1>14, <1>15, <1>16, RunStepped

\* A person answers.
LEMMA AnswerSound ==
  ASSUME XInv, Answer
  PROVE  XInv'
<1>1. /\ UNCHANGED <<run, cache, shown, clock, expiries>> /\ answers < MaxAnswers /\ answers' = answers + 1
  BY DEF Answer
<1>2. Succeeded' = Succeeded
  BY <1>1 DEF Succeeded
<1>3. Grows
  BY <1>1, <1>2 DEF Grows, XInv, CountsSound
<1>4. CountsSound'
  BY <1>1, <1>2, BoundAssumption DEF XInv, CountsSound
<1>5. CacheSound'
  BY <1>1 DEF XInv, CacheSound, Known, Left
<1>6. ASSUME NEW r \in Runs
      PROVE  RowSound(run[r])'
  <2>1. PICK q : q = run[r]
    OBVIOUS
  <2>2. RowSound(q)'
    BY <1>3, <2>1, RowKept DEF XInv
  <2> QED BY <1>1, <2>1, <2>2
<1> QED BY <1>1, <1>4, <1>5, <1>6 DEF XInv

\* An entry leaves the cache.
LEMMA ExpireSound ==
  ASSUME XInv, NEW k, Expire(k)
  PROVE  XInv'
<1>1. /\ UNCHANGED <<run, answers, shown, clock>> /\ expiries < MaxExpiries /\ expiries' = expiries + 1
      /\ cache' = Restrict(cache, DOMAIN cache \ {k})
  BY DEF Expire
<1>2. Succeeded' = Succeeded
  BY <1>1 DEF Succeeded
<1>3. expiries' # 0
  BY <1>1 DEF XInv, CountsSound
<1>4. Grows
  BY <1>1, <1>2, <1>3 DEF Grows, XInv, CountsSound
<1>5. CountsSound'
  BY <1>1, <1>2, BoundAssumption DEF XInv, CountsSound
<1>6. CacheSound'
  BY <1>1, <1>3 DEF XInv, CacheSound, Entries, Restrict
<1>7. ASSUME NEW r \in Runs
      PROVE  RowSound(run[r])'
  <2>1. PICK q : q = run[r]
    OBVIOUS
  <2>2. RowSound(q)'
    BY <1>4, <2>1, RowKept DEF XInv
  <2> QED BY <1>1, <2>1, <2>2
<1> QED BY <1>1, <1>5, <1>6, <1>7 DEF XInv

\* A step that changes nothing.
LEMMA StutterSound ==
  ASSUME XInv, UNCHANGED vars
  PROVE  XInv'
<1>1. UNCHANGED <<run, cache, answers, shown, clock, expiries>>
  BY DEF vars
<1>2. Succeeded' = Succeeded
  BY <1>1 DEF Succeeded
<1>3. Grows
  BY <1>1, <1>2 DEF Grows, XInv, CountsSound
<1>4. CountsSound' /\ CacheSound'
  BY <1>1, <1>2 DEF XInv, CountsSound, CacheSound, Known, Left
<1>5. ASSUME NEW r \in Runs
      PROVE  RowSound(run[r])'
  <2>1. PICK q : q = run[r]
    OBVIOUS
  <2>2. RowSound(q)'
    BY <1>3, <2>1, RowKept DEF XInv
  <2> QED BY <1>1, <2>1, <2>2
<1> QED BY <1>1, <1>4, <1>5 DEF XInv

\* Every step.
LEMMA NextSound ==
  ASSUME XInv, [Next]_vars
  PROVE  XInv'
<1>1. ASSUME NEW r \in Runs, NEW g \in Graphs, NEW n \in Selections, NEW b \in Bypasses,
             NEW s \in Streams, Create(r, g, n, b, s)
      PROVE  XInv'
  BY <1>1, CreateSound
<1>2. ASSUME NEW r \in Runs, Prepare(r)
      PROVE  XInv'
  BY <1>2, PrepareSound
<1>3. ASSUME NEW r \in Runs, NEW n \in Failing \cup {None}, NEW how \in {"done", "failed", "cancelled"},
             Finish(r, n, how)
      PROVE  XInv'
  BY <1>3, FinishSound
<1>4. ASSUME NEW r \in Runs, Commit(r)
      PROVE  XInv'
  BY <1>4, FailedCommit, SuccessfulCommit
<1>5. CASE Answer
  BY <1>5, AnswerSound
<1>6. ASSUME NEW k \in DOMAIN cache, Expire(k)
      PROVE  XInv'
  BY <1>6, ExpireSound
<1>7. CASE UNCHANGED vars
  BY <1>7, StutterSound
<1> QED BY <1>1, <1>2, <1>3, <1>4, <1>5, <1>6, <1>7 DEF Next

-----------------------------------------------------------------------------
(* The theorems *)

\* What manifests, records, rows and the cache may rely on, in every state.
THEOREM Invariance == Spec => []XInv
<1>1. Init => XInv
  BY InitSound
<1>2. XInv /\ [Next]_vars => XInv'
  BY NextSound
<1> QED BY <1>1, <1>2, PTL DEF Spec

\* The selected node and what it needs are the least set of that kind.
LEMMA NeededIsClosure ==
  ASSUME NEW g \in Graphs, NEW n \in Nodes
  PROVE  IsClosure(UpstreamClosure(n, g.edges), n, g.edges)
<1> DEFINE Ends == [source : Nodes, target : Nodes]
<1>1. g.edges \in Seq(Ends)
  BY Lists
<1> HIDE DEF Ends
<1>2. PICK U : U = UpstreamClosure(n, g.edges)
  OBVIOUS
<1>3. n \in U /\ \A e \in ToSet(g.edges) : e.target \in U => e.source \in U
  BY <1>1, <1>2, UpstreamIsLeast
<1>4. ASSUME NEW T \in SUBSET U, n \in T, \A e \in ToSet(g.edges) : e.target \in T => e.source \in T
      PROVE  T = U
  <2>1. UpstreamClosure(n, g.edges) \subseteq T
    BY <1>1, <1>4, UpstreamIsLeast
  <2> QED BY <1>2, <2>1
<1>5. IsClosure(U, n, g.edges)
  BY <1>3, <1>4 DEF IsClosure
<1> QED BY <1>2, <1>5

\* A run is accepted only with a plan, and executes what it has to.
LEMMA WellFormedRuns ==
  ASSUME XInv
  PROVE  WellFormed
<1>1. TypeOK
  <2>1. IsFiniteSet(Runs) /\ Cardinality(Runs) = MaxRuns
    BY BoundAssumption, FS_Interval DEF Runs
  <2>2. Cardinality(Succeeded) <= MaxRuns
    BY <2>1, FS_Subset DEF Succeeded
  <2>3. clock \in 0..MaxRuns
    BY <2>2, BoundAssumption DEF XInv, CountsSound
  <2>4. \A r \in Runs : run[r].at \in {"absent", "queued", "running", "finishing",
                                      "succeeded", "failed", "cancelled"}
    BY DEF XInv, RowSound
  <2>5. \A r \in Succeeded : /\ DOMAIN run[r].results \subseteq Nodes
                             /\ DOMAIN run[r].results \subseteq DOMAIN run[r].status
                             /\ run[r].base \in Runs \cup {None}
    BY DEF XInv, RowSound, SucceededSound, View, Succeeded
  <2> QED BY <2>3, <2>4, <2>5 DEF TypeOK, XInv, CountsSound
<1>2. ASSUME NEW r \in Runs, run[r].at = "queued", NEW n \in PlannedNodes(run[r])
      PROVE  n \notin Downstream({n}, PlannedEdges(Ids, run[r].graph.edges, run[r].selected, None))
  <2>1. PICK q : q = run[r]
    OBVIOUS
  <2>2. Accepted(q)
    BY <1>2, <2>1 DEF XInv, RowSound
  <2>3. /\ Ids \in Seq(Nodes) /\ IsInjective(Ids) /\ q.graph.edges \in Seq([source : ToSet(Ids), target : ToSet(Ids)])
        /\ q.selected \in ToSet(Ids) \cup {None}
    BY <2>2, Lists DEF Accepted, Nodes
  <2>4. n \in ToSet(PlannedIds(Ids, q.graph.edges, q.selected, None))
    BY <2>1 DEF PlannedNodes
  <2>5. n \in Needed(Ids, q.graph.edges, q.selected, None)
    BY <2>3, <2>4, PlannedParts
  <2>6. n \notin Downstream({n}, PlannedEdges(Ids, q.graph.edges, q.selected, None))
    BY <2>2, <2>3, <2>5, PlanHasNoCycle DEF Accepted
  <2> QED BY <2>1, <2>6
<1>3. ASSUME NEW r \in Succeeded
      PROVE  IF run[r].selected = None THEN run[r].executed = Nodes
             ELSE IsClosure(run[r].executed, run[r].selected, run[r].graph.edges)
  <2>1. PICK q : q = run[r]
    OBVIOUS
  <2>2. Accepted(q) /\ q.executed = Whole(q)
    BY <2>1 DEF XInv, RowSound, SucceededSound, Succeeded
  <2>3. CASE q.selected = None
    BY <2>1, <2>2, <2>3 DEF Whole, Needed, Nodes
  <2>4. CASE q.selected # None
    <3>1. q.graph \in Graphs /\ q.selected \in Nodes
      BY <2>2, <2>4, Lists DEF Accepted
    <3>2. q.executed = UpstreamClosure(q.selected, q.graph.edges)
      BY <2>2, <2>4 DEF Whole, Needed
    <3> QED BY <2>1, <2>4, <3>1, <3>2, NeededIsClosure
  <2> QED BY <2>3, <2>4
<1>4. PlansAreSound
  BY <1>2, <1>3 DEF PlansAreSound
<1> QED BY <1>1, <1>4 DEF WellFormed

\* The runs and their plans are well formed (build_execution_plan): a plan has no
\* cycle, and is the selected node with what it needs.
THEOREM PlansHold == Spec => []WellFormed
<1>1. XInv => WellFormed
  BY WellFormedRuns
<1> QED BY <1>1, Invariance, PTL

\* Every result a successful run shows is what its node computes from the results
\* shown for its inputs (merge_successful_run_state, execute_workflow).
THEOREM ViewsHold == Spec => []ViewIsCoherent
<1>1. XInv => ViewIsCoherent
  BY DEF XInv, RowSound, SucceededSound, View, Succeeded, ViewIsCoherent
<1> QED BY <1>1, Invariance, PTL

\* No result below a task is shown before the task has been answered.
THEOREM AnswersComeFirst == Spec => []NothingBeforeAnswers
<1>1. XInv => NothingBeforeAnswers
  BY DEF XInv, RowSound, SucceededSound, View, Succeeded, NothingBeforeAnswers
<1> QED BY <1>1, Invariance, PTL

\* What an earlier run had computed and left in the cache is restored.
THEOREM RestoredNotComputed == Spec => []UnchangedIsRestored
<1>1. ASSUME XInv PROVE UnchangedIsRestored
  <2>1. ASSUME expiries = 0, NEW r \in Succeeded, NEW s \in Succeeded,
               NEW n \in run[r].executed \cap run[s].executed,
               run[r].enabled, run[s].enabled, run[s].finished < run[r].seen,
               n \notin Uncached, n # run[r].selected,
               n \in DOMAIN run[s].results, n \in DOMAIN run[r].results,
               run[s].results[n] = run[r].results[n], run[r].status[n] # "cached"
        PROVE  FALSE
    <3>1. SucceededSound(run[r]) /\ r \in Runs /\ s \in Runs
      BY <1>1 DEF XInv, RowSound, Succeeded
    <3>2. Novel(n, run[r].results[n], run[r].seen)
      BY <2>1, <3>1 DEF SucceededSound
    <3>3. Left(s, n)
      BY <2>1 DEF Left, Succeeded
    <3> QED BY <2>1, <3>1, <3>2, <3>3 DEF Novel
  <2> QED BY <2>1 DEF UnchangedIsRestored
<1> QED BY <1>1, Invariance, PTL
=============================================================================
