------------------------ MODULE SubmissionWatchProofs ------------------------
(***************************************************************************)
(* What the answers of people set off, for any assignment, any graph       *)
(* without cycles and any number of runs and workers.                      *)
(*                                                                         *)
(* The first part is about lists and walks, for every list of edges: the   *)
(* walks return the least set that the edges do not leave, and where there *)
(* are no cycles an end lies below every node.  The second is about the    *)
(* watches: WInv says what a request under way and a check under way have  *)
(* read, and that all a check leaves out up to its cursors is queued       *)
(* already or late.                                                        *)
(***************************************************************************)
EXTENDS SubmissionWatch, FiniteSetTheorems, WellFoundedInduction, TLAPS

-----------------------------------------------------------------------------
(* Induction up to a bound *)

\* A set of numbers that is not empty has a least element.
LEMMA Least ==
  ASSUME NEW S \in SUBSET Nat, S # {}
  PROVE  \E m \in S : \A k \in S : m <= k
<1> DEFINE R == OpToRel(<, Nat)
<1>1. IsWellFoundedOn(R, Nat)
  BY NatLessThanWellFounded
<1>2. PICK m \in S : \A k \in Nat : <<k, m>> \in R => k \notin S
  BY <1>1, WFMin
<1>3. \A k \in S : ~(k < m)
  BY <1>2, Zenon DEF OpToRel
<1> HIDE DEF R
<1> QED BY <1>3

\* A set of numbers up to N that is not empty has a greatest element.
LEMMA Greatest ==
  ASSUME NEW N \in Nat, NEW S \in SUBSET (0..N), S # {}
  PROVE  \E m \in S : \A k \in S : k <= m
<1> DEFINE T == {N - k : k \in S}
<1>1. T \in SUBSET Nat /\ T # {}
  <2>1. \A k \in S : N - k \in Nat /\ N - k \in T
    OBVIOUS
  <2> QED BY <2>1
<1>2. PICK t \in T : \A k \in T : t <= k
  <2> HIDE DEF T
  <2> QED BY <1>1, Least
<1>3. PICK m \in S : t = N - m
  BY <1>2
<1>4. \A k \in S : N - m <= N - k
  BY <1>2, <1>3
<1> QED BY <1>4

\* What holds of zero, and of the next number when of a number, holds up to N.
LEMMA Climb ==
  ASSUME NEW N \in Nat, NEW S, 0 \in S, \A k \in 0..(N - 1) : k \in S => k + 1 \in S
  PROVE  0..N \subseteq S
<1> SUFFICES ASSUME NEW j \in 0..N, j \notin S PROVE FALSE
  OBVIOUS
<1> DEFINE T == {k \in 0..N : k \notin S}
<1>1. PICK m \in T : \A k \in T : m <= k
  <2>1. T \in SUBSET Nat /\ T # {}
    OBVIOUS
  <2> HIDE DEF T
  <2> QED BY <2>1, Least
<1>2. m - 1 \in 0..(N - 1) /\ m - 1 \in S
  BY <1>1
<1> QED BY <1>1, <1>2

-----------------------------------------------------------------------------
(* Items picked from a list *)

\* Picking satisfies its equation.
LEMMA PickingUnfolds ==
  ASSUME NEW X, NEW s \in Seq(X), NEW I
  PROVE  /\ Picking(s, I)[0] = <<>>
         /\ \A i \in 1..Len(s) :
              Picking(s, I)[i] = IF i \in I THEN Append(Picking(s, I)[i - 1], s[i])
                                 ELSE Picking(s, I)[i - 1]
<1> DEFINE H(v, i) == IF i \in I THEN Append(v, s[i]) ELSE v
           F(f, m) == f = [i \in 0..m |-> IF i = 0 THEN <<>> ELSE H(f[i - 1], i)]
           P == {m \in 0..Len(s) : \E f : F(f, m)}
<1> HIDE DEF H
<1>1. F([i \in 0..0 |-> <<>>], 0)
  OBVIOUS
<1>2. ASSUME NEW k \in 0..(Len(s) - 1), NEW f, F(f, k)
      PROVE  F([i \in 0..(k + 1) |-> IF i = k + 1 THEN H(f[k], k + 1) ELSE f[i]], k + 1)
  BY <1>2
<1>3. (\E f : F(f, 0)) /\ \A k \in 0..(Len(s) - 1) : (\E f : F(f, k)) => (\E f : F(f, k + 1))
  <2> HIDE DEF F
  <2> QED BY <1>1, <1>2, Zenon
<1>4. Len(s) \in P
  <2>1. 0 \in P
    <3> HIDE DEF F
    <3> QED BY <1>3
  <2>2. ASSUME NEW k \in 0..(Len(s) - 1), k \in P
        PROVE  k + 1 \in P
    <3>1. k + 1 \in 0..Len(s)
      OBVIOUS
    <3> HIDE DEF F
    <3> QED BY <1>3, <2>2, <3>1
  <2> HIDE DEF P
  <2>3. 0..Len(s) \subseteq P
    BY <2>1, <2>2, Climb
  <2> QED BY <2>3
<1>5. \E f : F(f, Len(s))
  BY <1>4
<1>6. F(Picking(s, I), Len(s))
  BY <1>5 DEF Picking, H
<1>7. /\ Picking(s, I)[0] = <<>>
      /\ \A i \in 1..Len(s) : Picking(s, I)[i] = H(Picking(s, I)[i - 1], i)
  BY <1>6
<1> QED BY <1>7 DEF H

\* One more item.
LEMMA OneMore ==
  ASSUME NEW X, NEW s \in Seq(X), NEW x \in X
  PROVE  /\ Append(s, x) \in Seq(X)
         /\ ToSet(Append(s, x)) = ToSet(s) \cup {x}
         /\ IsInjective(s) /\ x \notin ToSet(s) => IsInjective(Append(s, x))
<1>1. /\ Append(s, x) \in Seq(X) /\ Len(s) \in Nat /\ DOMAIN s = 1..Len(s)
      /\ DOMAIN Append(s, x) = 1..(Len(s) + 1)
      /\ \A j \in 1..Len(s) : Append(s, x)[j] = s[j]
      /\ Append(s, x)[Len(s) + 1] = x
  OBVIOUS
<1>2. ToSet(Append(s, x)) = ToSet(s) \cup {x}
  BY <1>1 DEF ToSet
<1>3. IsInjective(s) /\ x \notin ToSet(s) => IsInjective(Append(s, x))
  BY <1>1 DEF ToSet, IsInjective
<1> QED BY <1>1, <1>2, <1>3

\* Two lists one after the other.
LEMMA Concatenated ==
  ASSUME NEW X, NEW s \in Seq(X), NEW t \in Seq(X)
  PROVE  /\ s \o t \in Seq(X) /\ DOMAIN s \subseteq DOMAIN (s \o t) /\ DOMAIN (s \o t) \subseteq Nat
         /\ ToSet(s \o t) = ToSet(s) \cup ToSet(t)
         /\ \A i \in DOMAIN s : (s \o t)[i] = s[i]
         /\ \A i \in DOMAIN (s \o t) \ DOMAIN s : /\ (s \o t)[i] \in ToSet(t)
                                                  /\ \A j \in DOMAIN s : j < i
         /\ IsInjective(s) /\ IsInjective(t) /\ ToSet(s) \cap ToSet(t) = {} => IsInjective(s \o t)
<1>1. /\ s \o t \in Seq(X) /\ Len(s) \in Nat /\ Len(t) \in Nat
      /\ DOMAIN s = 1..Len(s) /\ DOMAIN t = 1..Len(t) /\ DOMAIN (s \o t) = 1..(Len(s) + Len(t))
      /\ \A i \in 1..Len(s) : (s \o t)[i] = s[i]
      /\ \A i \in 1..(Len(s) + Len(t)) : i > Len(s) => /\ (s \o t)[i] = t[i - Len(s)]
                                                       /\ i - Len(s) \in 1..Len(t)
  OBVIOUS
<1>2. \A i \in DOMAIN (s \o t) \ DOMAIN s : (s \o t)[i] \in ToSet(t) /\ \A j \in DOMAIN s : j < i
  BY <1>1 DEF ToSet
<1>3. ASSUME IsInjective(s), IsInjective(t), ToSet(s) \cap ToSet(t) = {},
             NEW i \in DOMAIN (s \o t), NEW j \in DOMAIN (s \o t), (s \o t)[i] = (s \o t)[j]
      PROVE  i = j
  <2>1. CASE i <= Len(s) /\ j <= Len(s)
    BY <1>1, <1>3, <2>1 DEF IsInjective
  <2>2. CASE i > Len(s) /\ j > Len(s)
    <3>1. i - Len(s) = j - Len(s)
      BY <1>1, <1>3, <2>2 DEF IsInjective
    <3> QED BY <1>1, <3>1
  <2>3. \A k \in 1..Len(s), h \in 1..Len(t) : s[k] # t[h]
    BY <1>1, <1>3 DEF ToSet
  <2> QED BY <1>1, <1>3, <2>1, <2>2, <2>3
<1>4. ToSet(s \o t) = ToSet(s) \cup ToSet(t)
  <2>1. ToSet(s) \subseteq ToSet(s \o t)
    BY <1>1 DEF ToSet
  <2>2. ASSUME NEW j \in 1..Len(t) PROVE t[j] \in ToSet(s \o t)
    <3>1. /\ Len(s) + j \in 1..(Len(s) + Len(t)) /\ (Len(s) + j) - Len(s) = j
          /\ Len(s) + j > Len(s)
      BY <1>1
    <3> QED BY <1>1, <3>1 DEF ToSet
  <2>3. ASSUME NEW j \in DOMAIN (s \o t) PROVE (s \o t)[j] \in ToSet(s) \cup ToSet(t)
    BY <1>1, <1>2 DEF ToSet
  <2> QED BY <1>1, <2>1, <2>2, <2>3 DEF ToSet
<1>5. IsInjective(s) /\ IsInjective(t) /\ ToSet(s) \cap ToSet(t) = {} => IsInjective(s \o t)
  BY <1>3 DEF IsInjective
<1> QED BY <1>1, <1>2, <1>4, <1>5

\* The items picked are those at the indices, each once.
LEMMA PickedItems ==
  ASSUME NEW X, NEW s \in Seq(X), NEW I \in SUBSET DOMAIN s
  PROVE  /\ Picked(s, I) \in Seq(X)
         /\ ToSet(Picked(s, I)) = {s[i] : i \in I}
         /\ (\A i, j \in I : s[i] = s[j] => i = j) => IsInjective(Picked(s, I))
<1> DEFINE Apart == \A i, j \in I : s[i] = s[j] => i = j
           Good(p, k) == /\ p \in Seq(X)
                         /\ ToSet(p) = {s[i] : i \in {h \in I : h <= k}}
                         /\ Apart => IsInjective(p)
           G == {k \in 0..Len(s) : Good(Picking(s, I)[k], k)}
<1>1. /\ Picking(s, I)[0] = <<>>
      /\ \A i \in 1..Len(s) :
           Picking(s, I)[i] = IF i \in I THEN Append(Picking(s, I)[i - 1], s[i]) ELSE Picking(s, I)[i - 1]
  BY PickingUnfolds
<1>2. Good(<<>>, 0)
  <2>1. \A i \in I : ~(i <= 0)
    OBVIOUS
  <2> QED BY <2>1 DEF ToSet, IsInjective
<1>3. ASSUME NEW k \in 0..(Len(s) - 1), NEW p, Good(p, k)
      PROVE  Good(IF k + 1 \in I THEN Append(p, s[k + 1]) ELSE p, k + 1)
  <2>1. CASE k + 1 \notin I
    <3>1. {h \in I : h <= k + 1} = {h \in I : h <= k}
      BY <2>1
    <3> QED BY <1>3, <2>1, <3>1
  <2>2. CASE k + 1 \in I
    <3>1. {h \in I : h <= k + 1} = {h \in I : h <= k} \cup {k + 1}
      BY <2>2
    <3>2. /\ Append(p, s[k + 1]) \in Seq(X) /\ ToSet(Append(p, s[k + 1])) = ToSet(p) \cup {s[k + 1]}
          /\ IsInjective(p) /\ s[k + 1] \notin ToSet(p) => IsInjective(Append(p, s[k + 1]))
      BY <1>3, OneMore
    <3>3. ToSet(Append(p, s[k + 1])) = {s[i] : i \in {h \in I : h <= k + 1}}
      BY <1>3, <3>1, <3>2
    <3>4. Apart => s[k + 1] \notin ToSet(p)
      BY <1>3, <2>2
    <3> QED BY <1>3, <2>2, <3>2, <3>3, <3>4
  <2> QED BY <2>1, <2>2
<1>4. Good(Picking(s, I)[Len(s)], Len(s))
  <2>1. 0 \in G
    <3> HIDE DEF Good
    <3> QED BY <1>1, <1>2
  <2>2. ASSUME NEW k \in 0..(Len(s) - 1), k \in G
        PROVE  k + 1 \in G
    <3>1. /\ k + 1 \in 0..Len(s) /\ k + 1 \in 1..Len(s) /\ (k + 1) - 1 = k
      OBVIOUS
    <3>2. Picking(s, I)[k + 1] = IF k + 1 \in I THEN Append(Picking(s, I)[k], s[k + 1]) ELSE Picking(s, I)[k]
      BY <1>1, <3>1
    <3> HIDE DEF Good
    <3> QED BY <1>3, <2>2, <3>1, <3>2
  <2> HIDE DEF G
  <2>3. 0..Len(s) \subseteq G
    BY <2>1, <2>2, Climb
  <2>4. Len(s) \in G
    BY <2>3
  <2> HIDE DEF Good
  <2> QED BY <2>4 DEF G
<1>5. {h \in I : h <= Len(s)} = I
  OBVIOUS
<1> QED BY <1>4, <1>5 DEF Picked

-----------------------------------------------------------------------------
(* Walks *)

\* A walk satisfies its equation.
LEMMA WalkUnfolds ==
  ASSUME NEW nodes, NEW steps, IsFiniteSet(steps)
  PROVE  /\ Walk(nodes, steps)[0] = nodes
         /\ \A k \in 1..Cardinality(steps) :
              Walk(nodes, steps)[k] = Walk(nodes, steps)[k - 1]
                \cup {p[2] : p \in {q \in steps : q[1] \in Walk(nodes, steps)[k - 1]}}
<1> DEFINE N == Cardinality(steps)
           H(v) == v \cup {p[2] : p \in {q \in steps : q[1] \in v}}
           F(f, m) == f = [k \in 0..m |-> IF k = 0 THEN nodes ELSE H(f[k - 1])]
           P == {m \in 0..N : \E f : F(f, m)}
<1>0. N \in Nat
  BY FS_CardinalityType
<1> HIDE DEF H, N
<1>1. F([k \in 0..0 |-> nodes], 0)
  OBVIOUS
<1>2. ASSUME NEW k \in 0..(N - 1), NEW f, F(f, k)
      PROVE  F([i \in 0..(k + 1) |-> IF i = k + 1 THEN H(f[k]) ELSE f[i]], k + 1)
  BY <1>0, <1>2
<1>3. (\E f : F(f, 0)) /\ \A k \in 0..(N - 1) : (\E f : F(f, k)) => (\E f : F(f, k + 1))
  <2> HIDE DEF F
  <2> QED BY <1>1, <1>2, Zenon
<1>4. N \in P
  <2>1. 0 \in P
    <3> HIDE DEF F
    <3> QED BY <1>0, <1>3
  <2>2. ASSUME NEW k \in 0..(N - 1), k \in P
        PROVE  k + 1 \in P
    <3>1. k + 1 \in 0..N
      BY <1>0
    <3> HIDE DEF F
    <3> QED BY <1>3, <2>2, <3>1
  <2> HIDE DEF P
  <2>3. 0..N \subseteq P
    BY <1>0, <2>1, <2>2, Climb
  <2> QED BY <1>0, <2>3
<1>5. \E f : F(f, N)
  BY <1>4
<1>6. F(Walk(nodes, steps), N)
  BY <1>5 DEF Walk, H, N
<1>7. /\ Walk(nodes, steps)[0] = nodes
      /\ \A k \in 1..N : Walk(nodes, steps)[k] = H(Walk(nodes, steps)[k - 1])
  BY <1>0, <1>6
<1> QED BY <1>7 DEF H, N

\* A set that the steps do not leave.
Kept(S, steps) == \A q \in steps : q[1] \in S => q[2] \in S

\* A walk of as many rounds as there are steps leaves no step untried: a round
\* that does not end it meets a step it has not met before.
LEMMA ClosureIsKept ==
  ASSUME NEW nodes, NEW steps, IsFiniteSet(steps)
  PROVE  Kept(Closure(nodes, steps), steps)
<1> DEFINE N == Cardinality(steps)
           W(k) == Walk(nodes, steps)[k]
           Met(k) == {q \in steps : q[1] \in W(k)}
           Good(k) == Kept(W(k), steps) \/ Cardinality(Met(k)) > k
           G == {k \in 0..N : Good(k)}
<1>1. N \in Nat /\ \A k \in 0..N : /\ IsFiniteSet(Met(k)) /\ Cardinality(Met(k)) \in Nat
                                   /\ Cardinality(Met(k)) <= N
  <2>1. \A k \in 0..N : Met(k) \subseteq steps
    OBVIOUS
  <2> HIDE DEF Met
  <2> QED BY <2>1, FS_Subset, FS_CardinalityType
<1>2. /\ W(0) = nodes
      /\ \A k \in 1..N : W(k) = W(k - 1) \cup {p[2] : p \in Met(k - 1)}
  BY WalkUnfolds
<1> HIDE DEF W, N
<1>3. Good(0)
  <2> SUFFICES ASSUME ~Kept(W(0), steps) PROVE Met(0) # {}
    BY <1>1, FS_EmptySet
  <2> QED BY DEF Kept
<1>4. ASSUME NEW k \in 0..(N - 1), Good(k)
      PROVE  Good(k + 1)
  <2>1. k + 1 \in 0..N /\ k \in 0..N /\ W(k + 1) = W(k) \cup {p[2] : p \in Met(k)}
    BY <1>1, <1>2
  <2>2. CASE Kept(W(k), steps)
    <3>1. W(k + 1) = W(k)
      BY <2>1, <2>2 DEF Kept
    <3> QED BY <2>2, <3>1
  <2>3. CASE Cardinality(Met(k)) > k /\ ~Kept(W(k + 1), steps)
    <3>1. PICK q \in steps : q[1] \in W(k + 1) /\ q[2] \notin W(k + 1)
      BY <2>3 DEF Kept
    <3>2. q \notin Met(k) /\ q \in Met(k + 1) /\ Met(k) \subseteq Met(k + 1)
      BY <2>1, <3>1
    <3>3. Met(k) \cup {q} \subseteq Met(k + 1)
      BY <3>2
    <3> HIDE DEF Met
    <3>4. Cardinality(Met(k) \cup {q}) = Cardinality(Met(k)) + 1
      BY <1>1, <2>1, <3>2, FS_AddElement
    <3>5. Cardinality(Met(k) \cup {q}) <= Cardinality(Met(k + 1))
      BY <1>1, <2>1, <3>3, FS_Subset
    <3> QED BY <1>1, <2>1, <2>3, <3>4, <3>5
  <2> QED BY <1>4, <2>2, <2>3
<1>5. 0..N \subseteq G
  <2>1. 0 \in G /\ \A k \in 0..(N - 1) : k \in G => k + 1 \in G
    <3>1. \A k \in 0..(N - 1) : k + 1 \in 0..N
      BY <1>1
    <3> HIDE DEF Good
    <3> QED BY <1>1, <1>3, <1>4, <3>1
  <2> HIDE DEF G
  <2> QED BY <1>1, <2>1, Climb
<1>6. Good(N)
  BY <1>1, <1>5
<1>7. Kept(W(N), steps)
  BY <1>1, <1>6
<1> QED BY <1>7 DEF Closure, W, N

\* A walk finds nothing but what every set has that holds its nodes and that
\* the steps do not leave.
LEMMA ClosureIsLeast ==
  ASSUME NEW nodes, NEW steps, IsFiniteSet(steps)
  PROVE  /\ nodes \subseteq Closure(nodes, steps)
         /\ \A S : nodes \subseteq S /\ Kept(S, steps) => Closure(nodes, steps) \subseteq S
<1> DEFINE N == Cardinality(steps)
           W(k) == Walk(nodes, steps)[k]
<1>1. /\ N \in Nat /\ W(0) = nodes
      /\ \A k \in 1..N : W(k) = W(k - 1) \cup {p[2] : p \in {q \in steps : q[1] \in W(k - 1)}}
  BY WalkUnfolds, FS_CardinalityType
<1> HIDE DEF W, N
<1>2. nodes \subseteq W(N)
  <2> DEFINE G == {k \in 0..N : nodes \subseteq W(k)}
  <2>1. 0 \in G /\ \A k \in 0..(N - 1) : k \in G => k + 1 \in G
    <3>1. \A k \in 0..(N - 1) : k + 1 \in 1..N /\ (k + 1) - 1 = k
      BY <1>1
    <3> QED BY <1>1, <3>1
  <2> HIDE DEF G
  <2>2. 0..N \subseteq G
    BY <1>1, <2>1, Climb
  <2> QED BY <1>1, <2>2 DEF G
<1>3. ASSUME NEW S, nodes \subseteq S, Kept(S, steps)
      PROVE  W(N) \subseteq S
  <2> DEFINE G == {k \in 0..N : W(k) \subseteq S}
  <2>1. 0 \in G
    BY <1>1, <1>3
  <2>2. ASSUME NEW k \in 0..(N - 1), k \in G PROVE k + 1 \in G
    <3>1. k + 1 \in 1..N /\ (k + 1) - 1 = k
      BY <1>1
    <3>2. W(k + 1) = W(k) \cup {p[2] : p \in {q \in steps : q[1] \in W(k)}}
      BY <1>1, <3>1
    <3> QED BY <1>1, <1>3, <2>2, <3>1, <3>2 DEF Kept
  <2> HIDE DEF G
  <2>3. 0..N \subseteq G
    BY <1>1, <2>1, <2>2, Climb
  <2> QED BY <1>1, <2>3 DEF G
<1> QED BY <1>2, <1>3 DEF Closure, W, N

\* A function has no more values than arguments.
LEMMA FewValues ==
  ASSUME NEW S, IsFiniteSet(S), NEW f, DOMAIN f = S, f = [x \in S |-> f[x]]
  PROVE  /\ IsFiniteSet({f[x] : x \in S})
         /\ Cardinality({f[x] : x \in S}) <= Cardinality(S)
<1> DEFINE T == {f[x] : x \in S}
<1>1. f \in Surjection(S, T)
  BY DEF Surjection
<1> QED BY <1>1, FS_Surjection

\* The edges of a list are finitely many, and so are the pairs made of them.
LEMMA FewSteps ==
  ASSUME NEW E, NEW edges \in Seq(E)
  PROVE  /\ IsFiniteSet(ToSet(edges))
         /\ IsFiniteSet({<<e.target, e.source>> : e \in ToSet(edges)})
         /\ IsFiniteSet({<<e.source, e.target>> : e \in ToSet(edges)})
<1> DEFINE I == 1..Len(edges)
           back == [i \in I |-> <<edges[i].target, edges[i].source>>]
           forth == [i \in I |-> <<edges[i].source, edges[i].target>>]
<1>1. IsFiniteSet(I) /\ edges = [i \in I |-> edges[i]] /\ DOMAIN edges = I
  BY FS_Interval
<1>2. /\ IsFiniteSet({edges[i] : i \in I}) /\ IsFiniteSet({back[i] : i \in I})
      /\ IsFiniteSet({forth[i] : i \in I})
  <2>1. DOMAIN back = I /\ back = [i \in I |-> back[i]]
    OBVIOUS
  <2>2. DOMAIN forth = I /\ forth = [i \in I |-> forth[i]]
    OBVIOUS
  <2> HIDE DEF back, forth, I
  <2> QED BY <1>1, <2>1, <2>2, FewValues
<1>3. ToSet(edges) = {edges[i] : i \in I}
  BY <1>1 DEF ToSet
<1>4. {<<e.target, e.source>> : e \in ToSet(edges)} = {back[i] : i \in I}
  BY <1>3
<1>5. {<<e.source, e.target>> : e \in ToSet(edges)} = {forth[i] : i \in I}
  BY <1>3
<1> QED BY <1>2, <1>3, <1>4, <1>5

\* Steps that follow edges backward, and forward.
LEMMA KeptByEdges ==
  ASSUME NEW D, NEW S
  PROVE  /\ Kept(S, {<<e.target, e.source>> : e \in D}) <=> \A e \in D : e.target \in S => e.source \in S
         /\ Kept(S, {<<e.source, e.target>> : e \in D}) <=> \A e \in D : e.source \in S => e.target \in S
<1> DEFINE back == {<<e.target, e.source>> : e \in D}
           forth == {<<e.source, e.target>> : e \in D}
<1>1. ASSUME Kept(S, back), NEW e \in D, e.target \in S PROVE e.source \in S
  <2>1. <<e.target, e.source>> \in back
    OBVIOUS
  <2> HIDE DEF back
  <2> QED BY <1>1, <2>1 DEF Kept
<1>2. ASSUME Kept(S, forth), NEW e \in D, e.source \in S PROVE e.target \in S
  <2>1. <<e.source, e.target>> \in forth
    OBVIOUS
  <2> HIDE DEF forth
  <2> QED BY <1>2, <2>1 DEF Kept
<1>3. ASSUME \A e \in D : e.target \in S => e.source \in S PROVE Kept(S, back)
  BY <1>3 DEF Kept
<1>4. ASSUME \A e \in D : e.source \in S => e.target \in S PROVE Kept(S, forth)
  BY <1>4 DEF Kept
<1> HIDE DEF back, forth
<1>5. /\ Kept(S, back) <=> \A e \in D : e.target \in S => e.source \in S
      /\ Kept(S, forth) <=> \A e \in D : e.source \in S => e.target \in S
  BY <1>1, <1>2, <1>3, <1>4
<1> QED BY <1>5 DEF back, forth

\* _upstream_closure: the selected node, every source of a member, and nothing
\* that is not needed.
THEOREM UpstreamIsLeast ==
  ASSUME NEW E, NEW edges \in Seq(E), NEW n
  PROVE  /\ n \in UpstreamClosure(n, edges)
         /\ \A e \in ToSet(edges) : e.target \in UpstreamClosure(n, edges)
                                      => e.source \in UpstreamClosure(n, edges)
         /\ \A S : n \in S /\ (\A e \in ToSet(edges) : e.target \in S => e.source \in S)
                   => UpstreamClosure(n, edges) \subseteq S
<1> DEFINE steps == {<<e.target, e.source>> : e \in ToSet(edges)}
<1>1. /\ {n} \subseteq Closure({n}, steps) /\ Kept(Closure({n}, steps), steps)
      /\ \A S : {n} \subseteq S /\ Kept(S, steps) => Closure({n}, steps) \subseteq S
  BY FewSteps, ClosureIsKept, ClosureIsLeast
<1>2. \A S : Kept(S, steps) <=> \A e \in ToSet(edges) : e.target \in S => e.source \in S
  BY KeptByEdges
<1>3. UpstreamClosure(n, edges) = Closure({n}, steps)
  BY DEF UpstreamClosure
<1> HIDE DEF steps
<1> QED BY <1>1, <1>2, <1>3

\* affected_downstream_nodes: the targets of the nodes and of what follows
\* them, and nothing else.
THEOREM DownstreamIsLeast ==
  ASSUME NEW E, NEW edges \in Seq(E), NEW nodes
  PROVE  /\ \A e \in ToSet(edges) : e.source \in nodes \cup Downstream(nodes, edges)
                                      => e.target \in Downstream(nodes, edges)
         /\ \A S : (\A e \in ToSet(edges) : e.source \in nodes \cup S => e.target \in S)
                   => Downstream(nodes, edges) \subseteq S
<1> DEFINE steps == {<<e.source, e.target>> : e \in ToSet(edges)}
           T == TargetsOf(nodes, edges)
<1>1. /\ T \subseteq Closure(T, steps) /\ Kept(Closure(T, steps), steps)
      /\ \A S : T \subseteq S /\ Kept(S, steps) => Closure(T, steps) \subseteq S
  BY FewSteps, ClosureIsKept, ClosureIsLeast
<1>2. \A S : Kept(S, steps) <=> \A e \in ToSet(edges) : e.source \in S => e.target \in S
  BY KeptByEdges
<1>3. Downstream(nodes, edges) = Closure(T, steps)
  BY DEF Downstream
<1>4. \A S : T \subseteq S <=> \A e \in ToSet(edges) : e.source \in nodes => e.target \in S
  BY DEF TargetsOf
<1> HIDE DEF steps, T
<1>5. \A e \in ToSet(edges) : e.source \in nodes \cup Downstream(nodes, edges)
                                => e.target \in Downstream(nodes, edges)
  BY <1>1, <1>2, <1>3, <1>4
<1>6. ASSUME NEW S, \A e \in ToSet(edges) : e.source \in nodes \cup S => e.target \in S
      PROVE  Downstream(nodes, edges) \subseteq S
  <2>1. T \subseteq S /\ Kept(S, steps)
    BY <1>2, <1>4, <1>6
  <2> QED BY <1>1, <1>3, <2>1
<1> QED BY <1>5, <1>6

\* _downstream_leaves: what follows a node, in a graph without cycles, is above
\* one of the ends of what follows it.
THEOREM EndsReachBack ==
  ASSUME NEW E, NEW edges \in Seq(E), \A x : x \notin Downstream({x}, edges),
         NEW from, NEW m \in Downstream({from}, edges)
  PROVE  \E l \in Downstream({from}, edges) :
           Downstream({l}, edges) = {} /\ m \in UpstreamClosure(l, edges)
<1> DEFINE D(x) == Downstream({x}, edges)
           targets == {e.target : e \in ToSet(edges)}
           C == {m} \cup D(m)
           sizes == {Cardinality(D(x)) : x \in C}
<1>1. \A x : /\ \A e \in ToSet(edges) : e.source \in {x} \cup D(x) => e.target \in D(x)
             /\ \A S : (\A e \in ToSet(edges) : e.source \in {x} \cup S => e.target \in S) => D(x) \subseteq S
  BY DownstreamIsLeast
<1>2. \A x : x \notin D(x)
  OBVIOUS
<1>3. m \in D(from)
  OBVIOUS
<1>4. IsFiniteSet(targets)
  <2> DEFINE f == [e \in ToSet(edges) |-> e.target]
  <2>1. DOMAIN f = ToSet(edges) /\ f = [e \in ToSet(edges) |-> f[e]]
    OBVIOUS
  <2>2. targets = {f[e] : e \in ToSet(edges)}
    OBVIOUS
  <2>3. IsFiniteSet(ToSet(edges))
    BY FewSteps
  <2> HIDE DEF f, targets
  <2>4. PICK S, g : S = ToSet(edges) /\ g = f /\ DOMAIN g = S /\ g = [e \in S |-> g[e]]
    BY <2>1
  <2>5. IsFiniteSet({g[e] : e \in S})
    BY <2>3, <2>4, FewValues
  <2> QED BY <2>2, <2>4, <2>5
<1>5. \A e \in ToSet(edges) : e.target \in targets
  OBVIOUS
<1> HIDE DEF D, targets
<1>6. \A x : \A y \in D(x) : D(y) \subseteq D(x)
  BY <1>1
<1>7. \A x : IsFiniteSet(D(x)) /\ Cardinality(D(x)) \in Nat
  BY <1>1, <1>4, <1>5, FS_Subset, FS_CardinalityType
<1>8. PICK l \in C : \A x \in C : Cardinality(D(l)) <= Cardinality(D(x))
  <2>1. sizes \in SUBSET Nat /\ sizes # {}
    BY <1>7
  <2>2. PICK k \in sizes : \A j \in sizes : k <= j
    <3> HIDE DEF sizes
    <3> QED BY <2>1, Least
  <2> QED BY <2>2
<1>9. D(l) = {}
  <2> SUFFICES ASSUME NEW y \in D(l)
               PROVE  FALSE
    OBVIOUS
  <2>1. y \in C /\ D(y) \subseteq D(l) \ {y}
    BY <1>2, <1>6
  <2>2. IsFiniteSet(D(l) \ {y}) /\ Cardinality(D(l) \ {y}) = Cardinality(D(l)) - 1
    BY <1>7, FS_RemoveElement
  <2>3. Cardinality(D(y)) <= Cardinality(D(l) \ {y})
    BY <2>1, <2>2, FS_Subset
  <2>4. Cardinality(D(l)) <= Cardinality(D(y)) /\ Cardinality(D(l)) \in Nat /\ Cardinality(D(y)) \in Nat
    BY <1>7, <1>8, <2>1
  <2> QED BY <2>2, <2>3, <2>4
<1>10. m \in UpstreamClosure(l, edges)
  <2> SUFFICES ASSUME m \notin UpstreamClosure(l, edges)
               PROVE  FALSE
    OBVIOUS
  <2>1. PICK U : U = UpstreamClosure(l, edges)
    OBVIOUS
  <2>2. l \in U /\ \A e \in ToSet(edges) : e.target \in U => e.source \in U
    BY <2>1, UpstreamIsLeast
  <2>3. \A e \in ToSet(edges) : e.source \in {m} \cup (D(m) \ U) => e.target \in D(m) \ U
    BY <1>1, <2>1, <2>2
  <2>4. D(m) \subseteq D(m) \ U
    BY <1>1, <2>3
  <2> QED BY <2>1, <2>2, <2>4
<1>11. l \in D(from)
  BY <1>3, <1>6
<1> QED BY <1>9, <1>10, <1>11 DEF D

-----------------------------------------------------------------------------
(* What the answers of people set off: the watches of SubmissionWatch *)

Subjects  == {pair[1] : pair \in ToSet(Pairs)}
Assignees == {pair[2] : pair \in ToSet(Pairs)}
TaskRows  == [subject : Subjects, version : Versions, who : Assignees, by : SourceRuns]
Watches   == SourceRuns \X (Subjects \X Versions)

\* The node asks for something, and the graph has no cycle.
Parameters ==
  /\ Pairs \in Seq(Subjects \X Assignees) /\ Pairs # <<>>
  /\ Limit \in Nat \ {0} /\ MaxIds \in Nat
  /\ Flow \in Seq(ToSet(Flow)) /\ \A n : n \notin Downstream({n}, Flow)

WatchTypes ==
  /\ source \in [SourceRuns -> [at : {"new", "running", "done"}, waits : BOOLEAN, version : Versions \cup {None}]]
  /\ tasks \in Seq(TaskRows)
  /\ DOMAIN watch \subseteq Watches /\ watch \in [DOMAIN watch -> Nat]
  /\ ids \in Nat
  /\ DOMAIN answered \subseteq 1..ids /\ answered \in [DOMAIN answered -> DOMAIN tasks]
  /\ DOMAIN answering \subseteq DOMAIN tasks
  /\ answering \in [DOMAIN answering -> [id : 1..ids, watches : SUBSET Watches]]
  /\ DOMAIN worker = Workers

\* A request that answers a task has an id of its own and the watches it read.
AnsweringSound ==
  \A t \in DOMAIN answering :
    /\ answering[t].id \notin DOMAIN answered
    /\ answering[t].watches \subseteq WatchesOf(Group(t))
    /\ \A u \in DOMAIN answering : answering[u].id = answering[t].id => u = t

\* Tasks are those of runs that have ended.
TasksSound == \A t \in DOMAIN tasks : source[tasks[t].by].at = "done"

\* What a check under way has read, and what it leaves out up to its cursors.
CheckSound(p) ==
  worker[p].at = "checking" =>
    /\ worker[p].queued \subseteq queued
    /\ DOMAIN worker[p].found \subseteq DOMAIN watch
    /\ \A w \in DOMAIN worker[p].found :
         /\ \A i \in worker[p].found[w] : i \in DOMAIN answered /\ Group(answered[i]) = w[2]
         /\ \A i \in DOMAIN answered :
              Group(answered[i]) = w[2] /\ Cursor(worker[p].found[w]) >= i =>
                <<i, w>> \in late \/ Keys(i, {w}) \subseteq queued \/ i \in worker[p].found[w]

WInv ==
  /\ WatchTypes /\ AnsweringSound /\ TasksSound
  /\ \A p \in Workers : CheckSound(p)
  /\ PassedIsContinued /\ QueuedIsAnswered /\ DeferredIsWatched

\* The keys depend on the graph alone.
LEMMA SameKeys ==
  ASSUME NEW i, NEW watches
  PROVE  Keys(i, watches)' = Keys(i, watches)
BY DEF Keys

-----------------------------------------------------------------------------
(* What no step takes back *)

WatchOnward ==
  /\ queued \subseteq queued' /\ late \subseteq late' /\ DOMAIN watch \subseteq DOMAIN watch'
  /\ \A t \in DOMAIN tasks : t \in DOMAIN tasks' /\ tasks'[t] = tasks[t]
  /\ \A i \in DOMAIN answered : i \in DOMAIN answered' /\ answered'[i] = answered[i]

LEMMA GroupsOnward ==
  ASSUME WatchTypes, WatchOnward
  PROVE  /\ \A t \in DOMAIN tasks : Group(t)' = Group(t)
         /\ \A i \in DOMAIN answered : /\ answered[i] \in DOMAIN tasks /\ i \in DOMAIN answered'
                                       /\ Group(answered[i])' = Group(answered[i])
<1>1. \A i \in DOMAIN answered : answered[i] \in DOMAIN tasks
  BY DEF WatchTypes
<1>2. \A t \in DOMAIN tasks : Group(t)' = Group(t)
  BY DEF WatchOnward, Group
<1>3. \A i \in DOMAIN answered : i \in DOMAIN answered' /\ Group(answered[i])' = Group(answered[i])
  BY <1>1 DEF WatchOnward, Group
<1> QED BY <1>1, <1>2, <1>3

\* A check goes on: what is answered meanwhile below its cursors is late.
LEMMA ChecksOnward ==
  ASSUME WatchTypes, WatchOnward, NEW p \in Workers, CheckSound(p), worker'[p] = worker[p],
         \A i \in DOMAIN answered' \ DOMAIN answered : \A w \in DOMAIN worker[p].found :
           worker[p].at = "checking" /\ Group(answered[i])' = w[2] /\ Cursor(worker[p].found[w]) >= i
             => <<i, w>> \in late'
  PROVE  CheckSound(p)'
<1>1. SUFFICES ASSUME worker[p].at = "checking"
               PROVE  CheckSound(p)'
  BY DEF CheckSound
<1>2. PICK check : check = worker[p]
  OBVIOUS
<1>3. /\ check.queued \subseteq queued /\ DOMAIN check.found \subseteq DOMAIN watch
      /\ \A w \in DOMAIN check.found :
           /\ \A i \in check.found[w] : i \in DOMAIN answered /\ Group(answered[i]) = w[2]
           /\ \A i \in DOMAIN answered :
                Group(answered[i]) = w[2] /\ Cursor(check.found[w]) >= i =>
                  <<i, w>> \in late \/ Keys(i, {w}) \subseteq queued \/ i \in check.found[w]
  BY <1>1, <1>2 DEF CheckSound
<1>4. \A i \in DOMAIN answered : i \in DOMAIN answered' /\ Group(answered[i])' = Group(answered[i])
  BY GroupsOnward
<1>5. ASSUME NEW w \in DOMAIN check.found, NEW i \in DOMAIN answered',
             Group(answered[i])' = w[2], Cursor(check.found[w]) >= i
      PROVE  <<i, w>> \in late' \/ Keys(i, {w}) \subseteq queued' \/ i \in check.found[w]
  <2>1. CASE i \in DOMAIN answered
    BY <1>3, <1>4, <1>5, <2>1 DEF WatchOnward
  <2>2. CASE i \notin DOMAIN answered
    BY <1>1, <1>2, <1>5, <2>2
  <2> QED BY <2>1, <2>2
<1>6. /\ check.queued \subseteq queued' /\ DOMAIN check.found \subseteq DOMAIN watch'
      /\ \A w \in DOMAIN check.found : \A i \in check.found[w] :
           i \in DOMAIN answered' /\ Group(answered[i])' = w[2]
  BY <1>3, <1>4 DEF WatchOnward
<1>7. worker'[p] = check
  BY <1>2
<1>8. \A S : Cursor(worker[p].found[S])' = Cursor(check.found[S])
  BY <1>7 DEF Cursor
<1>9. \A w \in DOMAIN check.found, i \in DOMAIN answered' :
        Group(answered[i])' = w[2] /\ Cursor(worker[p].found[w])' >= i =>
          <<i, w>> \in late' \/ Keys(i, {w})' \subseteq queued' \/ i \in check.found[w]
  BY <1>5, <1>8, SameKeys
<1> QED BY <1>6, <1>7, <1>9 DEF CheckSound

\* The cursors stand where they stood, or at zero: what is answered meanwhile
\* below them is late.
LEMMA PassedOnward ==
  ASSUME WatchTypes, WatchTypes', WatchOnward, PassedIsContinued,
         \A w \in DOMAIN watch' : watch'[w] = 0 \/ (w \in DOMAIN watch /\ watch'[w] = watch[w]),
         \A i \in DOMAIN answered' \ DOMAIN answered : \A w \in DOMAIN watch :
           Group(answered[i])' = w[2] /\ watch[w] >= i => <<i, w>> \in late'
  PROVE  PassedIsContinued'
<1> SUFFICES ASSUME NEW i \in DOMAIN answered', NEW w \in DOMAIN watch', w[2] = Group(answered[i])',
                    watch'[w] >= i
             PROVE  <<i, w>> \in late' \/ Keys(i, {w})' \subseteq queued'
  BY DEF PassedIsContinued, WatchesOf
<1>1. i \in Nat /\ i > 0
  BY DEF WatchTypes
<1>2. w \in DOMAIN watch /\ watch[w] >= i
  BY <1>1
<1>3. CASE i \notin DOMAIN answered
  BY <1>2, <1>3
<1>4. CASE i \in DOMAIN answered
  <2>1. w \in WatchesOf(Group(answered[i]))
    BY <1>2, <1>4, GroupsOnward DEF WatchesOf
  <2>2. <<i, w>> \in late \/ Keys(i, {w}) \subseteq queued
    BY <1>2, <1>4, <2>1 DEF PassedIsContinued
  <2> QED BY <2>2, SameKeys DEF WatchOnward
<1> QED BY <1>3, <1>4

LEMMA QueuedOnward ==
  ASSUME WatchTypes, WatchOnward, QueuedIsAnswered,
         \A k \in queued' \ queued : k[1] \in DOMAIN answered' /\ k[2] \in WatchesOf(Group(answered[k[1]]))'
  PROVE  QueuedIsAnswered'
<1> SUFFICES ASSUME NEW k \in queued
             PROVE  k[1] \in DOMAIN answered' /\ k[2] \in WatchesOf(Group(answered[k[1]]))'
  BY DEF QueuedIsAnswered
<1>1. k[1] \in DOMAIN answered /\ k[2] \in DOMAIN watch /\ k[2][2] = Group(answered[k[1]])
  BY DEF QueuedIsAnswered, WatchesOf
<1> QED BY <1>1, GroupsOnward DEF WatchOnward, WatchesOf

\* What steps that leave answers and checks alone keep.
LEMMA WatchFrame ==
  ASSUME WInv, WatchTypes', WatchOnward, UNCHANGED <<answered, worker, queued>>,
         \A w \in DOMAIN watch' : watch'[w] = 0 \/ (w \in DOMAIN watch /\ watch'[w] = watch[w])
  PROVE  /\ PassedIsContinued' /\ QueuedIsAnswered'
         /\ \A p \in Workers : CheckSound(p)'
<1>1. PassedIsContinued'
  BY PassedOnward DEF WInv
<1>2. QueuedIsAnswered'
  BY QueuedOnward DEF WInv
<1>3. \A p \in Workers : CheckSound(p)'
  BY ChecksOnward DEF WInv
<1> QED BY <1>1, <1>2, <1>3

LEMMA StartRunWatch ==
  ASSUME WInv, NEW r \in SourceRuns, StartRun(r)
  PROVE  WInv'
<1>1. /\ source[r].at = "new"
      /\ source' = [source EXCEPT ![r].at = "running", ![r].waits = (tasks = <<>>)]
      /\ UNCHANGED <<tasks, watch, answered, answering, ids, queued, reminded, worker, late>>
  BY DEF StartRun
<1>2. WatchTypes /\ AnsweringSound /\ TasksSound /\ DeferredIsWatched
  BY DEF WInv
<1>3. source' = [source EXCEPT ![r] = [source[r] EXCEPT !.at = "running", !.waits = (tasks = <<>>)]]
  BY <1>1, <1>2 DEF WatchTypes
<1>4. /\ source'[r] \in [at : {"new", "running", "done"}, waits : BOOLEAN, version : Versions \cup {None}]
      /\ source'[r].at = "running"
      /\ \A q \in SourceRuns : q # r => source'[q] = source[q]
  <2>1. PICK old \in [at : {"new", "running", "done"}, waits : BOOLEAN, version : Versions \cup {None}] : old = source[r]
    BY <1>2 DEF WatchTypes
  <2>2. source'[r] = [old EXCEPT !.at = "running", !.waits = (tasks = <<>>)]
    BY <1>2, <1>3, <2>1 DEF WatchTypes
  <2> QED BY <1>2, <1>3, <2>1, <2>2 DEF WatchTypes
<1>5. WatchTypes'
  <2>1. source' \in [SourceRuns -> [at : {"new", "running", "done"}, waits : BOOLEAN, version : Versions \cup {None}]]
    BY <1>2, <1>3, <1>4 DEF WatchTypes
  <2> QED BY <1>1, <1>2, <2>1 DEF WatchTypes
<1>6. WatchOnward
  BY <1>1 DEF WatchOnward
<1>7. TasksSound'
  <2>1. \A t \in DOMAIN tasks : tasks[t] \in TaskRows
    BY <1>2 DEF WatchTypes
  <2>2. \A t \in DOMAIN tasks : tasks[t].by \in SourceRuns /\ source[tasks[t].by].at = "done"
    BY <1>2, <2>1 DEF TasksSound, TaskRows
  <2>3. \A t \in DOMAIN tasks : source'[tasks[t].by].at = "done"
    BY <1>1, <1>4, <2>2
  <2> QED BY <1>1, <2>3 DEF TasksSound
<1>8. AnsweringSound'
  BY <1>1, <1>2 DEF AnsweringSound, WatchesOf, Group
<1>9. DeferredIsWatched'
  <2>1. \A t : Group(t)' = Group(t)
    BY <1>1 DEF Group
  <2> SUFFICES ASSUME NEW q \in SourceRuns, source'[q].at = "done", source'[q].waits
               PROVE  /\ \A t \in DOMAIN tasks : tasks[t].by = q => <<q, Group(t)>> \in DOMAIN watch
                      /\ \E w \in DOMAIN watch : w[1] = q /\ w[2][2] = source'[q].version
    BY <1>1, <2>1 DEF DeferredIsWatched
  <2>2. source'[q] = source[q]
    BY <1>4
  <2> QED BY <1>2, <2>2 DEF DeferredIsWatched
<1> QED BY <1>1, <1>5, <1>6, <1>7, <1>8, <1>9, WatchFrame DEF WInv

-----------------------------------------------------------------------------
(* What a run assigns and watches *)

LEMMA SubjectsAsked ==
  ASSUME Parameters
  PROVE  /\ DOMAIN Pairs # {}
         /\ \A i \in DOMAIN Pairs : Pairs[i][1] \in Subjects /\ Pairs[i][2] \in Assignees
         /\ \A s \in Subjects : \E i \in DOMAIN Pairs : Pairs[i][1] = s
         /\ ToSet(Pairs) = {Pairs[i] : i \in DOMAIN Pairs} /\ Pairs \in Seq(Subjects \X Assignees)
<1>1. Pairs \in Seq(Subjects \X Assignees) /\ Pairs # <<>>
  BY DEF Parameters
<1>2. ToSet(Pairs) = {Pairs[i] : i \in DOMAIN Pairs}
  BY DEF ToSet
<1>3. DOMAIN Pairs # {}
  <2>1. DOMAIN Pairs = 1..Len(Pairs) /\ Len(Pairs) \in Nat /\ Len(Pairs) # 0
    BY <1>1
  <2>2. 1 \in DOMAIN Pairs
    BY <2>1
  <2> QED BY <2>2
<1>4. \A i \in DOMAIN Pairs : Pairs[i][1] \in Subjects /\ Pairs[i][2] \in Assignees
  BY <1>2 DEF Subjects, Assignees
<1>5. \A s \in Subjects : \E i \in DOMAIN Pairs : Pairs[i][1] = s
  BY <1>2 DEF Subjects
<1> QED BY <1>1, <1>2, <1>3, <1>4, <1>5

LEMMA WantedRows ==
  ASSUME Parameters, NEW r \in SourceRuns, NEW v \in Versions
  PROVE  /\ Wanted(r, v) \in Seq(TaskRows) /\ DOMAIN Wanted(r, v) = DOMAIN Pairs
         /\ \A i \in DOMAIN Pairs :
              /\ Wanted(r, v)[i].subject = Pairs[i][1] /\ Wanted(r, v)[i].version = v
              /\ Wanted(r, v)[i].by = r
<1> DEFINE row(i) == [subject |-> Pairs[i][1], version |-> v, who |-> Pairs[i][2], by |-> r]
<1>1. \A i \in DOMAIN Pairs : row(i) \in TaskRows
  BY SubjectsAsked DEF TaskRows
<1>2. Wanted(r, v) = [i \in DOMAIN Pairs |-> row(i)]
  BY DEF Wanted
<1>3. DOMAIN Pairs = 1..Len(Pairs) /\ Len(Pairs) \in Nat
  BY SubjectsAsked
<1>4. [i \in DOMAIN Pairs |-> row(i)] \in Seq(TaskRows)
  <2> HIDE DEF row
  <2>1. [i \in 1..Len(Pairs) |-> row(i)] \in [1..Len(Pairs) -> TaskRows]
    BY <1>1, <1>3
  <2> QED BY <1>3, <2>1
<1> QED BY <1>1, <1>2, <1>4

LEMMA MissingRows ==
  ASSUME Parameters, NEW r \in SourceRuns, NEW v \in Versions
  PROVE  /\ Missing(r, v) \in Seq(TaskRows)
         /\ \A row \in ToSet(Missing(r, v)) : row \in TaskRows /\ row.by = r /\ row.version = v
         /\ \A i \in DOMAIN Pairs : SameAs(Wanted(r, v)[i]) = {} =>
              Wanted(r, v)[i] \in ToSet(Missing(r, v))
<1> DEFINE wanted == Wanted(r, v)
           I == {i \in DOMAIN Pairs : SameAs(wanted[i]) = {}}
<1>1. /\ wanted \in Seq(TaskRows) /\ DOMAIN wanted = DOMAIN Pairs
      /\ \A i \in DOMAIN Pairs : wanted[i].version = v /\ wanted[i].by = r
  BY WantedRows
<1>2. Missing(r, v) = Picked(wanted, I)
  BY DEF Missing
<1>3. I \in SUBSET DOMAIN wanted
  BY <1>1
<1>4. \A i \in DOMAIN wanted : wanted[i] \in TaskRows
  BY <1>1
<1>5. \A i \in DOMAIN Pairs : SameAs(wanted[i]) = {} => i \in I
  OBVIOUS
<1>6. PICK list : list = wanted
  OBVIOUS
<1>7. PICK indices \in SUBSET DOMAIN list : indices = I
  BY <1>3, <1>6
<1>8. Picked(list, indices) \in Seq(TaskRows) /\ ToSet(Picked(list, indices)) = {list[i] : i \in indices}
  BY <1>1, <1>6, PickedItems
<1> HIDE DEF wanted, I
<1>9. /\ Missing(r, v) \in Seq(TaskRows)
      /\ \A row \in ToSet(Missing(r, v)) : row \in TaskRows /\ row.by = r /\ row.version = v
      /\ \A i \in DOMAIN Pairs : SameAs(wanted[i]) = {} => wanted[i] \in ToSet(Missing(r, v))
  BY <1>1, <1>2, <1>4, <1>5, <1>6, <1>7, <1>8
<1> QED BY <1>9 DEF wanted

\* The first task of a set of tasks.
LEMMA FirstTask ==
  ASSUME NEW T \in SUBSET Nat, T # {}
  PROVE  SmallestId(T) \in T
<1>1. \E i \in T : \A j \in T : i <= j
  BY Least
<1> QED BY <1>1 DEF SmallestId

\* A run that defers watches the subjects of its own tasks, and always something.
Assigned(r, v, rows, groups) ==
  /\ rows \in Seq(TaskRows) /\ DOMAIN tasks \subseteq DOMAIN rows
  /\ \A t \in DOMAIN tasks : rows[t] = tasks[t]
  /\ \A t \in DOMAIN rows : rows[t].by = r \/ (t \in DOMAIN tasks /\ rows[t].by # r)
  /\ groups \subseteq Subjects \X Versions
  /\ \A t \in DOMAIN rows : rows[t].by = r => <<rows[t].subject, rows[t].version>> \in groups
  /\ \E g \in groups : g[2] = v

LEMMA WatchedOnFinish ==
  ASSUME Parameters, WatchTypes, TasksSound, NEW r \in SourceRuns, NEW v \in Versions,
         source[r].at = "running", NEW rows, rows = tasks \o Missing(r, v)
  PROVE  Assigned(r, v, rows, WatchedGroups(r, rows, Existing(r, v)))
<1>1. /\ Missing(r, v) \in Seq(TaskRows)
      /\ \A row \in ToSet(Missing(r, v)) : row \in TaskRows /\ row.by = r /\ row.version = v
      /\ \A i \in DOMAIN Pairs : SameAs(Wanted(r, v)[i]) = {} =>
           Wanted(r, v)[i] \in ToSet(Missing(r, v))
  BY MissingRows
<1>2. tasks \in Seq(TaskRows)
  BY DEF WatchTypes
<1>3. PICK missing \in Seq(TaskRows) : missing = Missing(r, v)
  BY <1>1
<1>4. /\ rows \in Seq(TaskRows) /\ DOMAIN tasks \subseteq DOMAIN rows /\ DOMAIN rows \subseteq Nat
      /\ ToSet(rows) = ToSet(tasks) \cup ToSet(missing)
      /\ \A t \in DOMAIN tasks : rows[t] = tasks[t]
      /\ \A t \in DOMAIN rows \ DOMAIN tasks : rows[t] \in ToSet(missing)
  BY <1>2, <1>3, Concatenated
<1>5. \A t \in DOMAIN tasks : tasks[t] \in TaskRows /\ tasks[t].by # r
  BY <1>2 DEF TasksSound
<1>6. \A t \in DOMAIN rows : rows[t] \in TaskRows
  BY <1>4
<1>7. \A t \in DOMAIN rows : IF t \in DOMAIN tasks THEN rows[t].by # r ELSE rows[t].by = r /\ rows[t].version = v
  BY <1>1, <1>3, <1>4, <1>5
<1> DEFINE existing == Existing(r, v)
           watched(s) == TasksToWatch(s, r, rows, existing)
           groups == WatchedGroups(r, rows, existing)
<1>8. existing \subseteq DOMAIN tasks
  BY DEF Existing, SameAs
<1>9. /\ \A i \in DOMAIN Pairs : SameAs(Wanted(r, v)[i]) \subseteq existing
      /\ \A t \in existing : \E i \in DOMAIN Pairs : t \in SameAs(Wanted(r, v)[i])
  <2>1. ToSet(Wanted(r, v)) = {Wanted(r, v)[i] : i \in DOMAIN Pairs}
    BY WantedRows DEF ToSet
  <2> QED BY <2>1 DEF Existing
<1>10. \A t \in existing : tasks[t].version = v
  <2> SUFFICES ASSUME NEW t \in existing
               PROVE  tasks[t].version = v
    OBVIOUS
  <2>1. PICK i \in DOMAIN Pairs : t \in SameAs(Wanted(r, v)[i])
    BY <1>9
  <2>2. PICK row \in TaskRows : row = tasks[t]
    BY <1>5, <1>8
  <2>3. PICK want \in TaskRows : want = Wanted(r, v)[i] /\ want.version = v
    BY WantedRows
  <2>4. [row EXCEPT !.by = want.by] = want
    BY <2>1, <2>2, <2>3 DEF SameAs
  <2>5. row.version = want.version
    BY <2>4 DEF TaskRows
  <2> QED BY <2>2, <2>3, <2>5
<1>11. \A s \in Subjects : /\ watched(s) \subseteq DOMAIN rows
                           /\ \A t \in watched(s) : rows[t].version = v
  BY <1>4, <1>7, <1>8, <1>10 DEF TasksToWatch
<1>12. {TasksToWatch(pair[1], r, rows, existing) : pair \in ToSet(Pairs)} = {watched(s) : s \in Subjects}
  BY DEF Subjects
<1>13. groups = {<<rows[t].subject, rows[t].version>> :
                   t \in {SmallestId(T) : T \in {watched(s) : s \in Subjects} \ {{}}}}
  BY <1>12 DEF WatchedGroups
<1>14. \A s \in Subjects : watched(s) # {} =>
         <<rows[SmallestId(watched(s))].subject, rows[SmallestId(watched(s))].version>> \in groups
  BY <1>13
<1>15. \A g \in groups : \E s \in Subjects :
         watched(s) # {} /\ g = <<rows[SmallestId(watched(s))].subject, rows[SmallestId(watched(s))].version>>
  <2> SUFFICES ASSUME NEW g \in groups
               PROVE  \E s \in Subjects : watched(s) # {} /\ g = <<rows[SmallestId(watched(s))].subject,
                                                              rows[SmallestId(watched(s))].version>>
    OBVIOUS
  <2>1. PICK T \in {watched(s) : s \in Subjects} \ {{}} :
          g = <<rows[SmallestId(T)].subject, rows[SmallestId(T)].version>>
    BY <1>13
  <2>2. PICK s \in Subjects : T = watched(s) /\ T # {}
    BY <2>1
  <2> HIDE DEF watched, groups
  <2> QED BY <2>1, <2>2
<1>16. \A s \in Subjects : watched(s) # {} => SmallestId(watched(s)) \in watched(s)
  <2> SUFFICES ASSUME NEW s \in Subjects, watched(s) # {}
               PROVE  SmallestId(watched(s)) \in watched(s)
    OBVIOUS
  <2>1. PICK T \in SUBSET Nat : T = watched(s)
    BY <1>4, <1>11
  <2>2. SmallestId(T) \in T
    BY <2>1, FirstTask
  <2> QED BY <2>1, <2>2
<1>17. groups \subseteq Subjects \X Versions
  BY <1>6, <1>11, <1>15, <1>16 DEF TaskRows
<1>18. ASSUME NEW t \in DOMAIN rows, rows[t].by = r
       PROVE  <<rows[t].subject, rows[t].version>> \in groups
  <2>1. PICK s \in Subjects : s = rows[t].subject
    BY <1>6 DEF TaskRows
  <2>2. watched(s) = {u \in DOMAIN rows : rows[u].by = r /\ rows[u].subject = s}
    BY <1>18, <2>1 DEF TasksToWatch
  <2>3. watched(s) # {} /\ \A u \in watched(s) : rows[u].subject = s /\ rows[u].version = v
    BY <1>11, <1>18, <2>1, <2>2
  <2>4. rows[t].version = v
    BY <1>7, <1>18
  <2> HIDE DEF watched, groups
  <2> QED BY <1>14, <1>16, <2>1, <2>3, <2>4
<1>19. \E g \in groups : g[2] = v
  <2>1. PICK i \in DOMAIN Pairs : TRUE
    BY SubjectsAsked
  <2>2. PICK s \in Subjects : s = Pairs[i][1]
    BY SubjectsAsked
  <2>3. watched(s) # {}
    <3>1. CASE SameAs(Wanted(r, v)[i]) # {}
      BY <1>9, <3>1 DEF TasksToWatch
    <3>2. CASE SameAs(Wanted(r, v)[i]) = {}
      <4>1. Wanted(r, v)[i] \in ToSet(rows)
        BY <1>1, <1>3, <1>4, <3>2
      <4>2. PICK t \in DOMAIN rows : rows[t] = Wanted(r, v)[i]
        BY <4>1 DEF ToSet
      <4>3. rows[t].by = r /\ rows[t].subject = s
        BY <2>2, <4>2, WantedRows
      <4> QED BY <4>3 DEF TasksToWatch
    <3> QED BY <3>1, <3>2
  <2> HIDE DEF watched, groups
  <2> QED BY <1>11, <1>14, <1>16, <2>3
<1> QED BY <1>4, <1>7, <1>17, <1>18, <1>19 DEF Assigned

LEMMA FinishRunWatch ==
  ASSUME Parameters, WInv, NEW r \in SourceRuns, NEW v \in Versions, FinishRun(r, v)
  PROVE  WInv'
<1>1. PICK rows : rows = tasks \o Missing(r, v)
  OBVIOUS
<1>2. PICK groups : groups = WatchedGroups(r, rows, Existing(r, v))
  OBVIOUS
<1>3. PICK new : new = {<<r, g>> : g \in groups}
  OBVIOUS
<1>4. /\ source[r].at = "running"
      /\ source' = [source EXCEPT ![r].at = "done", ![r].version = v]
      /\ tasks' = rows
      /\ watch' = IF source[r].waits
                  THEN [w \in DOMAIN watch \cup new |-> IF w \in DOMAIN watch THEN watch[w] ELSE 0]
                  ELSE watch
      /\ UNCHANGED <<answered, answering, ids, queued, reminded, worker, late>>
  BY <1>1, <1>2, <1>3 DEF FinishRun
<1>5. WatchTypes /\ AnsweringSound /\ TasksSound /\ DeferredIsWatched
  BY DEF WInv
<1>6. /\ rows \in Seq(TaskRows) /\ DOMAIN tasks \subseteq DOMAIN rows
      /\ \A t \in DOMAIN tasks : rows[t] = tasks[t]
      /\ \A t \in DOMAIN rows : rows[t].by = r \/ (t \in DOMAIN tasks /\ rows[t].by # r)
      /\ groups \subseteq Subjects \X Versions
      /\ \A t \in DOMAIN rows : rows[t].by = r => <<rows[t].subject, rows[t].version>> \in groups
      /\ \E g \in groups : g[2] = v
  <2>1. Assigned(r, v, rows, groups)
    BY <1>1, <1>2, <1>4, <1>5, WatchedOnFinish
  <2> QED BY <2>1 DEF Assigned
<1>7. /\ source'[r] \in [at : {"new", "running", "done"}, waits : BOOLEAN, version : Versions \cup {None}]
      /\ source'[r].at = "done" /\ source'[r].waits = source[r].waits /\ source'[r].version = v
      /\ \A q \in SourceRuns : q # r => source'[q] = source[q]
      /\ source' \in [SourceRuns -> [at : {"new", "running", "done"}, waits : BOOLEAN, version : Versions \cup {None}]]
  <2>1. source' = [source EXCEPT ![r] = [source[r] EXCEPT !.at = "done", !.version = v]]
    BY <1>4, <1>5 DEF WatchTypes
  <2>2. PICK old \in [at : {"new", "running", "done"}, waits : BOOLEAN, version : Versions \cup {None}] : old = source[r]
    BY <1>5 DEF WatchTypes
  <2>3. source'[r] = [old EXCEPT !.at = "done", !.version = v]
    BY <1>5, <2>1, <2>2 DEF WatchTypes
  <2> QED BY <1>5, <2>1, <2>2, <2>3 DEF WatchTypes
<1>8. /\ DOMAIN watch' = IF source[r].waits THEN DOMAIN watch \cup new ELSE DOMAIN watch
      /\ \A w \in DOMAIN watch : watch'[w] = watch[w]
      /\ \A w \in DOMAIN watch' \ DOMAIN watch : watch'[w] = 0
  BY <1>4
<1>9. new \subseteq Watches
  BY <1>3, <1>6 DEF Watches
<1>10. DOMAIN watch' \subseteq Watches /\ watch' \in [DOMAIN watch' -> Nat]
  <2>1. \A w \in DOMAIN watch' : watch'[w] \in Nat
    BY <1>5, <1>8 DEF WatchTypes
  <2>2. watch' = [w \in DOMAIN watch' |-> watch'[w]]
    BY <1>4, <1>5 DEF WatchTypes
  <2> QED BY <1>5, <1>8, <1>9, <2>1, <2>2 DEF WatchTypes
<1>11. WatchTypes'
  BY <1>4, <1>5, <1>6, <1>7, <1>10 DEF WatchTypes
<1>12. WatchOnward
  BY <1>4, <1>6, <1>8 DEF WatchOnward
<1>13. TasksSound'
  <2>1. \A t \in DOMAIN rows : rows[t].by \in SourceRuns
    <3>1. \A t \in DOMAIN rows : rows[t] \in TaskRows
      BY <1>6
    <3> QED BY <3>1 DEF TaskRows
  <2>2. \A t \in DOMAIN rows : source'[rows[t].by].at = "done"
    BY <1>5, <1>6, <1>7, <2>1 DEF TasksSound
  <2> QED BY <1>4, <2>2 DEF TasksSound
<1>14. AnsweringSound'
  <2>1. DOMAIN answering \subseteq DOMAIN tasks
    BY <1>5 DEF WatchTypes
  <2>2. \A t \in DOMAIN tasks : WatchesOf(Group(t)) \subseteq WatchesOf(Group(t))'
    BY <1>5, <1>8, <1>12, GroupsOnward DEF WatchesOf
  <2> QED BY <1>4, <1>5, <2>1, <2>2 DEF AnsweringSound
<1>15. DeferredIsWatched'
  <2> SUFFICES ASSUME NEW q \in SourceRuns, source'[q].at = "done", source'[q].waits
               PROVE  /\ \A t \in DOMAIN tasks' : tasks'[t].by = q => <<q, Group(t)'>> \in DOMAIN watch'
                      /\ \E w \in DOMAIN watch' : w[1] = q /\ w[2][2] = source'[q].version
    BY DEF DeferredIsWatched
  <2>1. CASE q = r
    <3>1. DOMAIN watch' = DOMAIN watch \cup new
      BY <1>7, <1>8, <2>1
    <3>2. \A t \in DOMAIN rows : rows[t].by = r => <<r, <<rows[t].subject, rows[t].version>>>> \in new
      BY <1>3, <1>6
    <3>3. \A t \in DOMAIN tasks' : Group(t)' = <<rows[t].subject, rows[t].version>>
      BY <1>4 DEF Group
    <3>4. \E w \in new : w[1] = r /\ w[2][2] = v
      <4>1. PICK g \in groups : g[2] = v
        BY <1>6
      <4>2. <<r, g>> \in new /\ <<r, g>>[1] = r /\ <<r, g>>[2] = g
        BY <1>3
      <4> QED BY <4>1, <4>2
    <3> QED BY <1>4, <1>7, <2>1, <3>1, <3>2, <3>3, <3>4
  <2>2. CASE q # r
    <3>1. source'[q] = source[q]
      BY <1>7, <2>2
    <3>2. \A t \in DOMAIN tasks' : tasks'[t].by = q => t \in DOMAIN tasks /\ tasks[t].by = q
      BY <1>4, <1>6, <2>2
    <3>3. \A t \in DOMAIN tasks : Group(t)' = Group(t)
      BY <1>5, <1>12, GroupsOnward
    <3>4. \A t \in DOMAIN tasks : tasks[t].by = q => <<q, Group(t)>> \in DOMAIN watch
      BY <1>5, <3>1 DEF DeferredIsWatched
    <3>5. \E w \in DOMAIN watch : w[1] = q /\ w[2][2] = source'[q].version
      BY <1>5, <3>1 DEF DeferredIsWatched
    <3> QED BY <1>8, <3>2, <3>3, <3>4, <3>5
  <2> QED BY <2>1, <2>2
<1> QED BY <1>4, <1>8, <1>11, <1>12, <1>13, <1>14, <1>15, WatchFrame DEF WInv

-----------------------------------------------------------------------------
(* The answers *)

\* What a step that leaves runs, tasks and watches alone keeps of them.
LEMMA DeferredKept ==
  ASSUME DeferredIsWatched, TasksSound, UNCHANGED <<source, tasks>>, DOMAIN watch' = DOMAIN watch
  PROVE  DeferredIsWatched' /\ TasksSound'
BY DEF DeferredIsWatched, TasksSound, Group

LEMMA BeginSubmitWatch ==
  ASSUME WInv, NEW t \in DOMAIN tasks, BeginSubmit(t)
  PROVE  WInv'
<1>1. /\ t \notin DOMAIN answering /\ ids' = ids + 1
      /\ answering' = [u \in DOMAIN answering \cup {t} |->
                         IF u = t THEN [id |-> ids + 1, watches |-> WatchesOf(Group(t))] ELSE answering[u]]
      /\ UNCHANGED <<source, tasks, watch, answered, queued, reminded, worker, late>>
  BY DEF BeginSubmit
<1>2. WatchTypes /\ AnsweringSound /\ TasksSound /\ DeferredIsWatched
  BY DEF WInv
<1>3. ids \in Nat /\ ids' \in Nat /\ 1..ids \subseteq 1..ids' /\ ids + 1 \in 1..ids' /\ ids + 1 \notin 1..ids
  BY <1>1, <1>2 DEF WatchTypes
<1>4. DOMAIN answering' = DOMAIN answering \cup {t}
  BY <1>1
<1>5. /\ answering'[t].id = ids + 1 /\ answering'[t].watches = WatchesOf(Group(t))
      /\ answering'[t] \in [id : 1..ids', watches : SUBSET Watches]
  <2>1. WatchesOf(Group(t)) \subseteq Watches
    BY <1>2 DEF WatchesOf, WatchTypes
  <2> QED BY <1>1, <1>3, <2>1
<1>6. \A u \in DOMAIN answering : /\ answering'[u] = answering[u] /\ u # t
                                  /\ answering[u].id \in 1..ids /\ answering[u].watches \subseteq Watches
                                  /\ answering[u] \in [id : 1..ids', watches : SUBSET Watches]
  <2>1. \A u \in DOMAIN answering : answering'[u] = answering[u] /\ u # t
    BY <1>1
  <2>2. \A u \in DOMAIN answering : answering[u] \in [id : 1..ids, watches : SUBSET Watches]
    BY <1>2 DEF WatchTypes
  <2> QED BY <1>3, <2>1, <2>2
<1>7. WatchTypes'
  <2>1. answering' \in [DOMAIN answering' -> [id : 1..ids', watches : SUBSET Watches]]
    BY <1>1, <1>4, <1>5, <1>6
  <2> QED BY <1>1, <1>2, <1>3, <1>4, <2>1 DEF WatchTypes
<1>8. AnsweringSound'
  <2>1. \A u : WatchesOf(Group(u))' = WatchesOf(Group(u))
    BY <1>1 DEF WatchesOf, Group
  <2>2. ids + 1 \notin DOMAIN answered
    BY <1>2, <1>3 DEF WatchTypes
  <2>3. \A u \in DOMAIN answering' : /\ answering'[u].id \notin DOMAIN answered
                                     /\ answering'[u].watches \subseteq WatchesOf(Group(u))
    BY <1>2, <1>4, <1>5, <1>6, <2>2 DEF AnsweringSound
  <2>4. \A u, x \in DOMAIN answering' : answering'[x].id = answering'[u].id => x = u
    BY <1>2, <1>3, <1>4, <1>5, <1>6 DEF AnsweringSound
  <2>5. answered' = answered
    BY <1>1
  <2>6. \A u \in DOMAIN answering' : answering'[u].watches \subseteq WatchesOf(Group(u))'
    BY <2>1, <2>3
  <2> QED BY <2>3, <2>4, <2>5, <2>6 DEF AnsweringSound
<1>9. WatchOnward
  BY <1>1 DEF WatchOnward
<1>10. \A w \in DOMAIN watch' : watch'[w] = 0 \/ (w \in DOMAIN watch /\ watch'[w] = watch[w])
  BY <1>1
<1> QED BY <1>1, <1>2, <1>7, <1>8, <1>9, <1>10, WatchFrame, DeferredKept DEF WInv

\* The request of t is over.
LEMMA EndedSubmit ==
  ASSUME WatchTypes, AnsweringSound, NEW t \in DOMAIN answering, EndSubmit(t), UNCHANGED <<ids, tasks, watch>>
  PROVE  /\ DOMAIN answering' = DOMAIN answering \ {t}
         /\ answering' \in [DOMAIN answering' -> [id : 1..ids', watches : SUBSET Watches]]
         /\ \A u \in DOMAIN answering' : answering'[u] = answering[u] /\ answering[u].id # answering[t].id
         /\ (\A i \in DOMAIN answered' : i \in DOMAIN answered \/ i = answering[t].id) => AnsweringSound'
<1>1. answering' = [u \in DOMAIN answering \ {t} |-> answering[u]]
  BY DEF EndSubmit
<1>2. DOMAIN answering' = DOMAIN answering \ {t} /\ \A u \in DOMAIN answering' : answering'[u] = answering[u]
  BY <1>1
<1>3. answering' \in [DOMAIN answering' -> [id : 1..ids', watches : SUBSET Watches]]
  BY <1>1, <1>2 DEF WatchTypes
<1>4. \A u \in DOMAIN answering' : answering[u].id # answering[t].id
  BY <1>2 DEF AnsweringSound
<1>5. \A u : WatchesOf(Group(u))' = WatchesOf(Group(u))
  BY DEF WatchesOf, Group
<1>6. (\A i \in DOMAIN answered' : i \in DOMAIN answered \/ i = answering[t].id) => AnsweringSound'
  BY <1>2, <1>4, <1>5 DEF AnsweringSound
<1> QED BY <1>2, <1>3, <1>4, <1>6

LEMMA AbortSubmitWatch ==
  ASSUME WInv, NEW t \in DOMAIN tasks, AbortSubmit(t)
  PROVE  WInv'
<1>1. /\ t \in DOMAIN answering /\ EndSubmit(t)
      /\ UNCHANGED <<source, tasks, watch, answered, ids, queued, reminded, worker, late>>
  BY DEF AbortSubmit
<1>2. WatchTypes /\ AnsweringSound /\ TasksSound /\ DeferredIsWatched
  BY DEF WInv
<1>3. /\ DOMAIN answering' = DOMAIN answering \ {t}
      /\ answering' \in [DOMAIN answering' -> [id : 1..ids', watches : SUBSET Watches]]
      /\ AnsweringSound'
  BY <1>1, <1>2, EndedSubmit
<1>4. WatchTypes'
  BY <1>1, <1>2, <1>3 DEF WatchTypes
<1>5. WatchOnward /\ \A w \in DOMAIN watch' : watch'[w] = 0 \/ (w \in DOMAIN watch /\ watch'[w] = watch[w])
  BY <1>1 DEF WatchOnward
<1> QED BY <1>1, <1>2, <1>3, <1>4, <1>5, WatchFrame, DeferredKept DEF WInv

\* An answer that a cursor has passed, or is about to, is late.
LEMMA CommitSubmitWatch ==
  ASSUME WInv, NEW t \in DOMAIN tasks, CommitSubmit(t)
  PROVE  WInv'
<1>1. PICK id : id = answering[t].id
  OBVIOUS
<1>2. PICK watches : watches = answering[t].watches
  OBVIOUS
<1>3. /\ t \in DOMAIN answering /\ EndSubmit(t)
      /\ answered' = [i \in DOMAIN answered \cup {id} |-> IF i = id THEN t ELSE answered[i]]
      /\ queued' = queued \cup Keys(id, watches)
      /\ late' = late \cup {<<id, w>> : w \in {x \in WatchesOf(Group(t)) : Passes(id, x)}}
      /\ UNCHANGED <<source, tasks, watch, ids, reminded, worker>>
  BY <1>1, <1>2 DEF CommitSubmit, QueuedWith
<1>4. WatchTypes /\ AnsweringSound /\ TasksSound /\ DeferredIsWatched
  BY DEF WInv
<1>5. id \in 1..ids /\ id \notin DOMAIN answered /\ watches \subseteq WatchesOf(Group(t))
  BY <1>1, <1>2, <1>3, <1>4 DEF WatchTypes, AnsweringSound
<1>6. /\ DOMAIN answered' = DOMAIN answered \cup {id} /\ answered'[id] = t
      /\ \A i \in DOMAIN answered : answered'[i] = answered[i]
  BY <1>3, <1>5
<1>7. /\ DOMAIN answering' = DOMAIN answering \ {t}
      /\ answering' \in [DOMAIN answering' -> [id : 1..ids', watches : SUBSET Watches]]
      /\ AnsweringSound'
  BY <1>1, <1>3, <1>4, <1>6, EndedSubmit
<1>8. WatchTypes'
  <2>1. answered' \in [DOMAIN answered' -> DOMAIN tasks]
    BY <1>3, <1>4, <1>6 DEF WatchTypes
  <2> QED BY <1>3, <1>4, <1>5, <1>6, <1>7, <2>1 DEF WatchTypes
<1>9. WatchOnward
  BY <1>3, <1>6 DEF WatchOnward
<1>10. Group(answered[id])' = Group(t) /\ \A u : Group(u)' = Group(u)
  BY <1>3, <1>6 DEF Group
<1>11. \A w \in DOMAIN watch : w[2] = Group(t) /\ Passes(id, w) => <<id, w>> \in late'
  BY <1>3 DEF WatchesOf
<1>12. \A i \in DOMAIN answered' \ DOMAIN answered : i = id
  BY <1>6
<1>13. ASSUME NEW p \in Workers
       PROVE  CheckSound(p)'
  <2>1. \A w \in DOMAIN worker[p].found :
          worker[p].at = "checking" /\ Group(answered[id])' = w[2] /\ Cursor(worker[p].found[w]) >= id
            => <<id, w>> \in late'
    <3> SUFFICES ASSUME NEW w \in DOMAIN worker[p].found, worker[p].at = "checking",
                        Group(t) = w[2], Cursor(worker[p].found[w]) >= id
                 PROVE  <<id, w>> \in late'
      BY <1>10
    <3>1. Passes(id, w)
      BY DEF Passes
    <3>2. w \in DOMAIN watch
      BY DEF WInv, CheckSound
    <3> QED BY <1>11, <3>1, <3>2
  <2> QED BY <1>3, <1>4, <1>9, <1>12, <2>1, ChecksOnward DEF WInv
<1>14. PassedIsContinued'
  <2>1. \A w \in DOMAIN watch : Group(answered[id])' = w[2] /\ watch[w] >= id => <<id, w>> \in late'
    BY <1>10, <1>11 DEF Passes
  <2>2. \A w \in DOMAIN watch' : w \in DOMAIN watch /\ watch'[w] = watch[w]
    BY <1>3
  <2> QED BY <1>4, <1>8, <1>9, <1>12, <2>1, <2>2, PassedOnward DEF WInv
<1>15. QueuedIsAnswered'
  <2>1. \A k \in queued' \ queued : k[1] = id /\ k[2] \in watches
    BY <1>3 DEF Keys
  <2>2. WatchesOf(Group(answered[id]))' = WatchesOf(Group(t))
    BY <1>3, <1>10 DEF WatchesOf
  <2>3. \A k \in queued' \ queued : k[1] \in DOMAIN answered' /\ k[2] \in WatchesOf(Group(answered[k[1]]))'
    BY <1>5, <1>6, <2>1, <2>2
  <2> QED BY <1>4, <1>9, <2>3, QueuedOnward DEF WInv
<1> QED BY <1>3, <1>4, <1>7, <1>8, <1>13, <1>14, <1>15, DeferredKept DEF WInv

-----------------------------------------------------------------------------
(* The checks of the workers *)

LEMMA CursorIsLast ==
  ASSUME NEW N \in Nat, NEW found \in SUBSET (1..N)
  PROVE  /\ Cursor(found) \in Nat
         /\ found = {} => Cursor(found) = 0
         /\ found # {} => Cursor(found) \in found /\ \A j \in found : j <= Cursor(found)
<1>1. CASE found = {}
  BY <1>1 DEF Cursor
<1>2. CASE found # {}
  <2>1. \E i \in found : \A j \in found : j <= i
    <3>1. found \in SUBSET (0..N)
      OBVIOUS
    <3> QED BY <1>2, <3>1, Greatest
  <2>2. Cursor(found) \in found /\ \A j \in found : j <= Cursor(found)
    BY <1>2, <2>1 DEF Cursor
  <2>3. Cursor(found) \in 1..N
    BY <2>2
  <2>4. Cursor(found) \in Nat
    BY <2>3
  <2> QED BY <1>2, <2>2, <2>4
<1> QED BY <1>1, <1>2

\* The first so many ids of a set leave out none up to the last of them.
LEMMA NoneLeftOut ==
  ASSUME NEW N \in Nat, NEW S \in SUBSET (1..N), NEW n \in Nat,
         NEW i \in S, i <= Cursor(FirstOf(S, n))
  PROVE  i \in FirstOf(S, n)
<1>1. PICK F \in SUBSET (1..N) : F = FirstOf(S, n)
  BY DEF FirstOf
<1>2. F # {}
  BY <1>1, CursorIsLast
<1>3. PICK c \in F : c = Cursor(F)
  BY <1>2, CursorIsLast
<1>4. {j \in S : j < i} \subseteq {j \in S : j < c}
  <2>1. i \in Nat /\ c \in Nat /\ i <= c /\ \A j \in S : j \in Nat
    BY <1>1, <1>3
  <2>2. \A j \in S : j < i => j < c
    BY <2>1
  <2> QED BY <2>2
<1>5. IsFiniteSet({j \in S : j < c})
  <2>1. IsFiniteSet(1..N)
    BY FS_Interval
  <2> QED BY <2>1, FS_Subset
<1>6. Cardinality({j \in S : j < i}) <= Cardinality({j \in S : j < c})
  BY <1>4, <1>5, FS_Subset
<1>7. Cardinality({j \in S : j < c}) < n
  BY <1>1, <1>3 DEF FirstOf
<1>8. IsFiniteSet({j \in S : j < i})
  BY <1>4, <1>5, FS_Subset
<1>9. Cardinality({j \in S : j < i}) \in Nat /\ Cardinality({j \in S : j < c}) \in Nat
  BY <1>5, <1>8, FS_CardinalityType
<1>10. Cardinality({j \in S : j < i}) < n
  BY <1>6, <1>7, <1>9
<1> QED BY <1>10 DEF FirstOf

\* The transaction of one worker changes, and not its idleness alone.
LEMMA OtherChecks ==
  ASSUME WInv, NEW p \in Workers, WatchOnward, UNCHANGED answered,
         NEW state, worker' = [worker EXCEPT ![p] = state]
  PROVE  /\ DOMAIN worker' = Workers /\ worker'[p] = state
         /\ \A q \in Workers : q # p => CheckSound(q)'
         /\ (state.at # "checking") => CheckSound(p)'
<1>1. DOMAIN worker = Workers
  BY DEF WInv, WatchTypes
<1>2. DOMAIN worker' = Workers /\ worker'[p] = state /\ \A q \in Workers : q # p => worker'[q] = worker[q]
  BY <1>1
<1>3. \A q \in Workers : q # p => CheckSound(q)'
  BY <1>2, ChecksOnward DEF WInv
<1>4. (state.at # "checking") => CheckSound(p)'
  BY <1>2 DEF CheckSound
<1> QED BY <1>2, <1>3, <1>4

LEMMA BeginCheckWatch ==
  ASSUME Parameters, WInv, NEW p \in Workers, NEW due \in SUBSET DOMAIN watch, NEW overdue,
         BeginCheck(p, due, overdue)
  PROVE  WInv'
<1> DEFINE found == [w \in due |-> FirstOf(After(w), Limit)]
           reminds == {t \in overdue : Unanswered(t) /\ t \notin reminded}
<1>1. /\ worker' = [worker EXCEPT ![p] = [at |-> "checking", found |-> found, queued |-> queued, overdue |-> reminds]]
      /\ UNCHANGED <<source, tasks, watch, answered, answering, ids, queued, reminded, late>>
  BY DEF BeginCheck
<1>2. WatchTypes /\ AnsweringSound /\ TasksSound /\ DeferredIsWatched
  BY DEF WInv
<1>3. WatchOnward
  BY <1>1 DEF WatchOnward
<1>4. PICK check : /\ check.at = "checking" /\ check.found = found /\ check.queued = queued
                   /\ worker' = [worker EXCEPT ![p] = check]
  <2> HIDE DEF found, reminds
  <2> QED BY <1>1
<1>5. DOMAIN worker' = Workers /\ worker'[p] = check /\ \A q \in Workers : q # p => CheckSound(q)'
  BY <1>1, <1>3, <1>4, OtherChecks
<1>6. ids \in Nat /\ DOMAIN answered \subseteq 1..ids /\ Limit \in Nat
  BY <1>2 DEF WatchTypes, Parameters
<1>7. ASSUME NEW w \in due
      PROVE  /\ \A i \in found[w] : i \in DOMAIN answered /\ Group(answered[i]) = w[2]
             /\ \A i \in DOMAIN answered : Group(answered[i]) = w[2] /\ Cursor(found[w]) >= i =>
                  <<i, w>> \in late \/ Keys(i, {w}) \subseteq queued \/ i \in found[w]
  <2>1. found[w] = FirstOf(After(w), Limit)
    OBVIOUS
  <2> HIDE DEF found
  <2>2. PICK S \in SUBSET (1..ids) : S = After(w)
    BY <1>6 DEF After
  <2>3. \A i \in S : i \in DOMAIN answered /\ Group(answered[i]) = w[2]
    BY <2>2 DEF After
  <2>4. found[w] \subseteq S
    BY <2>1, <2>2 DEF FirstOf
  <2>5. ASSUME NEW i \in DOMAIN answered, Group(answered[i]) = w[2], Cursor(found[w]) >= i
        PROVE  <<i, w>> \in late \/ Keys(i, {w}) \subseteq queued \/ i \in found[w]
    <3>1. i \in Nat /\ watch[w] \in Nat
      BY <1>2, <1>6 DEF WatchTypes
    <3>2. CASE watch[w] >= i
      <4>1. w \in WatchesOf(Group(answered[i]))
        BY <2>5 DEF WatchesOf
      <4> QED BY <3>2, <4>1 DEF WInv, PassedIsContinued
    <3>3. CASE watch[w] < i
      <4>1. i \in S
        BY <2>2, <2>5, <3>1, <3>3 DEF After
      <4>2. Cursor(FirstOf(S, Limit)) >= i
        BY <2>1, <2>2, <2>5
      <4>3. Cursor(FirstOf(S, Limit)) \in Nat
        <5>1. FirstOf(S, Limit) \in SUBSET (1..ids)
          BY DEF FirstOf
        <5> QED BY <1>6, <5>1, CursorIsLast
      <4>4. i <= Cursor(FirstOf(S, Limit))
        BY <3>1, <4>2, <4>3
      <4>5. i \in FirstOf(S, Limit)
        BY <1>6, <4>1, <4>4, NoneLeftOut
      <4> QED BY <2>1, <2>2, <4>5
    <3> QED BY <3>1, <3>2, <3>3
  <2> QED BY <2>3, <2>4, <2>5
<1>8. DOMAIN found = due
  OBVIOUS
<1>9. \A i : Group(answered[i])' = Group(answered[i])
  BY <1>1 DEF Group
<1> HIDE DEF found
<1>10. \A w : Cursor(worker[p].found[w])' = Cursor(check.found[w])
  <2>1. worker'[p].found = check.found
    BY <1>5
  <2> QED BY <2>1 DEF Cursor
<1>11. CheckSound(p)'
  <2>1. \A w \in DOMAIN check.found :
          /\ \A i \in check.found[w] : i \in DOMAIN answered /\ Group(answered[i]) = w[2]
          /\ \A i \in DOMAIN answered : Group(answered[i]) = w[2] /\ Cursor(check.found[w]) >= i =>
               <<i, w>> \in late \/ Keys(i, {w}) \subseteq queued \/ i \in check.found[w]
    BY <1>4, <1>7, <1>8
  <2>2. \A w \in DOMAIN check.found :
          /\ \A i \in check.found[w] : i \in DOMAIN answered' /\ Group(answered[i])' = w[2]
          /\ \A i \in DOMAIN answered' : Group(answered[i])' = w[2] /\ Cursor(worker[p].found[w])' >= i =>
               <<i, w>> \in late' \/ Keys(i, {w})' \subseteq queued' \/ i \in check.found[w]
    BY <1>1, <1>9, <1>10, <2>1, SameKeys
  <2>3. check.queued \subseteq queued' /\ DOMAIN check.found \subseteq DOMAIN watch'
    BY <1>1, <1>4, <1>8
  <2> QED BY <1>5, <2>2, <2>3 DEF CheckSound
<1>12. WatchTypes'
  BY <1>1, <1>2, <1>5 DEF WatchTypes
<1>13. AnsweringSound'
  BY <1>1, <1>2 DEF AnsweringSound, WatchesOf, Group
<1>14. PassedIsContinued' /\ QueuedIsAnswered'
  BY <1>1, <1>2, <1>3, <1>12, PassedOnward, QueuedOnward DEF WInv
<1> QED BY <1>1, <1>2, <1>5, <1>11, <1>12, <1>13, <1>14, DeferredKept DEF WInv

\* A check that is given up, and a worker that starts again.
LEMMA IdleWatch ==
  ASSUME WInv, NEW p \in Workers, NEW state, state.at # "checking",
         worker' = [worker EXCEPT ![p] = state],
         UNCHANGED <<source, tasks, watch, answered, answering, ids, queued, reminded, late>>
  PROVE  WInv'
<1>1. WatchTypes /\ AnsweringSound /\ TasksSound /\ DeferredIsWatched
  BY DEF WInv
<1>2. WatchOnward
  BY DEF WatchOnward
<1>3. DOMAIN worker' = Workers /\ \A q \in Workers : CheckSound(q)'
  BY <1>2, OtherChecks
<1>4. WatchTypes'
  BY <1>1, <1>3 DEF WatchTypes
<1>5. AnsweringSound'
  BY <1>1 DEF AnsweringSound, WatchesOf, Group
<1>6. PassedIsContinued' /\ QueuedIsAnswered'
  BY <1>1, <1>2, <1>4, PassedOnward, QueuedOnward DEF WInv
<1> QED BY <1>1, <1>3, <1>4, <1>5, <1>6, DeferredKept DEF WInv

\* What the check has read is queued, and its cursors pass nothing else.
LEMMA CommitCheckWatch ==
  ASSUME WInv, NEW p \in Workers, CommitCheck(p)
  PROVE  WInv'
<1>1. PICK found : found = worker[p].found
  OBVIOUS
<1>2. PICK new : new = NewKeys(p)
  OBVIOUS
<1>3. /\ worker[p].at = "checking"
      /\ queued' = queued \cup new
      /\ watch' = [w \in DOMAIN watch |-> IF w \in DOMAIN found /\ found[w] # {} THEN Cursor(found[w]) ELSE watch[w]]
      /\ worker' = [worker EXCEPT ![p] = Idle]
      /\ UNCHANGED <<source, tasks, answered, answering, ids, late>>
  BY <1>1, <1>2 DEF CommitCheck
<1>4. WatchTypes /\ AnsweringSound /\ TasksSound /\ DeferredIsWatched /\ CheckSound(p)
  BY DEF WInv
<1>5. /\ worker[p].queued \subseteq queued /\ DOMAIN found \subseteq DOMAIN watch
      /\ \A w \in DOMAIN found :
           /\ \A i \in found[w] : i \in DOMAIN answered /\ Group(answered[i]) = w[2]
           /\ \A i \in DOMAIN answered : Group(answered[i]) = w[2] /\ Cursor(found[w]) >= i =>
                <<i, w>> \in late \/ Keys(i, {w}) \subseteq queued \/ i \in found[w]
  BY <1>1, <1>3, <1>4 DEF CheckSound
<1>6. DOMAIN watch' = DOMAIN watch
  BY <1>3
<1>7. WatchOnward
  BY <1>3, <1>6 DEF WatchOnward
<1>8. /\ \A w \in DOMAIN found : \A i \in found[w] : Keys(i, {w}) \subseteq queued'
      /\ \A k \in new : \E w \in DOMAIN found : \E i \in found[w] : k \in Keys(i, {w})
  <2> DEFINE of(w) == UNION {Keys(i, {w}) : i \in found[w]}
  <2>1. new = (UNION {of(w) : w \in DOMAIN found}) \ worker[p].queued
    BY <1>1, <1>2 DEF NewKeys
  <2>2. \A w, k : k \in of(w) <=> \E i \in found[w] : k \in Keys(i, {w})
    OBVIOUS
  <2> HIDE DEF of
  <2>3. \A k : k \in new <=> (\E w \in DOMAIN found : k \in of(w)) /\ k \notin worker[p].queued
    <3>1. PICK U : U = {of(w) : w \in DOMAIN found}
      OBVIOUS
    <3>2. \A T : T \in U <=> \E w \in DOMAIN found : T = of(w)
      BY <3>1
    <3>3. \A k : k \in UNION U <=> \E w \in DOMAIN found : k \in of(w)
      BY <3>2
    <3>4. new = (UNION U) \ worker[p].queued
      BY <2>1, <3>1
    <3> QED BY <3>3, <3>4
  <2>4. worker[p].queued \subseteq queued'
    BY <1>3, <1>5
  <2> QED BY <1>3, <2>2, <2>3, <2>4
<1>9. \A w \in DOMAIN found : Cursor(found[w]) \in Nat
  <2> SUFFICES ASSUME NEW w \in DOMAIN found
               PROVE  Cursor(found[w]) \in Nat
    OBVIOUS
  <2>1. PICK S \in SUBSET (1..ids) : S = found[w]
    BY <1>4, <1>5 DEF WatchTypes
  <2> QED BY <1>4, <2>1, CursorIsLast DEF WatchTypes
<1>10. watch' \in [DOMAIN watch' -> Nat]
  BY <1>3, <1>4, <1>6, <1>9 DEF WatchTypes
<1>11. Idle.at # "checking"
  BY DEF Idle
<1>12. DOMAIN worker' = Workers /\ \A q \in Workers : CheckSound(q)'
  <2>1. PICK state : state = Idle
    OBVIOUS
  <2> QED BY <1>3, <1>7, <1>11, <2>1, OtherChecks
<1>13. WatchTypes'
  BY <1>3, <1>4, <1>6, <1>10, <1>12 DEF WatchTypes
<1>14. /\ \A u : Group(u)' = Group(u)
       /\ \A g : WatchesOf(g)' = WatchesOf(g)
  BY <1>3, <1>6 DEF Group, WatchesOf
<1>15. AnsweringSound'
  BY <1>3, <1>4, <1>14 DEF AnsweringSound
<1>16. PassedIsContinued'
  <2> SUFFICES ASSUME NEW i \in DOMAIN answered, NEW w \in DOMAIN watch, w[2] = Group(answered[i]),
                      watch'[w] >= i
               PROVE  <<i, w>> \in late \/ Keys(i, {w}) \subseteq queued'
    BY <1>3, <1>6, <1>14, SameKeys DEF PassedIsContinued, WatchesOf
  <2>1. CASE w \in DOMAIN found /\ found[w] # {}
    <3>1. Cursor(found[w]) >= i
      BY <1>3, <2>1
    <3>2. <<i, w>> \in late \/ Keys(i, {w}) \subseteq queued \/ i \in found[w]
      BY <1>5, <2>1, <3>1
    <3> QED BY <1>3, <1>8, <2>1, <3>2
  <2>2. CASE ~(w \in DOMAIN found /\ found[w] # {})
    <3>1. watch[w] >= i
      BY <1>3, <2>2
    <3>2. w \in WatchesOf(Group(answered[i]))
      BY DEF WatchesOf
    <3>3. <<i, w>> \in late \/ Keys(i, {w}) \subseteq queued
      BY <3>1, <3>2 DEF WInv, PassedIsContinued
    <3> QED BY <1>3, <3>3
  <2> QED BY <2>1, <2>2
<1>17. QueuedIsAnswered'
  <2>1. ASSUME NEW k \in queued' \ queued
        PROVE  k[1] \in DOMAIN answered /\ k[2] \in WatchesOf(Group(answered[k[1]]))
    <3>1. PICK w \in DOMAIN found : \E i \in found[w] : k \in Keys(i, {w})
      BY <1>3, <1>8, <2>1
    <3>2. PICK i \in found[w] : k \in Keys(i, {w})
      BY <3>1
    <3>3. k[1] = i /\ k[2] = w
      BY <3>2 DEF Keys
    <3> QED BY <1>5, <3>3 DEF WatchesOf
  <2>2. \A i : WatchesOf(Group(answered[i]))' = WatchesOf(Group(answered[i]))
    BY <1>3, <1>6 DEF Group, WatchesOf
  <2> QED BY <1>3, <1>4, <1>7, <2>1, <2>2, QueuedOnward DEF WInv
<1> QED BY <1>3, <1>4, <1>6, <1>12, <1>13, <1>15, <1>16, <1>17, DeferredKept DEF WInv

\* _downstream_leaves of the watched node.
LEMMA LeavesCovered ==
  ASSUME Parameters
  PROVE  LeavesCover
<1> DEFINE reached == Downstream({GetNode}, Flow)
           ends == {m \in reached : Downstream({m}, Flow) = {}}
<1>1. \A m \in reached : \E l \in ends : m \in UpstreamClosure(l, Flow)
  BY EndsReachBack DEF Parameters
<1>2. ends # {} => Leaves(Flow, GetNode) = ends
  BY DEF Leaves
<1> HIDE DEF ends, reached
<1>3. SUFFICES ASSUME NEW m \in reached
               PROVE  \E l \in Leaves(Flow, GetNode) : m \in UpstreamClosure(l, Flow)
  BY DEF LeavesCover, reached
<1> QED BY <1>1, <1>2

-----------------------------------------------------------------------------
(* The invariant and what it shows *)

LEMMA WatchStarts ==
  ASSUME Init
  PROVE  WInv
<1>1. /\ source = [r \in SourceRuns |-> [at |-> "new", waits |-> FALSE, version |-> None]]
      /\ tasks = <<>> /\ watch = [w \in {} |-> 0]
      /\ answered = [i \in {} |-> 0] /\ answering = [t \in {} |-> 0] /\ ids = 0 /\ queued = {}
      /\ worker = [p \in Workers |-> [at |-> "idle"]]
  BY DEF Init, Unstarted, Idle
<1>2. DOMAIN tasks = {} /\ DOMAIN watch = {} /\ DOMAIN answered = {} /\ DOMAIN answering = {}
  BY <1>1
<1>3. \A r \in SourceRuns : source[r].at = "new"
  BY <1>1
<1>4. \A p \in Workers : worker[p].at = "idle"
  BY <1>1
<1>5. WatchTypes
  <2>1. watch \in [DOMAIN watch -> Nat] /\ answered \in [DOMAIN answered -> DOMAIN tasks]
        /\ answering \in [DOMAIN answering -> [id : 1..ids, watches : SUBSET Watches]]
    BY <1>1, <1>2
  <2>2. tasks \in Seq(TaskRows) /\ DOMAIN worker = Workers /\ ids \in Nat
    BY <1>1
  <2>3. source \in [SourceRuns -> [at : {"new", "running", "done"}, waits : BOOLEAN, version : Versions \cup {None}]]
    BY <1>1
  <2> QED BY <1>2, <2>1, <2>2, <2>3 DEF WatchTypes
<1>6. AnsweringSound /\ TasksSound
  BY <1>2 DEF AnsweringSound, TasksSound
<1>7. \A p \in Workers : CheckSound(p)
  BY <1>4 DEF CheckSound
<1>8. PassedIsContinued /\ QueuedIsAnswered /\ DeferredIsWatched
  BY <1>1, <1>2, <1>3 DEF PassedIsContinued, QueuedIsAnswered, DeferredIsWatched
<1> QED BY <1>5, <1>6, <1>7, <1>8 DEF WInv

LEMMA WatchContinues ==
  ASSUME Parameters, WInv, [Next]_(vars)
  PROVE  WInv'
<1>1. CASE \E r \in SourceRuns : StartRun(r)
  BY <1>1, StartRunWatch
<1>2. CASE \E r \in SourceRuns : \E v \in Versions : FinishRun(r, v)
  BY <1>2, FinishRunWatch
<1>3. CASE \E t \in DOMAIN tasks : BeginSubmit(t)
  BY <1>3, BeginSubmitWatch
<1>4. CASE \E t \in DOMAIN tasks : CommitSubmit(t)
  BY <1>4, CommitSubmitWatch
<1>5. CASE \E t \in DOMAIN tasks : AbortSubmit(t)
  BY <1>5, AbortSubmitWatch
<1>6. CASE \E p \in Workers : \E due \in SUBSET DOMAIN watch, overdue \in {{}, DOMAIN tasks} :
             BeginCheck(p, due, overdue)
  <2>1. PICK p \in Workers, due \in SUBSET DOMAIN watch, overdue \in {{}, DOMAIN tasks} :
          BeginCheck(p, due, overdue)
    BY <1>6
  <2> QED BY <2>1, BeginCheckWatch
<1>7. CASE \E p \in Workers : CommitCheck(p)
  BY <1>7, CommitCheckWatch
<1>8. CASE \E p \in Workers : ConflictCheck(p) \/ RestartWorker(p)
  <2>1. PICK p \in Workers : ConflictCheck(p) \/ RestartWorker(p)
    BY <1>8
  <2>2. PICK state : /\ state.at # "checking" /\ worker' = [worker EXCEPT ![p] = state]
                     /\ UNCHANGED <<source, tasks, watch, answered, answering, ids, queued, reminded, late>>
    <3>1. Idle.at # "checking" /\ Down.at # "checking"
      BY DEF Idle, Down
    <3>2. PICK idle, down : idle = Idle /\ down = Down
      OBVIOUS
    <3> QED BY <2>1, <3>1, <3>2 DEF ConflictCheck, RestartWorker
  <2> QED BY <2>2, IdleWatch
<1>9. CASE UNCHANGED vars
  <2>1. UNCHANGED <<source, tasks, watch, answered, answering, ids, queued, reminded, worker, late>>
    BY <1>9 DEF vars
  <2>2. /\ \A t : Group(t)' = Group(t)
        /\ \A g : WatchesOf(g)' = WatchesOf(g)
    BY <2>1 DEF Group, WatchesOf
  <2>3. WatchTypes' /\ TasksSound'
    BY <2>1 DEF WInv, WatchTypes, TasksSound
  <2>4. AnsweringSound' /\ DeferredIsWatched'
    BY <2>1, <2>2 DEF WInv, AnsweringSound, DeferredIsWatched
  <2>5. WatchOnward
    BY <2>1 DEF WatchOnward
  <2> QED BY <2>1, <2>3, <2>4, <2>5, WatchFrame DEF WInv
<1> QED BY <1>1, <1>2, <1>3, <1>4, <1>5, <1>6, <1>7, <1>8, <1>9 DEF Next

\* Watches, answers, checks and continuation runs keep the invariant.
THEOREM WatchInvariance ==
  ASSUME Parameters
  PROVE  Spec => []WInv
<1>1. Init => WInv
  BY WatchStarts
<1>2. Parameters /\ WInv /\ [Next]_(vars) => WInv'
  BY WatchContinues
<1> QED BY <1>1, <1>2, PTL DEF Spec

\* What answers promise: a cursor passes no answer whose continuations are not
\* queued unless that answer was late, nothing is queued without an answer, no
\* deferred run is left without a watch, and the runs queued reach all of what
\* follows the node.
THEOREM WatchCorrect ==
  ASSUME Parameters
  PROVE  Spec => []WatchHolds
<1>1. WInv => WatchHolds
  BY LeavesCovered DEF WInv, WatchHolds
<1> QED BY <1>1, WatchInvariance, PTL
=============================================================================
