------------------------- MODULE ChildProgressProofs -------------------------
(***************************************************************************)
(* What the row of a run says about its nodes, for every plan, every set   *)
(* of components and any number of attempts: workers that lose the run, go *)
(* on with it or die at any moment do not make it say more than the child  *)
(* of its own attempt has done, a success leaves nothing out, a failure    *)
(* has one place, and a run whose attempt was stopped leaves nothing open. *)
(***************************************************************************)
EXTENDS ChildProgress, TLAPS

Hidden(n) == ToSet(Inside[n])
Visible == Planned \cup Aside
Named == Visible \cup UNION {Hidden(n) : n \in Planned}
Statuses == {"queued", "running", "done", "skipped", "cancelled", "failed"}
Marks == UNION {[D -> Statuses] : D \in SUBSET Named}

\* What every theorem assumes of the constants: nodes are planned once, a
\* component has nodes of its own, and None is none of the values it stands beside.
Parameters ==
  /\ Order \in Seq(Planned) /\ IsInjective(Order)
  /\ Planned \cap Aside = {}
  /\ \A n \in Planned : /\ Inside[n] \in Seq(Hidden(n)) /\ IsInjective(Inside[n])
                        /\ Hidden(n) \cap Visible = {}
  /\ \A m, n \in Planned : m # n => Hidden(m) \cap Hidden(n) = {}
  /\ MayDefer \subseteq Planned
  /\ {MaxAttempts, MaxClaims} \subseteq Nat
  /\ None \notin Attempts \cup Marks \cup [status : Terminal, cause : {"node", "graph", None}]
  /\ None \notin Terminal \cup {"node", "graph"}

-----------------------------------------------------------------------------
(* The inductive invariant.                                                *)

ChildState ==
  [at : {"forked", "ready", "node", "inner", "over", "written", "exited", "killed", "cpu time"},
   pos : 1 .. Len(Order) + 1, inner : Nat \ {0}, nodes : Marks,
   deferred : SUBSET UNION {Follows[m] : m \in MayDefer},
   result : {None, "failed", "cancelled"}, cause : {None, "node", "graph"}]

FileState ==
  [progress : Marks \cup {None}, result : {None, "succeeded", "failed", "cancelled"},
   cause : {None, "node", "graph"}, cancel : BOOLEAN]

TypeOK ==
  /\ row \in [status : Open \cup Terminal, attempt : 0..MaxClaims, by : Attempts \cup {None},
              cancel : BOOLEAN, nodes : Marks]
  /\ child \in [Attempts -> ChildState \cup {NoChild}]
  /\ files \in [Attempts -> FileState]
  /\ monitor \in [Attempts -> [at : {"gone", "watching", "syncing"},
                               why : {None, "timed_out", "failed", "cancelled"},
                               read : Marks \cup {None}]]
  /\ ended \in {None} \cup [status : Terminal, cause : {"node", "graph", None}]
  /\ stale \in BOOLEAN

\* A node waits for answers that a node before it has asked for.
Excused(nodes, n) == \E m \in MayDefer : nodes[m] = "done" /\ n \in Follows[m]
Finished(nodes, n) == nodes[n] = "done" \/ (nodes[n] = "skipped" /\ Excused(nodes, n))

\* What a child has done up to a place of the plan, and not yet beyond it.
Through(nodes, pos) == \A p \in DOMAIN Order : p < pos => Finished(nodes, Order[p])
Ahead(nodes, pos) == \A p \in DOMAIN Order : p > pos => nodes[Order[p]] = "queued"
HiddenIn(nodes) == DOMAIN nodes \ Visible

Complete(nodes) ==
  /\ \A p \in DOMAIN Order : Finished(nodes, Order[p])
  /\ \A n \in HiddenIn(nodes) : nodes[n] = "done"

FailedAt(nodes, pos) ==
  /\ pos \in DOMAIN Order /\ nodes[Order[pos]] = "failed"
  /\ \A q \in DOMAIN Order : /\ q < pos => nodes[Order[q]] \in {"done", "skipped"}
                             /\ q > pos => nodes[Order[q]] = "skipped"
  /\ \A n \in HiddenIn(nodes) : nodes[n] # "done" => nodes[n] = "running" /\ n \in Hidden(Order[pos])
Located(nodes) == \E pos \in DOMAIN Order : FailedAt(nodes, pos)

\* The nodes of components: those before are done, those of the node at work
\* are done up to the one at work.
InnerBefore(nodes, pos, n) == nodes[n] = "done" /\ \E p \in DOMAIN Order : p < pos /\ n \in Hidden(Order[p])
InnerDone(nodes, pos, inner, n) ==
  nodes[n] = "done" /\ \E j \in DOMAIN Inside[Order[pos]] : j < inner /\ n = Inside[Order[pos]][j]

ReadySound(c) ==
  /\ Through(c.nodes, c.pos) /\ Ahead(c.nodes, c.pos - 1)
  /\ \A n \in HiddenIn(c.nodes) : InnerBefore(c.nodes, c.pos, n)

NodeSound(c) ==
  /\ c.pos \in DOMAIN Order /\ c.nodes[Order[c.pos]] = "running"
  /\ Through(c.nodes, c.pos) /\ Ahead(c.nodes, c.pos)

ChildSound(c) ==
  /\ Visible \subseteq DOMAIN c.nodes
  /\ c.at = "forked" => c.nodes = Initial /\ c.pos = 1 /\ c.deferred = {}
  /\ c.at \in {"forked", "ready", "node", "inner"} =>
       /\ c.result = None /\ c.cause = None
       /\ \A n \in c.deferred : Excused(c.nodes, n)
  /\ c.at = "ready" => ReadySound(c)
  /\ c.at = "node" =>
       /\ NodeSound(c)
       /\ \A n \in HiddenIn(c.nodes) : InnerBefore(c.nodes, c.pos, n) \/ InnerDone(c.nodes, c.pos, c.inner, n)
  /\ c.at = "inner" =>
       /\ NodeSound(c) /\ c.inner \in DOMAIN Inside[Order[c.pos]]
       /\ Inside[Order[c.pos]][c.inner] \in DOMAIN c.nodes
       /\ c.nodes[Inside[Order[c.pos]][c.inner]] = "running"
       /\ \A n \in HiddenIn(c.nodes) :
            \/ InnerBefore(c.nodes, c.pos, n) \/ InnerDone(c.nodes, c.pos, c.inner, n)
            \/ n = Inside[Order[c.pos]][c.inner]
  /\ c.at = "over" => c.result # None /\ (c.cause = "node" => c.result = "failed" /\ Located(c.nodes))

\* What a child has written.
FileSound(f) ==
  /\ f.result = "succeeded" => f.progress # None /\ Complete(f.progress)
  /\ f.cause = "node" => f.progress # None /\ Located(f.progress)

Reported(c, f) ==
  /\ \/ f.progress = c.nodes
     \/ f.progress = None /\ c.nodes = Initial /\ c.at \in {"forked", "killed", "cpu time"}
  /\ c.at \in {"forked", "ready", "node", "inner", "over"} => f.result = None /\ f.cause = None

AttemptSound(a) ==
  /\ a > row.attempt => child[a] = NoChild /\ monitor[a].at = "gone" /\ files[a].progress = None
                        /\ files[a].result = None /\ files[a].cause = None
  /\ child[a] = NoChild <=> monitor[a].at = "gone"
  /\ child[a] # NoChild => ChildSound(child[a]) /\ Reported(child[a], files[a])
  /\ monitor[a].at = "syncing" => monitor[a].read # None /\ Behind(monitor[a].read, child[a].nodes)
  /\ FileSound(files[a])

RowSound ==
  /\ row.status = "running" <=> row.by # None
  /\ row.by # None => row.by = row.attempt
  /\ row.status \in Open => ended = None
  /\ row.status = "succeeded" => row.attempt \in Attempts /\ child[row.attempt] = NoChild

PInv == TypeOK /\ RowSound /\ (\A a \in Attempts : AttemptSound(a)) /\ ProgressHolds

-----------------------------------------------------------------------------
(* The constants *)

\* The plan and the components, element by element.
LEMMA Plan ==
  ASSUME Parameters
  PROVE  /\ Len(Order) \in Nat /\ DOMAIN Order = 1..Len(Order)
         /\ \A p \in DOMAIN Order : Order[p] \in Planned
         /\ \A p, q \in DOMAIN Order : Order[p] = Order[q] => p = q
         /\ \A n \in Planned : \E p \in DOMAIN Order : n = Order[p]
         /\ Planned \subseteq Visible /\ Visible \subseteq Named /\ MayDefer \subseteq Visible
<1>1. Order \in Seq(Planned) /\ IsInjective(Order) /\ MayDefer \subseteq Planned
  BY DEF Parameters
<1>2. Planned = {Order[p] : p \in DOMAIN Order}
  BY DEF Planned, ToSet
<1>3. \A p, q \in DOMAIN Order : Order[p] = Order[q] => p = q
  BY <1>1 DEF IsInjective
<1> QED
  BY <1>1, <1>2, <1>3 DEF Visible, Named

LEMMA Components ==
  ASSUME Parameters, NEW n \in Planned
  PROVE  /\ Len(Inside[n]) \in Nat /\ DOMAIN Inside[n] = 1..Len(Inside[n])
         /\ \A j \in DOMAIN Inside[n] : /\ Inside[n][j] \in Hidden(n) /\ Inside[n][j] \in Named
                                       /\ Inside[n][j] \notin Visible
         /\ \A j, k \in DOMAIN Inside[n] : Inside[n][j] = Inside[n][k] => j = k
         /\ \A m \in Planned : m # n => Hidden(m) \cap Hidden(n) = {}
<1>1. /\ Inside[n] \in Seq(Hidden(n)) /\ IsInjective(Inside[n])
      /\ Hidden(n) \cap Visible = {}
  BY DEF Parameters
<1>2. Hidden(n) = {Inside[n][j] : j \in DOMAIN Inside[n]}
  BY DEF Hidden, ToSet
<1>3. \A j, k \in DOMAIN Inside[n] : Inside[n][j] = Inside[n][k] => j = k
  BY <1>1 DEF IsInjective
<1>4. \A m \in Planned : m # n => Hidden(m) \cap Hidden(n) = {}
  BY DEF Parameters
<1>5. Hidden(n) \subseteq Named
  BY DEF Named
<1> QED
  BY <1>1, <1>2, <1>3, <1>4, <1>5

LEMMA NoneApart ==
  ASSUME Parameters
  PROVE  /\ None \notin Attempts /\ None \notin Marks /\ None \notin Terminal
         /\ None # "node" /\ None # "graph"
         /\ None \notin [status : Terminal, cause : {"node", "graph", None}]
         /\ MaxClaims \in Nat /\ MaxAttempts \in Nat /\ Attempts = 1..MaxClaims
BY DEF Parameters, Attempts

\* The statuses a run starts with.
LEMMA InitialMarks ==
  ASSUME Parameters
  PROVE  /\ Initial \in Marks /\ DOMAIN Initial = Visible
         /\ \A n \in Visible : Initial[n] = "queued"
<1>1. Initial \in [Visible -> Statuses]
  BY DEF Initial, Visible, Statuses
<1>2. Visible \in SUBSET Named
  BY Plan
<1>3. Initial \in Marks
  BY <1>1, <1>2 DEF Marks
<1> QED
  BY <1>1, <1>3 DEF Initial, Visible

-----------------------------------------------------------------------------
(* What a child does to its nodes: their statuses only move on *)

Grows(old, new) ==
  /\ DOMAIN old \subseteq DOMAIN new
  /\ \A n \in DOMAIN old : new[n] = old[n] \/ (old[n] \in Open /\ new[n] # "queued")

LEMMA MarksAre ==
  ASSUME NEW f \in Marks
  PROVE  f \in [DOMAIN f -> Statuses] /\ DOMAIN f \subseteq Named
<1> PICK D \in SUBSET Named : f \in [D -> Statuses]
  BY DEF Marks
<1> QED
  OBVIOUS

LEMMA AreMarks ==
  ASSUME NEW D \in SUBSET Named, NEW f \in [D -> Statuses]
  PROVE  f \in Marks
BY DEF Marks

LEMMA MarkMoves ==
  ASSUME NEW nodes \in Marks, NEW n \in Named, NEW s \in Statuses \ {"queued"},
         n \in DOMAIN nodes => nodes[n] \in Open
  PROVE  /\ Mark(nodes, n, s) \in Marks /\ Grows(nodes, Mark(nodes, n, s))
         /\ DOMAIN Mark(nodes, n, s) = DOMAIN nodes \cup {n}
         /\ Mark(nodes, n, s)[n] = s
         /\ \A m \in DOMAIN nodes : m # n => Mark(nodes, n, s)[m] = nodes[m]
<1> DEFINE new == Mark(nodes, n, s)
<1>1. nodes \in [DOMAIN nodes -> Statuses] /\ DOMAIN nodes \subseteq Named
  BY MarksAre
<1>2. new = [m \in DOMAIN nodes \cup {n} |-> IF m = n THEN s ELSE nodes[m]]
  BY DEF Mark
<1>3. new \in [DOMAIN nodes \cup {n} -> Statuses]
  BY <1>1, <1>2
<1>4. new \in Marks
  BY <1>1, <1>3, AreMarks
<1> QED
  BY <1>1, <1>2, <1>4 DEF Grows

LEMMA GrowsOn ==
  ASSUME NEW f, NEW g, NEW h, Grows(f, g), Grows(g, h)
  PROVE  Grows(f, h)
BY DEF Grows, Open

\* What is shown of a child stays behind it.
LEMMA StaysBehind ==
  ASSUME NEW shown, NEW f, NEW g, Behind(shown, f), Grows(f, g)
  PROVE  Behind(shown, g)
BY DEF Behind, Grows, Open

LEMMA StaysFinished ==
  ASSUME Parameters, NEW f, NEW g, Grows(f, g), Visible \subseteq DOMAIN f
  PROVE  /\ \A n : Excused(f, n) => Excused(g, n)
         /\ \A n \in DOMAIN f : Finished(f, n) => Finished(g, n)
<1>1. MayDefer \subseteq DOMAIN f
  BY Plan
<1>2. ASSUME NEW n, Excused(f, n)
      PROVE  Excused(g, n)
  BY <1>1, <1>2 DEF Excused, Grows, Open
<1> QED
  BY <1>2 DEF Finished, Grows, Open

\* Marking the node at a place of the plan.
LEMMA MarkPlanned ==
  ASSUME Parameters, NEW nodes \in Marks, Visible \subseteq DOMAIN nodes,
         NEW pos \in DOMAIN Order, NEW s \in Statuses \ {"queued"},
         nodes[Order[pos]] \in Open, Through(nodes, pos), Ahead(nodes, pos),
         NEW new, new = Mark(nodes, Order[pos], s)
  PROVE  /\ new \in Marks /\ Grows(nodes, new) /\ new[Order[pos]] = s
         /\ Visible \subseteq DOMAIN new /\ Through(new, pos) /\ Ahead(new, pos)
         /\ HiddenIn(new) = HiddenIn(nodes) /\ \A n \in HiddenIn(new) : new[n] = nodes[n]
         /\ \A n : Excused(nodes, n) => Excused(new, n)
<1>1. Order[pos] \in Visible /\ Order[pos] \in Named /\ Order[pos] \in DOMAIN nodes
  BY Plan
<1>2. /\ new \in Marks /\ Grows(nodes, new) /\ DOMAIN new = DOMAIN nodes
      /\ new[Order[pos]] = s /\ \A m \in DOMAIN nodes : m # Order[pos] => new[m] = nodes[m]
  <2> DEFINE n == Order[pos]
  <2>1. n \in Named /\ n \in DOMAIN nodes /\ nodes[n] \in Open /\ new = Mark(nodes, n, s)
    BY <1>1
  <2> HIDE DEF n
  <2>2. /\ Mark(nodes, n, s) \in Marks /\ Grows(nodes, Mark(nodes, n, s))
        /\ DOMAIN Mark(nodes, n, s) = DOMAIN nodes \cup {n}
        /\ Mark(nodes, n, s)[n] = s
        /\ \A m \in DOMAIN nodes : m # n => Mark(nodes, n, s)[m] = nodes[m]
    BY ONLY <2>1, nodes \in Marks, s \in Statuses \ {"queued"}, MarkMoves
  <2> QED
    BY <2>1, <2>2 DEF n
<1>3. \A p \in DOMAIN Order : Order[p] \in DOMAIN nodes
  BY Plan
<1>4. Through(new, pos)
  BY <1>2, <1>3, StaysFinished DEF Through
<1>5. Ahead(new, pos)
  BY <1>2, <1>3, Plan DEF Ahead
<1>6. HiddenIn(new) = HiddenIn(nodes) /\ \A n \in HiddenIn(new) : new[n] = nodes[n]
  BY <1>1, <1>2 DEF HiddenIn
<1> QED
  BY <1>2, <1>4, <1>5, <1>6, StaysFinished

\* Marking a node of the component at a place of the plan.
LEMMA MarkHidden ==
  ASSUME Parameters, NEW nodes \in Marks, Visible \subseteq DOMAIN nodes,
         NEW pos \in DOMAIN Order, NEW s \in Statuses \ {"queued"},
         NEW j \in DOMAIN Inside[Order[pos]], NEW n, n = Inside[Order[pos]][j],
         n \in DOMAIN nodes => nodes[n] \in Open, Through(nodes, pos), Ahead(nodes, pos),
         NEW new, new = Mark(nodes, n, s)
  PROVE  /\ new \in Marks /\ Grows(nodes, new) /\ new[n] = s /\ n \in DOMAIN new
         /\ Visible \subseteq DOMAIN new /\ Through(new, pos) /\ Ahead(new, pos)
         /\ new[Order[pos]] = nodes[Order[pos]]
         /\ HiddenIn(new) = HiddenIn(nodes) \cup {n}
         /\ \A m \in HiddenIn(new) : m # n => m \in HiddenIn(nodes) /\ new[m] = nodes[m]
         /\ \A m : Excused(nodes, m) => Excused(new, m)
<1>1. Order[pos] \in Planned
  BY Plan
<1>2. n \in Named /\ n \notin Visible
  BY <1>1, Components
<1>3. /\ new \in Marks /\ Grows(nodes, new) /\ DOMAIN new = DOMAIN nodes \cup {n}
      /\ new[n] = s /\ \A m \in DOMAIN nodes : m # n => new[m] = nodes[m]
  <2>2. /\ Mark(nodes, n, s) \in Marks /\ Grows(nodes, Mark(nodes, n, s))
        /\ DOMAIN Mark(nodes, n, s) = DOMAIN nodes \cup {n}
        /\ Mark(nodes, n, s)[n] = s
        /\ \A m \in DOMAIN nodes : m # n => Mark(nodes, n, s)[m] = nodes[m]
    BY ONLY <1>2, nodes \in Marks, s \in Statuses \ {"queued"},
            n \in DOMAIN nodes => nodes[n] \in Open, MarkMoves
  <2> QED
    BY <2>2
<1>4. \A p \in DOMAIN Order : Order[p] \in DOMAIN nodes /\ Order[p] # n
  BY <1>2, Plan
<1>5. Through(new, pos)
  BY <1>3, <1>4, StaysFinished DEF Through
<1>6. Ahead(new, pos)
  BY <1>3, <1>4 DEF Ahead
<1>7. HiddenIn(new) = HiddenIn(nodes) \cup {n}
      /\ \A m \in HiddenIn(new) : m # n => m \in HiddenIn(nodes) /\ new[m] = nodes[m]
  BY <1>2, <1>3 DEF HiddenIn
<1> QED
  BY <1>3, <1>4, <1>5, <1>6, <1>7, StaysFinished

\* Skipping what follows a place of the plan.
LEMMA SkipLater ==
  ASSUME Parameters, NEW a, NEW nodes \in Marks, Visible \subseteq DOMAIN nodes,
         child[a].pos \in DOMAIN Order, Ahead(nodes, child[a].pos),
         NEW new, new = Skipping(a, nodes)
  PROVE  /\ new \in Marks /\ Grows(nodes, new) /\ DOMAIN new = DOMAIN nodes
         /\ \A q \in DOMAIN Order : /\ q > child[a].pos => new[Order[q]] = "skipped"
                                    /\ ~(q > child[a].pos) => new[Order[q]] = nodes[Order[q]]
         /\ \A n \in HiddenIn(nodes) : new[n] = nodes[n]
<1> DEFINE later == {Order[p] : p \in child[a].pos + 1 .. Len(Order)}
<1>1. new = [n \in DOMAIN nodes |-> IF n \in later THEN "skipped" ELSE nodes[n]]
  BY DEF Skipping, Later
<1>2. nodes \in [DOMAIN nodes -> Statuses] /\ DOMAIN nodes \subseteq Named
  BY MarksAre
<1>3. new \in [DOMAIN nodes -> Statuses]
  BY <1>1, <1>2 DEF Statuses
<1>4. new \in Marks
  BY <1>2, <1>3, AreMarks
<1>5. \A q \in DOMAIN Order : /\ Order[q] \in later <=> q > child[a].pos
                            /\ Order[q] \in DOMAIN nodes
  BY Plan
<1>6. \A n \in later : n \in Visible /\ nodes[n] = "queued"
  BY Plan DEF Ahead
<1>7. Grows(nodes, new)
  BY <1>1, <1>6 DEF Grows, Open
<1> QED
  BY <1>1, <1>4, <1>5, <1>6, <1>7 DEF HiddenIn

-----------------------------------------------------------------------------
(* Steps of the child *)

\* What the invariant says of an attempt whose child is at work.
LEMMA AtWork ==
  ASSUME Parameters, PInv, NEW a \in Attempts, child[a].at # "none"
  PROVE  /\ child[a] \in ChildState /\ child[a] # NoChild
         /\ ChildSound(child[a]) /\ Reported(child[a], files[a])
         /\ files[a] \in FileState /\ FileSound(files[a])
         /\ child[a].nodes \in Marks /\ Visible \subseteq DOMAIN child[a].nodes
<1>1. child[a] \in ChildState \cup {NoChild} /\ files[a] \in FileState
  BY DEF PInv, TypeOK
<1>2. child[a] # NoChild
  BY DEF NoChild
<1>3. AttemptSound(a)
  BY DEF PInv
<1> QED
  BY <1>1, <1>2, <1>3 DEF AttemptSound, ChildSound, ChildState

\* The place of the plan a child is at.
LEMMA AtPlace ==
  ASSUME Parameters, NEW a, child[a] \in ChildState, child[a].pos <= Len(Order)
  PROVE  /\ child[a].pos \in DOMAIN Order /\ child[a].pos \in Nat
         /\ Node(a) = Order[child[a].pos] /\ Node(a) \in Planned /\ Node(a) \in Visible
         /\ child[a].pos + 1 \in 1 .. Len(Order) + 1
<1>1. child[a].pos \in 1 .. Len(Order) + 1
  BY DEF ChildState
<1> QED
  BY <1>1, Plan DEF Node

\* A step that changes a child and what it has written, and nothing else.
LEMMA ChildStep ==
  ASSUME Parameters, PInv, NEW a \in Attempts, child[a].at # "none",
         NEW c \in ChildState, NEW f \in FileState,
         child' = [child EXCEPT ![a] = c], files' = [files EXCEPT ![a] = f],
         UNCHANGED <<row, monitor, ended, stale>>,
         Grows(child[a].nodes, c.nodes), ChildSound(c), Reported(c, f), FileSound(f)
  PROVE  PInv'
<1>1. TypeOK /\ RowSound /\ \A b \in Attempts : AttemptSound(b)
  BY DEF PInv
<1>2. child[a] # NoChild /\ c # NoChild
  <2>1. c.at # "none"
    BY DEF ChildState
  <2> QED
    BY <2>1, AtWork DEF NoChild
<1>3. child'[a] = c /\ files'[a] = f
      /\ \A b \in Attempts : b # a => child'[b] = child[b] /\ files'[b] = files[b]
  BY <1>1 DEF TypeOK
<1>4. TypeOK'
  BY <1>1 DEF TypeOK
<1>5. RowSound'
  BY <1>1, <1>2, <1>3 DEF RowSound
<1>6. AttemptSound(a)'
  <2>1. AttemptSound(a)
    BY <1>1
  <2>2. ~(a > row.attempt)
    BY <2>1, <1>2 DEF AttemptSound
  <2>3. monitor[a].at = "syncing" => Behind(monitor[a].read, c.nodes)
    BY <2>1, StaysBehind DEF AttemptSound
  <2> QED
    BY <1>2, <1>3, <2>1, <2>2, <2>3 DEF AttemptSound
<1>7. ASSUME NEW b \in Attempts, b # a
      PROVE  AttemptSound(b)'
  <2>1. AttemptSound(b)
    BY <1>1
  <2> QED
    BY <1>3, <1>7, <2>1 DEF AttemptSound
<1>8. ProgressHolds'
  <2>1. ProgressHolds
    BY DEF PInv
  <2>2. RowFollowsItsChild'
    <3>1. row.by = a /\ ~stale => Behind(row.nodes, child[a].nodes)
      BY <2>1, <1>2, NoneApart DEF ProgressHolds, RowFollowsItsChild
    <3>2. row.by = a /\ ~stale => Behind(row.nodes, c.nodes)
      BY <3>1, StaysBehind
    <3>3. row.by # None => row.by \in Attempts
      BY <1>1 DEF TypeOK
    <3> QED
      BY <1>3, <2>1, <3>2, <3>3 DEF ProgressHolds, RowFollowsItsChild
  <2>3. SuccessIsComplete'
    <3>1. row.status = "succeeded" => row.attempt \in Attempts /\ row.attempt # a
      BY <1>1, <1>2 DEF RowSound
    <3> QED
      BY <1>3, <2>1, <3>1 DEF ProgressHolds, SuccessIsComplete, Directory
  <2>4. FailureIsLocated' /\ NothingLeftOpen'
    BY <2>1 DEF ProgressHolds, FailureIsLocated, NothingLeftOpen
  <2> QED
    BY <2>2, <2>3, <2>4 DEF ProgressHolds
<1> QED
  BY <1>4, <1>5, <1>6, <1>7, <1>8 DEF PInv

\* A step that reports to the worker, before there is a result.
LEMMA ReportStep ==
  ASSUME Parameters, PInv, NEW a \in Attempts, NEW nodes, NEW to, Report(a, nodes, to),
         child[a].at \in {"forked", "ready", "node", "inner"},
         NEW c \in ChildState, c = [to EXCEPT !.nodes = nodes], c.nodes = nodes,
         c.at \in {"ready", "node", "inner", "over"},
         Grows(child[a].nodes, nodes), ChildSound(c)
  PROVE  PInv'
<1> DEFINE f == [files[a] EXCEPT !.progress = nodes]
<1>1. /\ child[a].at # "none" /\ files[a] \in FileState
      /\ files[a].result = None /\ files[a].cause = None
  BY AtWork DEF Reported
<1>2. nodes \in Marks
  BY DEF ChildState
<1>3. f \in FileState /\ f.progress = nodes /\ f.result = None /\ f.cause = None
  BY <1>1, <1>2 DEF FileState
<1>4. child' = [child EXCEPT ![a] = c] /\ files' = [files EXCEPT ![a] = f]
      /\ UNCHANGED <<row, monitor, ended, stale>>
  <2>1. files \in [Attempts -> FileState]
    BY DEF PInv, TypeOK
  <2> QED
    BY <2>1 DEF Report, Directory
<1>5. Reported(c, f)
  BY <1>3 DEF Reported
<1>6. FileSound(f)
  BY <1>3, NoneApart DEF FileSound, Terminal
<1> HIDE DEF f
<1> QED
  BY <1>1, <1>3, <1>4, <1>5, <1>6, ChildStep

LEMMA BeginStep ==
  ASSUME Parameters, PInv, NEW a \in Attempts, Begin(a)
  PROVE  PInv'
<1> DEFINE to == [child[a] EXCEPT !.at = "ready"]
           c == [to EXCEPT !.nodes = Initial]
<1>1. child[a].at = "forked" /\ Report(a, Initial, to)
  BY DEF Begin
<1>2. child[a] \in ChildState /\ ChildSound(child[a])
  BY <1>1, AtWork
<1>3. c \in ChildState /\ c.at = "ready" /\ c.nodes = Initial /\ c.pos = 1 /\ c.deferred = {}
      /\ c.result = None /\ c.cause = None
  BY <1>1, <1>2, InitialMarks DEF ChildState, ChildSound
<1>4. Grows(child[a].nodes, Initial)
  BY <1>1, <1>2 DEF Grows, ChildSound
<1>5. ReadySound(c)
  BY <1>3, InitialMarks, Plan DEF ReadySound, Through, Ahead, HiddenIn
<1>6. ChildSound(c)
  BY <1>3, <1>5, InitialMarks DEF ChildSound
<1> HIDE DEF c
<1> QED
  BY <1>1, <1>3, <1>4, <1>6, ReportStep DEF c

LEMMA RejectStep ==
  ASSUME Parameters, PInv, NEW a \in Attempts, RejectGraph(a)
  PROVE  PInv'
<1> DEFINE c == Over(a, "failed", "graph")
<1>1. child[a].at = "ready" /\ child' = [child EXCEPT ![a] = c]
      /\ UNCHANGED <<row, files, monitor, ended, stale>>
  BY DEF RejectGraph
<1>2. child[a] \in ChildState /\ ChildSound(child[a]) /\ Reported(child[a], files[a])
      /\ files[a] \in FileState /\ FileSound(files[a])
  BY <1>1, AtWork
<1>3. c \in ChildState /\ c.at = "over" /\ c.nodes = child[a].nodes
      /\ c.result = "failed" /\ c.cause = "graph"
  BY <1>2 DEF ChildState, Over
<1>4. Grows(child[a].nodes, c.nodes)
  BY <1>3 DEF Grows
<1>5. ChildSound(c)
  BY <1>2, <1>3, NoneApart DEF ChildSound, Terminal
<1>6. Reported(c, files[a])
  BY <1>1, <1>2, <1>3 DEF Reported
<1>7. files' = [files EXCEPT ![a] = files[a]]
  BY <1>1 DEF PInv, TypeOK
<1> HIDE DEF c
<1> QED
  BY <1>1, <1>2, <1>3, <1>4, <1>5, <1>6, <1>7, ChildStep

LEMMA SkipStep ==
  ASSUME Parameters, PInv, NEW a \in Attempts, SkipDeferred(a)
  PROVE  PInv'
<1> DEFINE to == [child[a] EXCEPT !.pos = @ + 1]
           nodes == Mark(child[a].nodes, Node(a), "skipped")
           c == [to EXCEPT !.nodes = nodes]
<1>1. child[a].at = "ready" /\ child[a].pos <= Len(Order) /\ Node(a) \in child[a].deferred
      /\ Report(a, nodes, to)
  BY DEF SkipDeferred, Ready
<1>2. child[a] \in ChildState /\ ChildSound(child[a]) /\ child[a].nodes \in Marks
      /\ Visible \subseteq DOMAIN child[a].nodes
  BY <1>1, AtWork
<1>3. child[a].pos \in DOMAIN Order /\ Node(a) = Order[child[a].pos] /\ child[a].pos \in Nat
  BY <1>1, <1>2, AtPlace
<1>4. ReadySound(child[a]) /\ Excused(child[a].nodes, Node(a))
      /\ child[a].nodes[Node(a)] = "queued" /\ Ahead(child[a].nodes, child[a].pos)
  BY <1>1, <1>2, <1>3, Plan DEF ChildSound, ReadySound, Ahead
<1>5. /\ nodes \in Marks /\ Grows(child[a].nodes, nodes) /\ nodes[Node(a)] = "skipped"
      /\ Visible \subseteq DOMAIN nodes /\ Through(nodes, child[a].pos) /\ Ahead(nodes, child[a].pos)
      /\ HiddenIn(nodes) = HiddenIn(child[a].nodes)
      /\ \A n \in HiddenIn(nodes) : nodes[n] = child[a].nodes[n]
      /\ \A n : Excused(child[a].nodes, n) => Excused(nodes, n)
  <2> HIDE DEF nodes
  <2> QED
    BY <1>2, <1>3, <1>4, MarkPlanned DEF ReadySound, Statuses, Open, nodes
<1> HIDE DEF nodes
<1>6. c \in ChildState
  <2>1. child[a].pos + 1 \in 1 .. Len(Order) + 1
    BY <1>1, <1>2, AtPlace
  <2> QED
    BY <1>2, <1>5, <2>1 DEF ChildState
<1>7. /\ c.at = "ready" /\ c.nodes = nodes /\ c.pos = child[a].pos + 1
      /\ c.deferred = child[a].deferred /\ c.result = child[a].result /\ c.cause = child[a].cause
  BY <1>1, <1>2, <1>6 DEF ChildState
<1>8. ReadySound(c)
  <2>1. Through(nodes, c.pos)
    BY <1>3, <1>4, <1>5, <1>7, Plan DEF Through, Finished
  <2>2. Ahead(nodes, c.pos - 1)
    BY <1>3, <1>5, <1>7
  <2>3. \A n \in HiddenIn(nodes) : InnerBefore(nodes, c.pos, n)
    BY <1>3, <1>4, <1>5, <1>7, Plan DEF ReadySound, InnerBefore
  <2> QED
    BY <1>7, <2>1, <2>2, <2>3 DEF ReadySound
<1>9. ChildSound(c)
  BY <1>1, <1>2, <1>5, <1>7, <1>8 DEF ChildSound
<1> QED
  BY <1>1, <1>5, <1>6, <1>7, <1>9, ReportStep

LEMMA SeeCancelStep ==
  ASSUME Parameters, PInv, NEW a \in Attempts, SeeCancel(a)
  PROVE  PInv'
<1> DEFINE to == Over(a, "cancelled", None)
           marked == Mark(child[a].nodes, Node(a), "cancelled")
           nodes == Skipping(a, marked)
           c == [to EXCEPT !.nodes = nodes]
<1>1. child[a].at = "ready" /\ child[a].pos <= Len(Order) /\ Report(a, nodes, to)
  BY DEF SeeCancel, Ready
<1>2. child[a] \in ChildState /\ ChildSound(child[a]) /\ child[a].nodes \in Marks
      /\ Visible \subseteq DOMAIN child[a].nodes
  BY <1>1, AtWork
<1>3. child[a].pos \in DOMAIN Order /\ Node(a) = Order[child[a].pos] /\ child[a].pos \in Nat
  BY <1>1, <1>2, AtPlace
<1>4. ReadySound(child[a]) /\ child[a].nodes[Node(a)] = "queued"
      /\ Ahead(child[a].nodes, child[a].pos)
  BY <1>1, <1>2, <1>3, Plan DEF ChildSound, ReadySound, Ahead
<1>5. /\ marked \in Marks /\ Grows(child[a].nodes, marked)
      /\ Visible \subseteq DOMAIN marked /\ Ahead(marked, child[a].pos)
  <2> HIDE DEF marked
  <2> QED
    BY <1>2, <1>3, <1>4, MarkPlanned DEF ReadySound, Statuses, Open, marked
<1> HIDE DEF marked
<1>6. nodes \in Marks /\ Grows(marked, nodes) /\ DOMAIN nodes = DOMAIN marked
  BY <1>3, <1>5, SkipLater
<1>7. Grows(child[a].nodes, nodes)
  BY <1>5, <1>6, GrowsOn
<1> HIDE DEF nodes
<1>8. c \in ChildState /\ c.nodes = nodes /\ c.at = "over" /\ c.result = "cancelled" /\ c.cause = None
  BY <1>2, <1>6 DEF ChildState, Over
<1>9. ChildSound(c)
  BY <1>5, <1>6, <1>8, NoneApart DEF ChildSound, Terminal
<1> HIDE DEF c
<1> QED
  BY <1>1, <1>7, <1>8, <1>9, ReportStep DEF c

LEMMA BeginNodeStep ==
  ASSUME Parameters, PInv, NEW a \in Attempts, BeginNode(a)
  PROVE  PInv'
<1> DEFINE to == [child[a] EXCEPT !.at = "node", !.inner = 1]
           nodes == Mark(child[a].nodes, Node(a), "running")
           c == [to EXCEPT !.nodes = nodes]
<1>1. child[a].at = "ready" /\ child[a].pos <= Len(Order) /\ Report(a, nodes, to)
  BY DEF BeginNode, Ready
<1>2. child[a] \in ChildState /\ ChildSound(child[a]) /\ child[a].nodes \in Marks
      /\ Visible \subseteq DOMAIN child[a].nodes
  BY <1>1, AtWork
<1>3. child[a].pos \in DOMAIN Order /\ Node(a) = Order[child[a].pos] /\ child[a].pos \in Nat
  BY <1>1, <1>2, AtPlace
<1>4. ReadySound(child[a]) /\ child[a].nodes[Node(a)] = "queued"
      /\ Ahead(child[a].nodes, child[a].pos)
  BY <1>1, <1>2, <1>3, Plan DEF ChildSound, ReadySound, Ahead
<1>5. /\ nodes \in Marks /\ Grows(child[a].nodes, nodes) /\ nodes[Node(a)] = "running"
      /\ Visible \subseteq DOMAIN nodes /\ Through(nodes, child[a].pos) /\ Ahead(nodes, child[a].pos)
      /\ HiddenIn(nodes) = HiddenIn(child[a].nodes)
      /\ \A n \in HiddenIn(nodes) : nodes[n] = child[a].nodes[n]
      /\ \A n : Excused(child[a].nodes, n) => Excused(nodes, n)
  <2> HIDE DEF nodes
  <2> QED
    BY <1>2, <1>3, <1>4, MarkPlanned DEF ReadySound, Statuses, Open, nodes
<1> HIDE DEF nodes
<1>6. c \in ChildState
  <2>1. 1 \in Nat \ {0} /\ "node" \in {"forked", "ready", "node", "inner", "over", "written", "exited",
                                      "killed", "cpu time"}
    OBVIOUS
  <2> QED
    BY <1>2, <1>5, <2>1 DEF ChildState
<1>7. /\ c.at = "node" /\ c.nodes = nodes /\ c.pos = child[a].pos /\ c.inner = 1
      /\ c.deferred = child[a].deferred /\ c.result = child[a].result /\ c.cause = child[a].cause
  BY <1>2 DEF ChildState
<1>8. NodeSound(c)
  BY <1>3, <1>5, <1>7 DEF NodeSound
<1>9. \A n \in HiddenIn(c.nodes) : InnerBefore(c.nodes, c.pos, n)
  BY <1>4, <1>5, <1>7 DEF ReadySound, InnerBefore
<1>10. ChildSound(c)
  BY <1>1, <1>2, <1>5, <1>7, <1>8, <1>9 DEF ChildSound
<1> HIDE DEF c
<1> QED
  BY <1>1, <1>5, <1>6, <1>7, <1>10, ReportStep DEF c

\* A child that goes on with the component of its node.
LEMMA AtInner ==
  ASSUME Parameters, PInv, NEW a \in Attempts, InnerLeft(a) \/ child[a].at \in {"node", "inner"}
  PROVE  /\ child[a] \in ChildState /\ ChildSound(child[a]) /\ child[a].nodes \in Marks
         /\ Visible \subseteq DOMAIN child[a].nodes /\ NodeSound(child[a])
         /\ child[a].pos \in DOMAIN Order /\ Node(a) = Order[child[a].pos] /\ child[a].pos \in Nat
         /\ Node(a) \in Planned /\ Inner(a) = Inside[Order[child[a].pos]][child[a].inner]
         /\ InnerLeft(a) \/ child[a].at = "inner" => child[a].inner \in DOMAIN Inside[Order[child[a].pos]]
         /\ child[a].inner \in Nat \ {0} /\ Len(Inside[Node(a)]) \in Nat
<1>1. child[a].at \in {"node", "inner"}
  BY DEF InnerLeft
<1>2. child[a] \in ChildState /\ ChildSound(child[a]) /\ child[a].nodes \in Marks
      /\ Visible \subseteq DOMAIN child[a].nodes
  BY <1>1, AtWork
<1>3. NodeSound(child[a])
  BY <1>1, <1>2 DEF ChildSound
<1>4. child[a].pos <= Len(Order)
  BY <1>3, Plan DEF NodeSound
<1>5. child[a].pos \in DOMAIN Order /\ Node(a) = Order[child[a].pos] /\ child[a].pos \in Nat
      /\ Node(a) \in Planned
  BY <1>2, <1>4, AtPlace
<1>6. Inner(a) = Inside[Order[child[a].pos]][child[a].inner]
  BY <1>5 DEF Inner
<1>7. child[a].inner \in Nat \ {0}
  BY <1>2 DEF ChildState
<1>8. Len(Inside[Node(a)]) \in Nat /\ DOMAIN Inside[Node(a)] = 1..Len(Inside[Node(a)])
  BY <1>5, Components
<1>9. InnerLeft(a) => child[a].inner \in DOMAIN Inside[Order[child[a].pos]]
  BY <1>5, <1>7, <1>8 DEF InnerLeft
<1>10. child[a].at = "inner" => child[a].inner \in DOMAIN Inside[Order[child[a].pos]]
  BY <1>2 DEF ChildSound
<1> QED
  BY <1>2, <1>3, <1>5, <1>6, <1>7, <1>8, <1>9, <1>10

LEMMA BeginInnerStep ==
  ASSUME Parameters, PInv, NEW a \in Attempts, BeginInner(a)
  PROVE  PInv'
<1> DEFINE to == [child[a] EXCEPT !.at = "inner"]
           nodes == Mark(child[a].nodes, Inner(a), "running")
           pos == child[a].pos
           inner == child[a].inner
           c == [to EXCEPT !.nodes = nodes]
<1>1. child[a].at = "node" /\ InnerLeft(a) /\ Report(a, nodes, to)
  BY DEF BeginInner, InnerLeft
<1>2. child[a] \in ChildState /\ ChildSound(child[a]) /\ child[a].nodes \in Marks
      /\ Visible \subseteq DOMAIN child[a].nodes /\ NodeSound(child[a])
  BY <1>1, AtInner
<1>3. pos \in DOMAIN Order /\ Order[pos] \in Planned /\ Inner(a) = Inside[Order[pos]][inner]
      /\ inner \in DOMAIN Inside[Order[pos]] /\ inner \in Nat \ {0} /\ pos \in Nat
  BY <1>1, AtInner
<1>4. Inner(a) \notin DOMAIN child[a].nodes
  <2>1. Inner(a) \notin Visible /\ Inner(a) \in Hidden(Order[pos])
    BY <1>3, Components
  <2>2. SUFFICES ASSUME Inner(a) \in HiddenIn(child[a].nodes) PROVE FALSE
    BY <2>1 DEF HiddenIn
  <2>3. InnerBefore(child[a].nodes, pos, Inner(a)) \/ InnerDone(child[a].nodes, pos, inner, Inner(a))
    BY <1>1, <1>2, <2>2 DEF ChildSound
  <2>4. CASE InnerBefore(child[a].nodes, pos, Inner(a))
    <3>1. PICK p \in DOMAIN Order : p < pos /\ Inner(a) \in Hidden(Order[p])
      BY <2>4 DEF InnerBefore
    <3>2. Order[p] # Order[pos] /\ Order[p] \in Planned
      BY <1>3, <3>1, Plan
    <3> QED
      BY <1>3, <2>1, <3>1, <3>2, Components
  <2>5. CASE InnerDone(child[a].nodes, pos, inner, Inner(a))
    <3>1. PICK j \in DOMAIN Inside[Order[pos]] : j < inner /\ Inner(a) = Inside[Order[pos]][j]
      BY <2>5 DEF InnerDone
    <3>2. Inside[Order[pos]][j] = Inside[Order[pos]][inner]
      BY <1>3, <3>1
    <3>3. \A i, k \in DOMAIN Inside[Order[pos]] : Inside[Order[pos]][i] = Inside[Order[pos]][k] => i = k
      BY <1>3, Components
    <3>4. j = inner
      BY <1>3, <3>2, <3>3
    <3> QED
      BY <1>3, <3>1, <3>4
  <2> QED
    BY <2>3, <2>4, <2>5
<1>5. /\ nodes \in Marks /\ Grows(child[a].nodes, nodes) /\ nodes[Inner(a)] = "running"
      /\ Inner(a) \in DOMAIN nodes
      /\ Visible \subseteq DOMAIN nodes /\ Through(nodes, pos) /\ Ahead(nodes, pos)
      /\ nodes[Order[pos]] = "running"
      /\ \A m \in HiddenIn(nodes) : m # Inner(a) => m \in HiddenIn(child[a].nodes) /\ nodes[m] = child[a].nodes[m]
      /\ \A m : Excused(child[a].nodes, m) => Excused(nodes, m)
  <2> HIDE DEF nodes, pos, inner
  <2>1. "running" \in Statuses \ {"queued"}
    BY DEF Statuses
  <2>2. Through(child[a].nodes, pos) /\ Ahead(child[a].nodes, pos) /\ child[a].nodes[Order[pos]] = "running"
    BY <1>2 DEF NodeSound, pos
  <2> QED
    BY <1>2, <1>3, <1>4, <2>1, <2>2, MarkHidden DEF nodes
<1> HIDE DEF nodes
<1>6. c \in ChildState
  BY <1>2, <1>5 DEF ChildState
<1>7. /\ c.at = "inner" /\ c.nodes = nodes /\ c.pos = pos /\ c.inner = inner
      /\ c.deferred = child[a].deferred /\ c.result = child[a].result /\ c.cause = child[a].cause
  BY <1>2 DEF ChildState
<1>8. NodeSound(c)
  BY <1>3, <1>5, <1>7 DEF NodeSound
<1>9. \A n \in HiddenIn(nodes) : n # Inner(a) =>
        InnerBefore(nodes, pos, n) \/ InnerDone(nodes, pos, inner, n)
  BY <1>1, <1>2, <1>5 DEF ChildSound, InnerBefore, InnerDone
<1>10. ChildSound(c)
  BY <1>1, <1>2, <1>3, <1>5, <1>7, <1>8, <1>9 DEF ChildSound
<1> HIDE DEF c
<1> QED
  BY <1>1, <1>5, <1>6, <1>7, <1>10, ReportStep DEF c

LEMMA EndInnerStep ==
  ASSUME Parameters, PInv, NEW a \in Attempts, EndInner(a)
  PROVE  PInv'
<1> DEFINE to == [child[a] EXCEPT !.at = "node", !.inner = @ + 1]
           nodes == Mark(child[a].nodes, Inner(a), "done")
           pos == child[a].pos
           inner == child[a].inner
           c == [to EXCEPT !.nodes = nodes]
<1>1. child[a].at = "inner" /\ Report(a, nodes, to)
  BY DEF EndInner
<1>2. child[a] \in ChildState /\ ChildSound(child[a]) /\ child[a].nodes \in Marks
      /\ Visible \subseteq DOMAIN child[a].nodes /\ NodeSound(child[a])
  BY <1>1, AtInner
<1>3. pos \in DOMAIN Order /\ Order[pos] \in Planned /\ Inner(a) = Inside[Order[pos]][inner]
      /\ inner \in DOMAIN Inside[Order[pos]] /\ inner \in Nat \ {0} /\ pos \in Nat
  BY <1>1, AtInner
<1>4. Inner(a) \in DOMAIN child[a].nodes /\ child[a].nodes[Inner(a)] = "running"
  BY <1>1, <1>2, <1>3 DEF ChildSound
<1>5. /\ nodes \in Marks /\ Grows(child[a].nodes, nodes) /\ nodes[Inner(a)] = "done"
      /\ Visible \subseteq DOMAIN nodes /\ Through(nodes, pos) /\ Ahead(nodes, pos)
      /\ nodes[Order[pos]] = "running"
      /\ \A m \in HiddenIn(nodes) : m # Inner(a) => m \in HiddenIn(child[a].nodes) /\ nodes[m] = child[a].nodes[m]
      /\ \A m : Excused(child[a].nodes, m) => Excused(nodes, m)
  <2> HIDE DEF nodes, pos, inner
  <2>1. "done" \in Statuses \ {"queued"} /\ "running" \in Open
    BY DEF Statuses, Open
  <2>2. Through(child[a].nodes, pos) /\ Ahead(child[a].nodes, pos) /\ child[a].nodes[Order[pos]] = "running"
    BY <1>2 DEF NodeSound, pos
  <2> QED
    BY <1>2, <1>3, <1>4, <2>1, <2>2, MarkHidden DEF nodes
<1> HIDE DEF nodes
<1>6. c \in ChildState
  <2>1. inner + 1 \in Nat \ {0}
    BY <1>3
  <2> QED
    BY <1>2, <1>5, <2>1 DEF ChildState
<1>7. /\ c.at = "node" /\ c.nodes = nodes /\ c.pos = pos /\ c.inner = inner + 1
      /\ c.deferred = child[a].deferred /\ c.result = child[a].result /\ c.cause = child[a].cause
  BY <1>2 DEF ChildState
<1>8. NodeSound(c)
  BY <1>3, <1>5, <1>7 DEF NodeSound
<1>9. ASSUME NEW n \in HiddenIn(nodes)
      PROVE  InnerBefore(nodes, pos, n) \/ InnerDone(nodes, pos, inner + 1, n)
  <2>1. CASE n = Inner(a)
    BY <1>3, <1>5, <2>1 DEF InnerDone
  <2>2. CASE n # Inner(a)
    <3>1. n \in HiddenIn(child[a].nodes) /\ nodes[n] = child[a].nodes[n]
      BY <1>5, <2>2
    <3>2. InnerBefore(child[a].nodes, pos, n) \/ InnerDone(child[a].nodes, pos, inner, n)
      BY <1>1, <1>2, <1>3, <2>2, <3>1 DEF ChildSound
    <3>3. \A j \in DOMAIN Inside[Order[pos]] : j < inner => j < inner + 1
      BY <1>3, Components
    <3> QED
      BY <3>1, <3>2, <3>3 DEF InnerBefore, InnerDone
  <2> QED
    BY <2>1, <2>2
<1>10. ChildSound(c)
  BY <1>1, <1>2, <1>5, <1>7, <1>8, <1>9 DEF ChildSound
<1> HIDE DEF c
<1> QED
  BY <1>1, <1>5, <1>6, <1>7, <1>10, ReportStep DEF c

LEMMA CancelInnerStep ==
  ASSUME Parameters, PInv, NEW a \in Attempts, CancelInner(a)
  PROVE  PInv'
<1> DEFINE c == Over(a, "cancelled", None)
<1>1. child[a].at = "node" /\ child' = [child EXCEPT ![a] = c]
      /\ UNCHANGED <<row, files, monitor, ended, stale>>
  BY DEF CancelInner, InnerLeft
<1>2. child[a] \in ChildState /\ ChildSound(child[a]) /\ Reported(child[a], files[a])
      /\ files[a] \in FileState /\ FileSound(files[a])
  BY <1>1, AtWork
<1>3. c \in ChildState /\ c.at = "over" /\ c.nodes = child[a].nodes
      /\ c.result = "cancelled" /\ c.cause = None
  BY <1>2 DEF ChildState, Over
<1>4. Grows(child[a].nodes, c.nodes)
  BY <1>3 DEF Grows
<1>5. ChildSound(c)
  BY <1>2, <1>3, NoneApart DEF ChildSound, Terminal
<1>6. Reported(c, files[a])
  BY <1>1, <1>2, <1>3 DEF Reported
<1>7. files' = [files EXCEPT ![a] = files[a]]
  BY <1>1 DEF PInv, TypeOK
<1> HIDE DEF c
<1> QED
  BY <1>1, <1>2, <1>3, <1>4, <1>5, <1>6, <1>7, ChildStep

LEMMA EndNodeStep ==
  ASSUME Parameters, PInv, NEW a \in Attempts, NEW defers \in BOOLEAN, EndNode(a, defers)
  PROVE  PInv'
<1> DEFINE more == IF defers THEN Follows[Node(a)] ELSE {}
           to == [child[a] EXCEPT !.at = "ready", !.pos = @ + 1, !.deferred = @ \cup more]
           nodes == Mark(child[a].nodes, Node(a), "done")
           pos == child[a].pos
           c == [to EXCEPT !.nodes = nodes]
<1>1. /\ child[a].at = "node"
      /\ child[a].inner = 1 \/ ~InnerLeft(a)
      /\ defers => Node(a) \in MayDefer
      /\ Report(a, nodes, to)
  BY DEF EndNode
<1>2. child[a].at = "node"
  BY DEF EndNode
<1>3. child[a] \in ChildState /\ ChildSound(child[a]) /\ child[a].nodes \in Marks
      /\ Visible \subseteq DOMAIN child[a].nodes /\ NodeSound(child[a])
  BY <1>2, AtInner
<1>4. pos \in DOMAIN Order /\ Node(a) = Order[pos] /\ pos \in Nat
  BY <1>2, AtInner
<1>5. /\ nodes \in Marks /\ Grows(child[a].nodes, nodes) /\ nodes[Node(a)] = "done"
      /\ Visible \subseteq DOMAIN nodes /\ Through(nodes, pos) /\ Ahead(nodes, pos)
      /\ HiddenIn(nodes) = HiddenIn(child[a].nodes)
      /\ \A n \in HiddenIn(nodes) : nodes[n] = child[a].nodes[n]
      /\ \A n : Excused(child[a].nodes, n) => Excused(nodes, n)
  <2> HIDE DEF nodes, pos
  <2>1. "done" \in Statuses \ {"queued"} /\ "running" \in Open
    BY DEF Statuses, Open
  <2>2. Through(child[a].nodes, pos) /\ Ahead(child[a].nodes, pos) /\ child[a].nodes[Order[pos]] = "running"
    BY <1>3 DEF NodeSound, pos
  <2> QED
    BY <1>3, <1>4, <2>1, <2>2, MarkPlanned DEF nodes
<1> HIDE DEF nodes
<1>6. c \in ChildState
  <2>1. pos + 1 \in 1 .. Len(Order) + 1
    BY <1>4, Plan
  <2>2. child[a].deferred \cup more \in SUBSET UNION {Follows[m] : m \in MayDefer}
    BY <1>1, <1>3 DEF ChildState
  <2> HIDE DEF more
  <2> QED
    BY <1>3, <1>5, <2>1, <2>2 DEF ChildState
<1>7. /\ c.at = "ready" /\ c.nodes = nodes /\ c.pos = pos + 1
      /\ c.deferred = child[a].deferred \cup more /\ c.result = child[a].result /\ c.cause = child[a].cause
  BY <1>3 DEF ChildState
<1>8. ASSUME NEW n \in HiddenIn(nodes)
      PROVE  InnerBefore(nodes, pos + 1, n)
  <2>1. InnerBefore(child[a].nodes, pos, n) \/ InnerDone(child[a].nodes, pos, child[a].inner, n)
    BY <1>2, <1>3, <1>5 DEF ChildSound
  <2>2. CASE InnerBefore(child[a].nodes, pos, n)
    BY <1>4, <1>5, <2>2, Plan DEF InnerBefore
  <2>3. CASE InnerDone(child[a].nodes, pos, child[a].inner, n)
    <3>1. n \in Hidden(Order[pos])
      BY <1>4, <2>3, Components, Plan DEF InnerDone
    <3> QED
      BY <1>4, <1>5, <2>3, <3>1, Plan DEF InnerBefore, InnerDone
  <2> QED
    BY <2>1, <2>2, <2>3
<1>9. Through(nodes, pos + 1) /\ Ahead(nodes, pos)
  BY <1>4, <1>5, Plan DEF Through, Finished
<1>10. ReadySound(c)
  <2> HIDE DEF pos, c
  <2>1. c.nodes = nodes /\ c.pos = pos + 1 /\ c.pos - 1 = pos
    BY <1>4, <1>7
  <2>2. Through(c.nodes, c.pos) /\ Ahead(c.nodes, c.pos - 1)
    BY <1>9, <2>1
  <2>3. \A n \in HiddenIn(c.nodes) : InnerBefore(c.nodes, c.pos, n)
    BY <1>8, <2>1
  <2> QED
    BY <2>2, <2>3 DEF ReadySound
<1>11. \A n \in c.deferred : Excused(nodes, n)
  <2>1. \A n \in child[a].deferred : Excused(nodes, n)
    BY <1>2, <1>3, <1>5 DEF ChildSound
  <2>2. \A n \in more : Excused(nodes, n)
    BY <1>1, <1>5 DEF Excused
  <2> QED
    BY <1>7, <2>1, <2>2
<1>12. ChildSound(c)
  BY <1>2, <1>3, <1>5, <1>7, <1>10, <1>11 DEF ChildSound
<1> HIDE DEF c
<1> QED
  BY <1>1, <1>2, <1>5, <1>6, <1>7, <1>12, ReportStep DEF c

LEMMA FailNodeStep ==
  ASSUME Parameters, PInv, NEW a \in Attempts, FailNode(a)
  PROVE  PInv'
<1> DEFINE to == Over(a, "failed", "node")
           marked == Mark(child[a].nodes, Node(a), "failed")
           nodes == Skipping(a, marked)
           pos == child[a].pos
           c == [to EXCEPT !.nodes = nodes]
<1>1. child[a].at \in {"node", "inner"} /\ Report(a, nodes, to)
  BY DEF FailNode
<1>2. child[a] \in ChildState /\ ChildSound(child[a]) /\ child[a].nodes \in Marks
      /\ Visible \subseteq DOMAIN child[a].nodes /\ NodeSound(child[a])
  BY <1>1, AtInner
<1>3. pos \in DOMAIN Order /\ Node(a) = Order[pos] /\ pos \in Nat /\ Order[pos] \in Planned
  BY <1>1, AtInner, Plan
<1>4. /\ marked \in Marks /\ Grows(child[a].nodes, marked) /\ marked[Order[pos]] = "failed"
      /\ Visible \subseteq DOMAIN marked /\ Through(marked, pos) /\ Ahead(marked, pos)
      /\ HiddenIn(marked) = HiddenIn(child[a].nodes)
      /\ \A n \in HiddenIn(marked) : marked[n] = child[a].nodes[n]
  <2> HIDE DEF marked, pos
  <2>1. "failed" \in Statuses \ {"queued"} /\ "running" \in Open
    BY DEF Statuses, Open
  <2>2. Through(child[a].nodes, pos) /\ Ahead(child[a].nodes, pos) /\ child[a].nodes[Order[pos]] = "running"
    BY <1>2 DEF NodeSound, pos
  <2> QED
    BY <1>2, <1>3, <2>1, <2>2, MarkPlanned DEF marked
<1> HIDE DEF marked
<1>5. /\ nodes \in Marks /\ Grows(marked, nodes) /\ DOMAIN nodes = DOMAIN marked
      /\ \A q \in DOMAIN Order : /\ q > pos => nodes[Order[q]] = "skipped"
                                 /\ ~(q > pos) => nodes[Order[q]] = marked[Order[q]]
      /\ \A n \in HiddenIn(marked) : nodes[n] = marked[n]
  <2> HIDE DEF nodes
  <2>1. /\ child[a].pos \in DOMAIN Order /\ Ahead(marked, child[a].pos)
        /\ marked \in Marks /\ Visible \subseteq DOMAIN marked
    BY <1>3, <1>4
  <2>2. nodes = Skipping(a, marked)
    BY DEF nodes
  <2>3. /\ nodes \in Marks /\ Grows(marked, nodes) /\ DOMAIN nodes = DOMAIN marked
        /\ \A q \in DOMAIN Order : /\ q > child[a].pos => nodes[Order[q]] = "skipped"
                                   /\ ~(q > child[a].pos) => nodes[Order[q]] = marked[Order[q]]
        /\ \A n \in HiddenIn(marked) : nodes[n] = marked[n]
    BY ONLY Parameters, <2>1, <2>2, SkipLater
  <2> QED
    BY <2>3
<1>6. Grows(child[a].nodes, nodes)
  BY <1>4, <1>5, GrowsOn
<1> HIDE DEF nodes
<1>7. FailedAt(nodes, pos)
  <2>1. nodes[Order[pos]] = "failed"
    BY <1>3, <1>4, <1>5
  <2>2. ASSUME NEW q \in DOMAIN Order, q < pos
        PROVE  nodes[Order[q]] \in {"done", "skipped"}
    <3>1. ~(q > pos)
      BY <1>3, <2>2, Plan
    <3> QED
      BY <1>4, <1>5, <2>2, <3>1 DEF Through, Finished
  <2>3. ASSUME NEW n \in HiddenIn(nodes), nodes[n] # "done"
        PROVE  nodes[n] = "running" /\ n \in Hidden(Order[pos])
    <3>1. n \in HiddenIn(child[a].nodes) /\ nodes[n] = child[a].nodes[n]
      BY <1>4, <1>5 DEF HiddenIn
    <3>2. /\ child[a].at = "inner" /\ n = Inside[Order[pos]][child[a].inner]
          /\ child[a].nodes[n] = "running" /\ child[a].inner \in DOMAIN Inside[Order[pos]]
      BY <1>1, <1>2, <2>3, <3>1 DEF ChildSound, InnerBefore, InnerDone
    <3> QED
      BY <1>3, <3>1, <3>2, Components
  <2> QED
    BY <1>3, <1>5, <2>1, <2>2, <2>3 DEF FailedAt
<1>8. c \in ChildState /\ c.nodes = nodes /\ c.at = "over" /\ c.result = "failed" /\ c.cause = "node"
  BY <1>2, <1>5 DEF ChildState, Over
<1>9. ChildSound(c)
  BY <1>3, <1>4, <1>5, <1>7, <1>8, NoneApart DEF ChildSound, Terminal, Located
<1> HIDE DEF c
<1> QED
  BY <1>1, <1>6, <1>8, <1>9, ReportStep DEF c

LEMMA WriteStep ==
  ASSUME Parameters, PInv, NEW a \in Attempts, WriteResult(a)
  PROVE  PInv'
<1> DEFINE late == Told(a) /\ child[a].cause # "graph"
           result == IF child[a].at = "ready" THEN "succeeded" ELSE child[a].result
           c == [child[a] EXCEPT !.at = "written"]
           f == [files[a] EXCEPT !.result = IF late THEN "cancelled" ELSE result,
                                 !.cause = IF late THEN None ELSE child[a].cause]
<1>1. /\ (child[a].at = "ready" /\ child[a].pos > Len(Order)) \/ child[a].at = "over"
      /\ UNCHANGED <<row, monitor, ended, stale>>
  BY DEF WriteResult
<1>2. child[a] \in ChildState /\ ChildSound(child[a]) /\ Reported(child[a], files[a])
      /\ files[a] \in FileState /\ FileSound(files[a]) /\ child[a].nodes \in Marks
  BY <1>1, AtWork
<1>3. child' = [child EXCEPT ![a] = c] /\ files' = [files EXCEPT ![a] = f]
  <2>1. files \in [Attempts -> FileState] /\ child \in [Attempts -> ChildState \cup {NoChild}]
    BY DEF PInv, TypeOK
  <2> QED
    BY <2>1 DEF WriteResult, Directory
<1>4. c \in ChildState /\ c.at = "written" /\ c.nodes = child[a].nodes
  BY <1>2 DEF ChildState
<1>5. result \in {"succeeded", "failed", "cancelled"}
  BY <1>1, <1>2 DEF ChildState, ChildSound
<1>6. files[a].progress = child[a].nodes /\ child[a].nodes # None
  BY <1>1, <1>2, NoneApart DEF Reported
<1>7. /\ f \in FileState /\ f.progress = child[a].nodes
      /\ f.result = IF late THEN "cancelled" ELSE result
      /\ f.cause = IF late THEN None ELSE child[a].cause
  <2> HIDE DEF late, result
  <2> QED
    BY <1>2, <1>5, <1>6 DEF FileState, ChildState
<1>8. FileSound(f)
  <2>1. ASSUME f.result = "succeeded"
        PROVE  Complete(child[a].nodes)
    <3>1. child[a].at = "ready" /\ child[a].pos > Len(Order)
      <4>1. CASE late
        BY <1>7, <2>1, <4>1
      <4>2. CASE ~late
        <5>1. result = "succeeded"
          BY <1>7, <2>1, <4>2
        <5>2. child[a].result \in {None, "failed", "cancelled"} /\ None # "succeeded"
          BY <1>2, NoneApart DEF ChildState, Terminal
        <5> QED
          BY <1>1, <5>1, <5>2
      <4> QED
        BY <4>1, <4>2
    <3>2. ReadySound(child[a]) /\ child[a].pos \in 1 .. Len(Order) + 1
      BY <1>2, <3>1 DEF ChildSound, ChildState
    <3>3. \A p \in DOMAIN Order : p < child[a].pos
      BY <3>1, <3>2, Plan
    <3> QED
      BY <3>2, <3>3 DEF ReadySound, Complete, Through, InnerBefore
  <2>2. ASSUME f.cause = "node"
        PROVE  Located(child[a].nodes)
    <3>1. child[a].cause = "node"
      BY <1>7, <2>2, NoneApart
    <3>2. child[a].at = "over"
      BY <1>1, <1>2, <3>1, NoneApart DEF ChildSound
    <3> QED
      BY <1>2, <3>1, <3>2 DEF ChildSound
  <2> QED
    BY <1>6, <1>7, <2>1, <2>2 DEF FileSound
<1>9. Grows(child[a].nodes, c.nodes) /\ Reported(c, f)
  BY <1>4, <1>7 DEF Grows, Reported
<1>10. ChildSound(c)
  BY <1>2, <1>4 DEF ChildSound
<1> HIDE DEF c, f
<1> QED
  BY <1>1, <1>3, <1>4, <1>7, <1>8, <1>9, <1>10, ChildStep

\* The child ends, or is ended.
LEMMA EndStep ==
  ASSUME Parameters, PInv, NEW a \in Attempts,
         Exit(a) \/ \E how \in {"killed", "cpu time"} : Die(a, how)
  PROVE  PInv'
<1>1. PICK at \in {"exited", "killed", "cpu time"} :
        /\ child[a].at \in {"forked", "ready", "node", "inner", "over", "written"}
        /\ at = "exited" => child[a].at = "written"
        /\ child' = [child EXCEPT ![a].at = at]
        /\ UNCHANGED <<row, files, monitor, ended, stale>>
  BY DEF Exit, Die, Alive
<1> DEFINE c == [child[a] EXCEPT !.at = at]
<1>2. child[a] \in ChildState /\ ChildSound(child[a]) /\ Reported(child[a], files[a])
      /\ files[a] \in FileState /\ FileSound(files[a])
  BY <1>1, AtWork
<1>3. c \in ChildState /\ c.at = at /\ c.nodes = child[a].nodes
  BY <1>2 DEF ChildState
<1>4. child' = [child EXCEPT ![a] = c] /\ files' = [files EXCEPT ![a] = files[a]]
  BY <1>1 DEF PInv, TypeOK
<1>5. ChildSound(c)
  BY <1>2, <1>3 DEF ChildSound
<1>6. Grows(child[a].nodes, c.nodes) /\ Reported(c, files[a])
  BY <1>1, <1>2, <1>3 DEF Grows, Reported
<1> HIDE DEF c
<1> QED
  BY <1>1, <1>2, <1>3, <1>4, <1>5, <1>6, ChildStep

-----------------------------------------------------------------------------
(* Steps of the row and of the workers *)

LEMMA Held ==
  ASSUME PInv
  PROVE  /\ TypeOK /\ RowSound /\ \A a \in Attempts : AttemptSound(a)
         /\ RowFollowsItsChild /\ SuccessIsComplete /\ FailureIsLocated /\ NothingLeftOpen
BY DEF PInv, ProgressHolds

\* An attempt nothing happens to, in a row whose attempts only go up.
LEMMA Elsewhere ==
  ASSUME NEW b \in Attempts, AttemptSound(b), TypeOK, TypeOK',
         child'[b] = child[b], files'[b] = files[b], monitor'[b] = monitor[b],
         row'.attempt >= row.attempt
  PROVE  AttemptSound(b)'
<1>1. row.attempt \in Int /\ row'.attempt \in Int /\ b \in Int
  BY DEF TypeOK, Attempts
<1>2. b > row'.attempt => b > row.attempt
  BY <1>1
<1> QED
  BY <1>2 DEF AttemptSound

LEMMA ClaimStep ==
  ASSUME Parameters, PInv, NEW a \in Attempts, Claim(a)
  PROVE  PInv'
<1> DEFINE c == [at |-> "forked", pos |-> 1, inner |-> 1, nodes |-> Initial,
                 deferred |-> {}, result |-> None, cause |-> None]
<1>1. /\ row.status = "queued" /\ a = row.attempt + 1 /\ ended' = None
      /\ row' = [row EXCEPT !.status = "running", !.attempt = a, !.by = a]
      /\ child' = [child EXCEPT ![a] = c]
      /\ monitor' = [monitor EXCEPT ![a].at = "watching"]
      /\ files' = files /\ stale' = stale
  BY DEF Claim
<1>2. TypeOK /\ RowSound /\ \A b \in Attempts : AttemptSound(b)
  BY Held
<1>3. row.attempt \in Nat /\ a \in 0..MaxClaims /\ a \in Nat /\ a > row.attempt
  BY <1>1, <1>2, NoneApart DEF TypeOK
<1>4. /\ child[a] = NoChild /\ monitor[a].at = "gone" /\ files[a].progress = None
      /\ files[a].result = None /\ files[a].cause = None /\ FileSound(files[a])
  BY <1>2, <1>3 DEF AttemptSound
<1>5. /\ row'.status = "running" /\ row'.attempt = a /\ row'.by = a /\ row'.nodes = row.nodes
      /\ a # None
  BY <1>1, <1>2, NoneApart DEF TypeOK
<1>6. c \in ChildState
  <2>1. 1 \in 1 .. Len(Order) + 1 /\ 1 \in Nat \ {0} /\ Initial \in Marks
    BY Plan, InitialMarks
  <2>2. "forked" \in {"forked", "ready", "node", "inner", "over", "written", "exited", "killed", "cpu time"}
    OBVIOUS
  <2> QED
    BY <2>1, <2>2 DEF ChildState
<1>7. ChildSound(c)
  BY InitialMarks DEF ChildSound
<1> HIDE DEF c
<1>8. TypeOK'
  <2>1. row' \in [status : Open \cup Terminal, attempt : 0..MaxClaims, by : Attempts \cup {None},
                  cancel : BOOLEAN, nodes : Marks]
    BY <1>1, <1>2, <1>3 DEF TypeOK, Open
  <2> QED
    BY <1>1, <1>2, <1>6, <2>1 DEF TypeOK
<1>9. c.nodes = Initial /\ c.at = "forked" /\ c # NoChild
  BY DEF c, NoChild
<1>10. child'[a] = c /\ monitor'[a].at = "watching" /\ files'[a] = files[a]
  BY <1>1, <1>2 DEF TypeOK
<1>11. RowSound'
  BY <1>1, <1>5 DEF RowSound
<1>12. ASSUME NEW b \in Attempts
       PROVE  AttemptSound(b)'
  <2>1. CASE b = a
    <3>1. Reported(c, files[a])
      BY <1>4, <1>9 DEF Reported
    <3>2. ~(a > a)
      BY <1>3
    <3> QED
      BY <1>4, <1>5, <1>7, <1>9, <1>10, <2>1, <3>1, <3>2 DEF AttemptSound
  <2>2. CASE b # a
    <3>1. child'[b] = child[b] /\ files'[b] = files[b] /\ monitor'[b] = monitor[b]
      BY <1>1, <1>2, <2>2 DEF TypeOK
    <3>2. row'.attempt >= row.attempt
      BY <1>3, <1>5
    <3> QED
      BY <1>2, <1>8, <3>1, <3>2, Elsewhere
  <2> QED
    BY <2>1, <2>2
<1>13. ProgressHolds'
  <2>1. stale \/ row.nodes = Initial
    BY <1>1, Held DEF RowFollowsItsChild
  <2>2. Behind(Initial, Initial)
    BY DEF Behind
  <2>3. RowFollowsItsChild'
    BY <1>1, <1>5, <1>9, <1>10, <2>1, <2>2 DEF RowFollowsItsChild
  <2> QED
    BY <1>5, <2>3 DEF ProgressHolds, SuccessIsComplete, FailureIsLocated, NothingLeftOpen, Terminal
<1> QED
  BY <1>8, <1>11, <1>12, <1>13 DEF PInv

\* A step that settles nothing and changes the row only: the run waits again,
\* or it ended and no worker said how.
LEMMA RowStep ==
  ASSUME Parameters, PInv, UNCHANGED <<child, files, monitor>>,
         row' \in [status : Open \cup Terminal, attempt : 0..MaxClaims, by : Attempts \cup {None},
                   cancel : BOOLEAN, nodes : Marks],
         row'.attempt = row.attempt, row'.by = None, row'.status \in {"queued", "failed", "cancelled"},
         ended' = None, stale' \in BOOLEAN, row'.status = "queued" => row'.nodes = Initial
  PROVE  PInv'
<1>1. TypeOK /\ RowSound /\ \A b \in Attempts : AttemptSound(b)
  BY Held
<1>2. TypeOK'
  BY <1>1 DEF TypeOK
<1>3. RowSound'
  BY DEF RowSound
<1>4. ASSUME NEW b \in Attempts
      PROVE  AttemptSound(b)'
  BY <1>1 DEF AttemptSound
<1>5. ProgressHolds'
  BY DEF ProgressHolds, RowFollowsItsChild, SuccessIsComplete, FailureIsLocated, NothingLeftOpen
<1> QED
  BY <1>2, <1>3, <1>4, <1>5 DEF PInv

LEMMA RecoverStep ==
  ASSUME Parameters, PInv, Recover
  PROVE  PInv'
<1>1. /\ row.status = "running" /\ row' = FailOrRequeue(row.nodes, "failed", TRUE)
      /\ stale' = (stale /\ row'.status # "queued") /\ UNCHANGED <<child, files, monitor, ended>>
  BY DEF Recover
<1>2. TypeOK /\ RowSound
  BY Held
<1>3. ended' = None
  BY <1>1, <1>2 DEF RowSound, Open
<1>4. \/ row' = [row EXCEPT !.status = "queued", !.by = None, !.nodes = Initial]
      \/ row' = [row EXCEPT !.status = IF row.cancel THEN "cancelled" ELSE "failed",
                            !.by = None, !.nodes = row.nodes]
  BY <1>1 DEF FailOrRequeue
<1>5. /\ row' \in [status : Open \cup Terminal, attempt : 0..MaxClaims, by : Attempts \cup {None},
                   cancel : BOOLEAN, nodes : Marks]
      /\ row'.attempt = row.attempt /\ row'.by = None /\ row'.status \in {"queued", "failed", "cancelled"}
      /\ row'.status = "queued" => row'.nodes = Initial
  <2>1. row \in [status : Open \cup Terminal, attempt : 0..MaxClaims, by : Attempts \cup {None},
                 cancel : BOOLEAN, nodes : Marks]
        /\ Initial \in Marks
    BY <1>2, InitialMarks DEF TypeOK
  <2>2. CASE row' = [row EXCEPT !.status = "queued", !.by = None, !.nodes = Initial]
    BY <2>1, <2>2 DEF Open
  <2>3. ASSUME NEW status \in {"failed", "cancelled"},
               row' = [row EXCEPT !.status = status, !.by = None, !.nodes = row.nodes]
        PROVE  /\ row' \in [status : Open \cup Terminal, attempt : 0..MaxClaims, by : Attempts \cup {None},
                             cancel : BOOLEAN, nodes : Marks]
               /\ row'.attempt = row.attempt /\ row'.by = None /\ row'.status = status
    BY <2>1, <2>3 DEF Terminal
  <2> QED
    BY <1>4, <2>2, <2>3
<1>6. stale' \in BOOLEAN
  BY <1>1
<1> QED
  BY <1>1, <1>3, <1>5, <1>6, RowStep

LEMMA RequestCancelStep ==
  ASSUME Parameters, PInv, RequestCancel
  PROVE  PInv'
<1>1. /\ row.status \notin Terminal /\ UNCHANGED <<child, files, monitor, ended, stale>>
      /\ row' = [row EXCEPT !.cancel = TRUE, !.status = IF row.status = "queued" THEN "cancelled" ELSE row.status]
  BY DEF RequestCancel
<1>2. TypeOK /\ RowSound /\ \A b \in Attempts : AttemptSound(b)
  BY Held
<1>3. row.status \in Open /\ ended' = None
  BY <1>1, <1>2 DEF TypeOK, RowSound
<1>4. row' \in [status : Open \cup Terminal, attempt : 0..MaxClaims, by : Attempts \cup {None},
                cancel : BOOLEAN, nodes : Marks]
      /\ row'.attempt = row.attempt /\ row'.by = row.by /\ row'.nodes = row.nodes
  BY <1>1, <1>2, <1>3 DEF TypeOK, Open, Terminal
<1>5. stale' \in BOOLEAN
  BY <1>1, <1>2 DEF TypeOK
<1>6. CASE row.status = "queued"
  <2>1. row'.status = "cancelled" /\ row'.by = None
    BY <1>1, <1>2, <1>6 DEF TypeOK, RowSound
  <2> QED
    BY <1>1, <1>3, <1>4, <1>5, <2>1, RowStep
<1>7. CASE row.status = "running"
  <2>1. row'.status = "running"
    BY <1>1, <1>2, <1>7 DEF TypeOK
  <2>2. TypeOK'
    BY <1>1, <1>2, <1>4 DEF TypeOK
  <2>3. RowSound'
    BY <1>2, <1>3, <1>4, <1>7, <2>1 DEF RowSound
  <2>4. ASSUME NEW b \in Attempts
        PROVE  AttemptSound(b)'
    BY <1>1, <1>2, <1>4 DEF AttemptSound
  <2>5. ProgressHolds'
    BY <1>1, <1>3, <1>4, <2>1, Held DEF ProgressHolds, RowFollowsItsChild, SuccessIsComplete,
       FailureIsLocated, NothingLeftOpen
  <2> QED
    BY <2>2, <2>3, <2>4, <2>5 DEF PInv
<1> QED
  BY <1>3, <1>6, <1>7 DEF Open

LEMMA QueueRetryStep ==
  ASSUME Parameters, PInv, QueueRetry
  PROVE  PInv'
<1>1. /\ row.status \in Terminal /\ UNCHANGED <<child, files, monitor>>
      /\ row' = [row EXCEPT !.status = "queued", !.cancel = FALSE, !.nodes = Initial]
      /\ ended' = None /\ stale' = FALSE
  BY DEF QueueRetry
<1>2. TypeOK /\ RowSound
  BY Held
<1>3. row.by = None
  BY <1>1, <1>2 DEF RowSound, Terminal
<1>4. /\ row' \in [status : Open \cup Terminal, attempt : 0..MaxClaims, by : Attempts \cup {None},
                   cancel : BOOLEAN, nodes : Marks]
      /\ row'.attempt = row.attempt /\ row'.by = None /\ row'.status = "queued" /\ row'.nodes = Initial
  BY <1>1, <1>2, <1>3, InitialMarks DEF TypeOK, Open
<1> QED
  BY <1>1, <1>4, RowStep

\* A worker that watches, reads or is told something, and changes its own state.
LEMMA MonitorStep ==
  ASSUME Parameters, PInv, NEW a \in Attempts, UNCHANGED <<row, child, ended, stale>>,
         monitor[a].at # "gone",
         NEW m \in [at : {"watching", "syncing"}, why : {None, "timed_out", "failed", "cancelled"},
                    read : Marks \cup {None}],
         monitor' = [monitor EXCEPT ![a] = m],
         m.at = "syncing" => m.read # None /\ Behind(m.read, child[a].nodes),
         NEW told \in BOOLEAN, files' = [files EXCEPT ![a].cancel = told]
  PROVE  PInv'
<1>1. TypeOK /\ RowSound /\ \A b \in Attempts : AttemptSound(b)
  BY Held
<1>2. TypeOK'
  <2>1. monitor' \in [Attempts -> [at : {"gone", "watching", "syncing"},
                                   why : {None, "timed_out", "failed", "cancelled"},
                                   read : Marks \cup {None}]]
    BY <1>1 DEF TypeOK
  <2>2. files' \in [Attempts -> FileState]
    <3>1. files \in [Attempts -> FileState] /\ files[a] \in FileState
      BY <1>1 DEF TypeOK
    <3>2. [files[a] EXCEPT !.cancel = told] \in FileState
      BY <3>1 DEF FileState
    <3>3. files' = [files EXCEPT ![a] = [files[a] EXCEPT !.cancel = told]]
      BY <3>1
    <3> QED
      BY <3>1, <3>2, <3>3
  <2> QED
    BY <1>1, <2>1, <2>2 DEF TypeOK
<1>3. \A b \in Attempts : /\ files'[b].progress = files[b].progress
                          /\ files'[b].result = files[b].result /\ files'[b].cause = files[b].cause
  BY <1>1 DEF TypeOK, FileState
<1>4. ASSUME NEW b \in Attempts
      PROVE  AttemptSound(b)'
  <2>1. AttemptSound(b) /\ FileSound(files'[b])
    BY <1>1, <1>3 DEF AttemptSound, FileSound
  <2>2. Reported(child[b], files[b]) => Reported(child[b], files'[b])
    BY <1>3 DEF Reported
  <2>3. CASE b = a
    <3>1. monitor'[a] = m /\ m.at # "gone"
      BY <1>1 DEF TypeOK
    <3>2. ~(a > row.attempt) /\ child[a] # NoChild
      BY <2>1, <2>3 DEF AttemptSound
    <3> QED
      BY <2>1, <2>2, <2>3, <3>1, <3>2 DEF AttemptSound
  <2>4. CASE b # a
    <3>1. monitor'[b] = monitor[b]
      BY <1>1, <2>4 DEF TypeOK
    <3> QED
      BY <1>3, <2>1, <2>2, <3>1 DEF AttemptSound
  <2> QED
    BY <2>3, <2>4
<1>5. RowSound'
  BY <1>1 DEF RowSound
<1>6. ProgressHolds'
  <2>1. row.status = "succeeded" => row.attempt \in Attempts
    BY <1>1 DEF RowSound
  <2> QED
    BY <1>3, <2>1, Held DEF ProgressHolds, RowFollowsItsChild, SuccessIsComplete,
       FailureIsLocated, NothingLeftOpen, Directory
<1> QED
  BY <1>2, <1>4, <1>5, <1>6 DEF PInv

LEMMA WatchStep ==
  ASSUME Parameters, PInv, NEW a \in Attempts,
         \/ ReadProgress(a) \/ SendCancel(a)
         \/ \E why \in {"timed_out", "failed"} : GiveUp(a, why)
  PROVE  PInv'
<1>1. TypeOK /\ AttemptSound(a)
  BY Held
<1>2. monitor[a] \in [at : {"gone", "watching", "syncing"},
                      why : {None, "timed_out", "failed", "cancelled"}, read : Marks \cup {None}]
      /\ files[a] \in FileState /\ files \in [Attempts -> FileState]
      /\ monitor \in [Attempts -> [at : {"gone", "watching", "syncing"},
                      why : {None, "timed_out", "failed", "cancelled"}, read : Marks \cup {None}]]
  BY <1>1 DEF TypeOK
<1>3. monitor[a].at = "watching"
  BY DEF ReadProgress, SendCancel, GiveUp, Watching
<1>4. CASE ReadProgress(a)
  <2> DEFINE m == [monitor[a] EXCEPT !.at = "syncing", !.read = files[a].progress]
  <2>1. /\ files[a].progress # None /\ UNCHANGED <<row, child, files, ended, stale>>
        /\ monitor' = [monitor EXCEPT ![a] = m]
    BY <1>2, <1>4 DEF ReadProgress, Shown, Directory
  <2>2. files[a].progress \in Marks
    BY <1>2, <2>1 DEF FileState
  <2>3. m \in [at : {"watching", "syncing"}, why : {None, "timed_out", "failed", "cancelled"},
               read : Marks \cup {None}]
        /\ m.read = files[a].progress
    BY <1>2, <2>2
  <2>4. child[a] # NoChild
    BY <1>1, <1>3 DEF AttemptSound
  <2>5. files[a].progress = child[a].nodes
    BY <1>1, <2>1, <2>4 DEF AttemptSound, Reported
  <2>6. Behind(files[a].progress, child[a].nodes)
    BY <2>5 DEF Behind
  <2>7. files' = [files EXCEPT ![a].cancel = files[a].cancel] /\ files[a].cancel \in BOOLEAN
    BY <1>2, <2>1 DEF FileState
  <2> HIDE DEF m
  <2> QED
    BY <1>3, <2>1, <2>2, <2>3, <2>6, <2>7, MonitorStep
<1>5. ASSUME NEW why \in {"timed_out", "failed", "cancelled"}, GivesUp(a, why)
      PROVE  PInv'
  <2> DEFINE m == [monitor[a] EXCEPT !.why = why]
  <2>1. /\ UNCHANGED <<row, child, ended, stale>> /\ monitor' = [monitor EXCEPT ![a] = m]
        /\ files' = [files EXCEPT ![a].cancel = TRUE]
    BY <1>2, <1>5 DEF GivesUp, Directory
  <2>2. m \in [at : {"watching", "syncing"}, why : {None, "timed_out", "failed", "cancelled"},
               read : Marks \cup {None}]
        /\ m.at = "watching"
    BY <1>2, <1>3
  <2> HIDE DEF m
  <2> QED
    BY <1>3, <2>1, <2>2, MonitorStep
<1> QED
  BY <1>4, <1>5 DEF SendCancel, GiveUp

LEMMA WriteProgressStep ==
  ASSUME Parameters, PInv, NEW a \in Attempts, WriteProgress(a)
  PROVE  PInv'
<1>1. /\ monitor[a].at = "syncing" /\ stale' = (row.by # a)
      /\ row' = [row EXCEPT !.nodes = monitor[a].read]
      /\ monitor' = [monitor EXCEPT ![a].at = "watching", ![a].read = None]
      /\ UNCHANGED <<child, files, ended>>
  BY DEF WriteProgress
<1>2. TypeOK /\ RowSound /\ \A b \in Attempts : AttemptSound(b)
  BY Held
<1>3. monitor[a].read \in Marks /\ Behind(monitor[a].read, child[a].nodes)
  BY <1>1, <1>2 DEF TypeOK, AttemptSound
<1>4. /\ row'.nodes = monitor[a].read /\ row'.status = row.status /\ row'.attempt = row.attempt
      /\ row'.by = row.by
  BY <1>1, <1>2 DEF TypeOK
<1>5. TypeOK'
  <2>1. row' \in [status : Open \cup Terminal, attempt : 0..MaxClaims, by : Attempts \cup {None},
                  cancel : BOOLEAN, nodes : Marks]
    BY <1>1, <1>2, <1>3 DEF TypeOK
  <2>2. monitor' \in [Attempts -> [at : {"gone", "watching", "syncing"},
                                   why : {None, "timed_out", "failed", "cancelled"},
                                   read : Marks \cup {None}]]
    BY <1>1, <1>2 DEF TypeOK
  <2> QED
    BY <1>1, <1>2, <2>1, <2>2 DEF TypeOK
<1>6. RowSound'
  BY <1>1, <1>2, <1>4 DEF RowSound
<1>7. ASSUME NEW b \in Attempts
      PROVE  AttemptSound(b)'
  <2>1. AttemptSound(b) /\ AttemptSound(a)
    BY <1>2
  <2>2. CASE b = a
    <3>1. monitor'[a].at = "watching"
      BY <1>1, <1>2 DEF TypeOK
    <3> QED
      BY <1>1, <1>4, <2>1, <2>2, <3>1 DEF AttemptSound
  <2>3. CASE b # a
    <3>1. monitor'[b] = monitor[b]
      BY <1>1, <1>2, <2>3 DEF TypeOK
    <3> QED
      BY <1>1, <1>4, <2>1, <3>1 DEF AttemptSound
  <2> QED
    BY <2>2, <2>3
<1>8. ProgressHolds'
  <2>1. CASE row.by = a
    <3>1. row.status = "running" /\ row.by # None
      BY <1>2, <2>1, NoneApart DEF RowSound
    <3> QED
      BY <1>1, <1>3, <1>4, <2>1, <3>1 DEF ProgressHolds, RowFollowsItsChild, SuccessIsComplete,
         FailureIsLocated, NothingLeftOpen, Terminal
  <2>2. CASE row.by # a
    BY <1>1, <2>2 DEF ProgressHolds, RowFollowsItsChild, SuccessIsComplete,
       FailureIsLocated, NothingLeftOpen
  <2> QED
    BY <2>1, <2>2
<1> QED
  BY <1>5, <1>6, <1>7, <1>8 DEF PInv

\* The worker drops the run, or dies; the row stays, or is settled.
LEMMA LeaveAttempts ==
  ASSUME Parameters, PInv, NEW a \in Attempts, Leave(a), UNCHANGED files, row'.attempt = row.attempt
  PROVE  /\ child' \in [Attempts -> ChildState \cup {NoChild}]
         /\ monitor' \in [Attempts -> [at : {"gone", "watching", "syncing"},
                                       why : {None, "timed_out", "failed", "cancelled"},
                                       read : Marks \cup {None}]]
         /\ child'[a] = NoChild /\ \A b \in Attempts : b # a => child'[b] = child[b]
         /\ \A b \in Attempts : AttemptSound(b)'
<1>1. TypeOK /\ \A b \in Attempts : AttemptSound(b)
  BY Held
<1>2. NoMonitor \in [at : {"gone", "watching", "syncing"},
                     why : {None, "timed_out", "failed", "cancelled"}, read : Marks \cup {None}]
      /\ NoMonitor.at = "gone"
  BY DEF NoMonitor
<1>3. child' = [child EXCEPT ![a] = NoChild] /\ monitor' = [monitor EXCEPT ![a] = NoMonitor]
  BY DEF Leave
<1> HIDE DEF NoMonitor
<1>4. /\ child' \in [Attempts -> ChildState \cup {NoChild}]
      /\ monitor' \in [Attempts -> [at : {"gone", "watching", "syncing"},
                                    why : {None, "timed_out", "failed", "cancelled"},
                                    read : Marks \cup {None}]]
      /\ child'[a] = NoChild /\ monitor'[a] = NoMonitor
      /\ \A b \in Attempts : b # a => child'[b] = child[b] /\ monitor'[b] = monitor[b]
  BY <1>1, <1>2, <1>3 DEF TypeOK
<1>5. ASSUME NEW b \in Attempts
      PROVE  AttemptSound(b)'
  <2>1. AttemptSound(b)
    BY <1>1
  <2>2. CASE b = a
    BY <1>2, <1>4, <2>1, <2>2 DEF AttemptSound
  <2>3. CASE b # a
    BY <1>4, <2>1, <2>3 DEF AttemptSound
  <2> QED
    BY <2>2, <2>3
<1> QED
  BY <1>4, <1>5

LEMMA DropStep ==
  ASSUME Parameters, PInv, NEW a \in Attempts, Leave(a), UNCHANGED <<row, files, ended, stale>>
  PROVE  PInv'
<1>1. TypeOK /\ RowSound
  BY Held
<1>2. /\ child' \in [Attempts -> ChildState \cup {NoChild}]
      /\ monitor' \in [Attempts -> [at : {"gone", "watching", "syncing"},
                                    why : {None, "timed_out", "failed", "cancelled"},
                                    read : Marks \cup {None}]]
      /\ child'[a] = NoChild /\ \A b \in Attempts : b # a => child'[b] = child[b]
      /\ \A b \in Attempts : AttemptSound(b)'
  BY LeaveAttempts
<1>3. TypeOK'
  BY <1>1, <1>2 DEF TypeOK
<1>4. RowSound'
  BY <1>1, <1>2 DEF RowSound
<1>5. ProgressHolds'
  <2>1. row.by # None => row.by \in Attempts
    BY <1>1 DEF TypeOK
  <2>2. RowFollowsItsChild'
    BY <1>2, <2>1, Held DEF RowFollowsItsChild
  <2> QED
    BY <2>2, Held DEF ProgressHolds, SuccessIsComplete, FailureIsLocated, NothingLeftOpen
<1> QED
  BY <1>2, <1>3, <1>4, <1>5 DEF PInv

\* What a child that said it succeeded, or that a node failed, has shown.
LEMMA Shows ==
  ASSUME Parameters, NEW nodes \in Marks
  PROVE  /\ Complete(nodes) =>
              \A n \in DOMAIN nodes \ Aside :
                nodes[n] # "done" => /\ nodes[n] = "skipped"
                                     /\ \E m \in MayDefer : nodes[m] = "done" /\ n \in Follows[m]
         /\ Located(nodes) =>
              \E p \in DOMAIN Order :
                /\ nodes[Order[p]] = "failed"
                /\ \A q \in DOMAIN Order :
                     /\ q < p => nodes[Order[q]] \in {"done", "skipped"}
                     /\ q > p => nodes[Order[q]] = "skipped"
                /\ \A n \in DOMAIN nodes \ (Planned \cup Aside) :
                     nodes[n] # "done" => (nodes[n] = "running" /\ n \in ToSet(Inside[Order[p]]))
<1>1. ASSUME Complete(nodes), NEW n \in DOMAIN nodes \ Aside, nodes[n] # "done"
      PROVE  nodes[n] = "skipped" /\ \E m \in MayDefer : nodes[m] = "done" /\ n \in Follows[m]
  <2>1. n \in Planned
    BY <1>1 DEF Complete, HiddenIn, Visible
  <2>2. Finished(nodes, n)
    BY <1>1, <2>1, Plan DEF Complete
  <2> QED
    BY <1>1, <2>2 DEF Finished, Excused
<1>2. HiddenIn(nodes) = DOMAIN nodes \ (Planned \cup Aside)
  BY DEF HiddenIn, Visible
<1> QED
  BY <1>1, <1>2 DEF Located, FailedAt, Hidden

\* Settling leaves the statuses of the nodes, or closes those that are open.
LEMMA SettledMarks ==
  ASSUME Parameters, NEW nodes \in Marks, NEW status \in Terminal
  PROVE  /\ Settled(status, nodes) \in Marks
         /\ status \in {"succeeded", "failed"} => Settled(status, nodes) = nodes
         /\ status \in {"cancelled", "timed_out"} =>
              \A n \in DOMAIN Settled(status, nodes) : Settled(status, nodes)[n] \notin Open
<1> DEFINE new == Settled(status, nodes)
<1>1. nodes \in [DOMAIN nodes -> Statuses] /\ DOMAIN nodes \subseteq Named
  BY MarksAre
<1>2. CASE status \in {"cancelled", "timed_out"}
  <2>1. new = [n \in DOMAIN nodes |-> IF nodes[n] \notin Open THEN nodes[n]
                                      ELSE IF status = "cancelled" THEN "cancelled" ELSE "failed"]
    BY <1>2 DEF Settled
  <2>2. new \in [DOMAIN nodes -> Statuses]
    BY <1>1, <2>1 DEF Statuses
  <2>3. new \in Marks
    BY <1>1, <2>2, AreMarks
  <2>4. \A n \in DOMAIN new : new[n] \notin Open
    BY <1>2, <2>1 DEF Open
  <2> QED
    BY <1>2, <2>3, <2>4
<1>3. CASE status \in {"succeeded", "failed"}
  BY <1>3 DEF Settled
<1> QED
  BY <1>2, <1>3 DEF Terminal

LEMMA FinalizeStep ==
  ASSUME Parameters, PInv, NEW a \in Attempts, monitor[a].at = "watching",
         NEW forced \in {None, "timed_out", "failed", "cancelled"},
         NEW published \in BOOLEAN, NEW retryable \in BOOLEAN,
         Finalize(a, forced, published, retryable)
  PROVE  PInv'
<1> DEFINE status == Verdict(a, forced, published)
           shown == IF Shown(a) = None THEN row.nodes ELSE Shown(a)
           nodes == Settled(status, shown)
           cause == IF forced = None /\ published THEN files[a].cause ELSE None
<1>1. /\ Leave(a) /\ UNCHANGED files
      /\ row.by # a => UNCHANGED <<row, ended, stale>>
  BY DEF Finalize
<1>2. CASE row.by # a
  BY <1>1, <1>2, DropStep
<1>3. ASSUME row.by = a
      PROVE  PInv'
  <2>1. TypeOK /\ RowSound /\ AttemptSound(a)
    BY Held
  <2>2. files[a] \in FileState /\ row.status = "running" /\ row.attempt = a /\ a # None
        /\ FileSound(files[a])
    BY <1>3, <2>1, NoneApart DEF TypeOK, RowSound, AttemptSound
  <2>3. row \in [status : Open \cup Terminal, attempt : 0..MaxClaims, by : Attempts \cup {None},
                 cancel : BOOLEAN, nodes : Marks]
    BY <2>1 DEF TypeOK
  <2>4. status \in Terminal
    BY <2>2 DEF Verdict, Terminal, FileState, Directory
  <2>5. shown \in Marks /\ (files[a].progress # None => shown = files[a].progress)
    BY <2>2, <2>3 DEF Shown, Directory, FileState
  <2>6. /\ row' = CASE status = "succeeded" -> [row EXCEPT !.status = status, !.by = None, !.nodes = nodes]
                    [] status = "cancelled" -> [row EXCEPT !.status = status, !.by = None, !.nodes = nodes,
                                                           !.cancel = TRUE]
                    [] status = "timed_out" -> FailOrRequeue(nodes, status, TRUE)
                    [] status = "failed" -> FailOrRequeue(nodes, status, retryable)
        /\ ended' = IF row'.status = "queued" THEN None ELSE [status |-> status, cause |-> cause]
        /\ stale' = (stale /\ Shown(a) = None /\ row'.status # "queued")
    BY <1>3 DEF Finalize, Directory
  <2>7. /\ nodes \in Marks
        /\ status \in {"succeeded", "failed"} => nodes = shown
        /\ status \in {"cancelled", "timed_out"} => \A n \in DOMAIN nodes : nodes[n] \notin Open
    <3> HIDE DEF status, shown
    <3> QED
      BY <2>4, <2>5, SettledMarks
  <2>8. /\ status = "succeeded" => forced = None /\ published /\ files[a].result = "succeeded"
        /\ cause = "node" => files[a].cause = "node"
    BY <2>2, NoneApart DEF Verdict, Directory
  <2>9. cause \in {"node", "graph", None}
    BY <2>2 DEF FileState
  <2> HIDE DEF status, shown, nodes, cause
  <2>10. \/ row' = [row EXCEPT !.status = status, !.by = None, !.nodes = nodes]
         \/ /\ status = "cancelled"
            /\ row' = [row EXCEPT !.status = status, !.by = None, !.nodes = nodes, !.cancel = TRUE]
         \/ row' = [row EXCEPT !.status = "queued", !.by = None, !.nodes = Initial]
         \/ row' = [row EXCEPT !.status = "cancelled", !.by = None, !.nodes = nodes] /\ status # "succeeded"
    BY <2>4, <2>6 DEF FailOrRequeue, Terminal
  <2>11. /\ row' \in [status : Open \cup Terminal, attempt : 0..MaxClaims, by : Attempts \cup {None},
                      cancel : BOOLEAN, nodes : Marks]
         /\ row'.attempt = a /\ row'.by = None /\ row'.status # "running"
         /\ \/ row'.status = "queued" /\ row'.nodes = Initial
            \/ row'.status = status /\ row'.nodes = nodes
            \/ row'.status = "cancelled" /\ row'.nodes = nodes /\ status # "succeeded"
    <3>1. /\ Initial \in Marks /\ None \in Attempts \cup {None} /\ status \in Open \cup Terminal
          /\ status # "running" /\ "queued" \in Open \cup Terminal /\ "cancelled" \in Open \cup Terminal
      BY <2>4, InitialMarks DEF Open, Terminal
    <3> QED
      BY <2>2, <2>3, <2>7, <2>10, <3>1
  <2>12. /\ child' \in [Attempts -> ChildState \cup {NoChild}]
         /\ monitor' \in [Attempts -> [at : {"gone", "watching", "syncing"},
                                       why : {None, "timed_out", "failed", "cancelled"},
                                       read : Marks \cup {None}]]
         /\ child'[a] = NoChild /\ \A b \in Attempts : AttemptSound(b)'
    BY <1>1, <2>2, <2>11, LeaveAttempts
  <2>13. TypeOK'
    <3>1. ended' \in {None} \cup [status : Terminal, cause : {"node", "graph", None}]
      BY <2>4, <2>6, <2>9
    <3>2. stale' \in BOOLEAN
      BY <2>6
    <3> QED
      BY <1>1, <2>1, <2>11, <2>12, <3>1, <3>2 DEF TypeOK
  <2>14. RowSound'
    <3>1. row'.status \in Open => row'.status = "queued"
      BY <2>11 DEF Open
    <3> QED
      BY <2>6, <2>11, <2>12, <3>1 DEF RowSound
  <2>15. RowFollowsItsChild'
    BY <2>4, <2>11 DEF RowFollowsItsChild, Terminal
  <2>16. SuccessIsComplete'
    <3>1. SUFFICES ASSUME row'.status = "succeeded"
                   PROVE  /\ files'[a].result = "succeeded"
                          /\ \A n \in DOMAIN row'.nodes \ Aside :
                               row'.nodes[n] # "done" =>
                                 /\ row'.nodes[n] = "skipped"
                                 /\ \E m \in MayDefer : row'.nodes[m] = "done" /\ n \in Follows[m]
      BY <2>11 DEF SuccessIsComplete, Directory
    <3>2. status = "succeeded" /\ row'.nodes = shown
      BY <2>7, <2>11, <3>1
    <3>3. files[a].result = "succeeded" /\ Complete(shown)
      BY <2>2, <2>5, <2>8, <3>2 DEF FileSound
    <3> QED
      BY <1>1, <2>5, <3>2, <3>3, Shows
  <2>17. FailureIsLocated'
    <3>1. SUFFICES ASSUME row'.status = "failed", ended' # None, ended'.cause = "node"
                   PROVE  Located(row'.nodes) /\ row'.nodes \in Marks
      BY Shows DEF FailureIsLocated
    <3>2. status = "failed" /\ row'.nodes = shown /\ cause = "node"
      BY <2>6, <2>7, <2>11, <3>1
    <3> QED
      BY <2>2, <2>5, <2>8, <3>2 DEF FileSound
  <2>18. NothingLeftOpen'
    <3>1. SUFFICES ASSUME row'.status \in Terminal, ended'.status \in {"cancelled", "timed_out"}, ended' # None
                   PROVE  \A n \in DOMAIN row'.nodes : row'.nodes[n] \notin Open
      BY DEF NothingLeftOpen
    <3>2. row'.nodes = nodes /\ ended'.status = status
      BY <2>6, <2>11, <3>1 DEF Terminal
    <3> QED
      BY <2>7, <3>1, <3>2
  <2> QED
    BY <2>12, <2>13, <2>14, <2>15, <2>16, <2>17, <2>18 DEF PInv, ProgressHolds
<1> QED
  BY <1>2, <1>3

-----------------------------------------------------------------------------
(* Every step *)

LEMMA InitInvariant ==
  ASSUME Parameters, Init
  PROVE  PInv
<1>1. TypeOK
  <2>1. Empty \in FileState /\ NoMonitor \in [at : {"gone", "watching", "syncing"},
                                              why : {None, "timed_out", "failed", "cancelled"},
                                              read : Marks \cup {None}]
    BY DEF Empty, NoMonitor, FileState
  <2>2. row \in [status : Open \cup Terminal, attempt : 0..MaxClaims, by : Attempts \cup {None},
                 cancel : BOOLEAN, nodes : Marks]
    BY InitialMarks, NoneApart DEF Init, Open
  <2> QED
    BY <2>1, <2>2 DEF Init, TypeOK
<1>2. RowSound
  BY DEF Init, RowSound
<1>3. ASSUME NEW a \in Attempts
      PROVE  AttemptSound(a)
  BY NoneApart DEF Init, AttemptSound, NoMonitor, Empty, FileSound, Terminal
<1>4. ProgressHolds
  BY DEF Init, ProgressHolds, RowFollowsItsChild, SuccessIsComplete, FailureIsLocated, NothingLeftOpen, Terminal
<1> QED
  BY <1>1, <1>2, <1>3, <1>4 DEF PInv

LEMMA Stutters ==
  ASSUME PInv, UNCHANGED vars
  PROVE  PInv'
<1>1. TypeOK' /\ RowSound'
  BY DEF PInv, vars, TypeOK, RowSound
<1>2. \A a \in Attempts : AttemptSound(a)'
  BY DEF PInv, vars, AttemptSound
<1>3. ProgressHolds'
  BY DEF PInv, vars, ProgressHolds, RowFollowsItsChild, SuccessIsComplete, FailureIsLocated, NothingLeftOpen
<1> QED
  BY <1>1, <1>2, <1>3 DEF PInv

LEMMA NextInvariant ==
  ASSUME Parameters, PInv, Next
  PROVE  PInv'
<1>1. ASSUME NEW a \in Attempts,
             \/ Claim(a) \/ Begin(a) \/ RejectGraph(a) \/ SkipDeferred(a) \/ SeeCancel(a) \/ BeginNode(a)
      PROVE  PInv'
  BY <1>1, ClaimStep, BeginStep, RejectStep, SkipStep, SeeCancelStep, BeginNodeStep
<1>2. ASSUME NEW a \in Attempts,
             \/ BeginInner(a) \/ CancelInner(a) \/ FailNode(a) \/ WriteResult(a) \/ Exit(a) \/ EndInner(a)
             \/ \E defers \in BOOLEAN : EndNode(a, defers)
             \/ \E how \in {"killed", "cpu time"} : Die(a, how)
      PROVE  PInv'
  BY <1>2, BeginInnerStep, CancelInnerStep, FailNodeStep, WriteStep, EndStep, EndInnerStep, EndNodeStep
<1>3. ASSUME NEW a \in Attempts,
             \/ ReadProgress(a) \/ WriteProgress(a) \/ SendCancel(a)
             \/ \E why \in {"timed_out", "failed"} : GiveUp(a, why)
      PROVE  PInv'
  BY <1>3, WatchStep, WriteProgressStep
<1>4. ASSUME NEW a \in Attempts, DropLost(a) \/ Crash(a)
      PROVE  PInv'
  BY <1>4, DropStep DEF DropLost, Crash
<1>5. ASSUME NEW a \in Attempts, NEW published \in BOOLEAN, NEW retryable \in BOOLEAN,
             SettleEnded(a, published, retryable) \/ SettleForced(a, published, retryable)
      PROVE  PInv'
  <2>1. monitor[a].at = "watching"
        /\ \E forced \in {None, monitor[a].why} : Finalize(a, forced, published, retryable)
    BY <1>5 DEF SettleEnded, SettleForced, Watching
  <2>2. monitor[a].why \in {None, "timed_out", "failed", "cancelled"}
    BY DEF PInv, TypeOK
  <2> QED
    BY <2>1, <2>2, FinalizeStep
<1>6. CASE Recover \/ RequestCancel \/ QueueRetry
  BY <1>6, RecoverStep, RequestCancelStep, QueueRetryStep
<1> QED
  BY <1>1, <1>2, <1>3, <1>4, <1>5, <1>6 DEF Next

\* The inductive invariant: what a child has done up to its place of the plan,
\* what it has written, and what its worker has read of it.
THEOREM ProgressInvariance ==
  ASSUME Parameters
  PROVE  Spec => []PInv
<1>1. Init => PInv
  BY InitInvariant
<1>2. PInv /\ [Next]_vars => PInv'
  BY NextInvariant, Stutters
<1> QED
  BY <1>1, <1>2, PTL DEF Spec

\* No handler writes a status, a place of the plan or a result that the row,
\* the child or its files do not know, however attempts overlap.
THEOREM ProgressTypes ==
  ASSUME Parameters
  PROVE  Spec => []TypeOK
<1>1. PInv => TypeOK
  BY DEF PInv
<1> QED
  BY <1>1, ProgressInvariance, PTL

\* The row of a run shows no more than the child of its attempt did, a success
\* is complete, a failure has one place and a run that was stopped leaves no
\* node open: sync_progress, finalize_active and fail_or_requeue, for every plan.
THEOREM ProgressCorrect ==
  ASSUME Parameters
  PROVE  Spec => []ProgressHolds
<1>1. PInv => ProgressHolds
  BY DEF PInv
<1> QED
  BY <1>1, ProgressInvariance, PTL
=============================================================================
