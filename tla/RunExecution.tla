--------------------------- MODULE RunExecution ---------------------------
(* What the runs of one workflow compute, and what its editor shows of it.  *)
(* A run executes the graph it was created with in a child process, node by *)
(* node in topological order, with the results the cache offered when the   *)
(* run was prepared; its worker then stores the new cache records and lays  *)
(* the results over those of the latest successful run.  Two workers do     *)
(* this for two runs at a time.                                             *)
(*                                                                          *)
(* A result is the record of how it was computed: node, setting, the inputs *)
(* received, the result an expression of the setting read and, for a node   *)
(* that reads answers of people, their version.  Digests and cache keys are *)
(* the values they stand for.                                               *)
EXTENDS WorkflowGraph, Functions

CONSTANTS
  Ids,          \* the nodes of the workflow, in list order
  Graphs,       \* what a client may submit: [edges, setting, reads]
  Selections,   \* the nodes that may be run alone, and None
  Bypasses,     \* whether a run may bypass the cache
  Uncached,     \* nodes whose class declares cacheable = False
  Awaiting,     \* nodes that read the answers of people and wait for them
  Failing,      \* nodes whose execution may fail, or be interrupted
  Streams,      \* "editor", and the cases the workflow runs for
  None,
  MaxRuns, MaxAnswers, MaxExpiries

Nodes == ToSet(Ids)
Runs  == 1..MaxRuns

\* Ids are unique, and edges connect nodes of the workflow.
ASSUME IdsAssumption == Ids \in Seq(Nodes) /\ \A i, j \in DOMAIN Ids : Ids[i] = Ids[j] => i = j
ASSUME GraphAssumption ==
  \A g \in Graphs : /\ g.edges \in Seq([source : Nodes, target : Nodes])
                    /\ g.setting \in [Nodes -> Nat]
                    /\ g.reads \in [Nodes -> Nodes \cup {None}]
ASSUME SelectionAssumption == Selections \subseteq Nodes \cup {None} /\ None \notin Nodes \cup Runs
ASSUME BoundAssumption == {MaxRuns, MaxAnswers, MaxExpiries} \subseteq Nat
\* Get Submissions declares cacheable = False.
ASSUME AwaitingAssumption == Awaiting \subseteq Uncached

VARIABLES
  run,       \* the rows: what was asked, prepared, computed and kept
  cache,     \* the entries of node_cache_entries: key -> result
  answers,   \* the version of what people have answered
  shown,     \* last_run_id of the workflow
  clock,     \* successful runs so far, the order of finished_at
  expiries

vars == <<run, cache, answers, shown, clock, expiries>>

Absent == [at |-> "absent"]
EmptyMap == [x \in {} |-> x]

Init ==
  /\ run = [r \in Runs |-> Absent] /\ cache = EmptyMap
  /\ answers = 0 /\ shown = None /\ clock = 0 /\ expiries = 0

-----------------------------------------------------------------------------
(* One node in the child: its key, its result *)

\* full_cache_key: the upstream references are sorted, so their order is lost.
Key(n, g, refs, read) == [n |-> n, setting |-> g.setting[n], read |-> read, refs |-> refs]

\* parent_refs: the digest of every source that has a result.
Refs(n, edges, results) ==
  {<<e.source, results[e.source]>> : e \in {d \in ToSet(edges) :
                                             d.target = n /\ d.source \in DOMAIN results}}

\* resolve_settings: an expression reads the result of a node executed before.
Readable(n, g, results) == g.reads[n] = None \/ g.reads[n] \in DOMAIN results
ReadBy(n, g, results)   == IF g.reads[n] = None THEN None ELSE results[g.reads[n]]

Computed(n, g, edges, results, version) ==
  [n |-> n, setting |-> g.setting[n], read |-> ReadBy(n, g, results),
   inputs |-> Received(n, edges, results),
   answers |-> IF n \in Awaiting THEN version ELSE None]

\* Mutant: what follows a task does not wait for its answer.
DefersNever(n, version) == FALSE

\* A result that asks for the submission of a person defers what follows.
Defers(n, version) == n \in Awaiting /\ version = 0

-----------------------------------------------------------------------------
(* execute_workflow, node by node of the plan.  stop names the node that fails *)
(* when it is executed, or before which a cancellation is seen.              *)

Started == [results |-> EmptyMap, status |-> EmptyMap, records |-> EmptyMap,
            deferred |-> {}, ended |-> "succeeded"]

\* A dictionary with one more entry, and one updated by another.
With(f, x, v) == [k \in DOMAIN f \cup {x} |-> IF k = x THEN v ELSE f[k]]
Over(f, g)    == [k \in DOMAIN f \cup DOMAIN g |-> IF k \in DOMAIN f THEN f[k] ELSE g[k]]

Mark(s, n, status) == [s EXCEPT !.status = With(@, n, status)]

Keep(s, n, value, status, q) ==
  [results |-> With(s.results, n, value), status |-> With(s.status, n, status),
   records |-> s.records, ended |-> s.ended,
   deferred |-> IF Defers(n, q.answers) THEN s.deferred \cup Downstream({n}, q.edges) ELSE s.deferred]

\* key_for: what the child knows of the node when its turn comes.
KeyFor(q, s, n) ==
  Key(n, q.graph, Refs(n, q.edges, s.results), ReadBy(n, q.graph, s.results))

\* The cache takes part in this run, for a node of a cacheable class.
Caching(q, n) == q.enabled /\ n \notin Uncached

\* lookup: the manifest serves a result, unless its node was selected.
Served(q, s, n) == Caching(q, n) /\ n # q.selected /\ KeyFor(q, s, n) \in DOMAIN q.manifest

\* store: a computed result is recorded under its key, for the worker to keep.
Store(q, s, n, value) ==
  [Keep(s, n, value, "succeeded", q) EXCEPT
     !.records = IF Caching(q, n) THEN With(@, KeyFor(q, s, n), value) ELSE @]

ExecuteNode(q, s, n) ==
  LET value == Computed(n, q.graph, q.edges, s.results, q.answers)
  IN IF s.ended # "succeeded" \/ n \in s.deferred      THEN Mark(s, n, "skipped")
     ELSE IF q.stop = n /\ q.how = "cancelled"         THEN [Mark(s, n, "cancelled") EXCEPT !.ended = "cancelled"]
     ELSE IF ~Readable(n, q.graph, s.results)          THEN [Mark(s, n, "failed") EXCEPT !.ended = "failed"]
     ELSE IF Served(q, s, n)                           THEN Keep(s, n, q.manifest[KeyFor(q, s, n)], "cached", q)
     ELSE IF q.stop = n                                THEN [Mark(s, n, "failed") EXCEPT !.ended = "failed"]
     ELSE Store(q, s, n, value)

PlanOf(q) == Plan(Ids, q.graph.edges, q.selected, None)

\* What the child knows after k nodes of the plan.
Executed(q, plan) ==
  LET after[k \in 0..Len(plan)] ==
        IF k = 0 THEN Started ELSE ExecuteNode(q, after[k - 1], plan[k])
  IN after

Execute(q) == Executed(q, PlanOf(q))[Len(PlanOf(q))]

-----------------------------------------------------------------------------
(* merge_successful_run_state *)

\* _node_signature: the settings and the incoming edges, sorted.
Signature(n, g) == <<g.setting[n], g.reads[n], SourcesOf(n, g.edges)>>

Get(f, x) == IF x \in DOMAIN f THEN f[x] ELSE None

\* _result_changed: with an output on both sides their digests decide.
ResultChanged(n, now, before) ==
  \/ Get(now, n) = None \/ Get(before, n) = None
  \/ now[n] # before[n]

Changed(executed, g, results, base) ==
  {n \in Nodes :
     IF Signature(n, g) # Signature(n, base.graph)
     THEN n \in executed \/ n \in DOMAIN base.status \/ n \in DOMAIN base.results
     ELSE n \in executed /\ ResultChanged(n, results, base.results)}

\* Mutant: what follows a changed node is retained.
InvalidatedSelf(executed, changed, g) == changed \ executed

Invalidated(executed, changed, g) ==
  (Descendants(changed, g.edges) \cup (changed \ executed)) \ executed

\* The results and statuses of the new run over those of its base.
Merged(g, executed, done, base) ==
  LET gone == Invalidated(executed, Changed(executed, g, done.results, base), g)
      kept == (Nodes \ executed) \ gone IN
  [results |-> Over(done.results, Restrict(base.results, kept \cap DOMAIN base.results)),
   status  |-> Over(done.status, Restrict(base.status, kept \cap DOMAIN base.status))]

-----------------------------------------------------------------------------
(* The life of a run, as far as its results are concerned *)

\* create_run: the submitted graph must have a plan.
Create(r, g, selected, bypass, stream) ==
  /\ run[r].at = "absent" /\ \A s \in 1..(r - 1) : run[s].at # "absent"
  /\ Sortable(PlannedIds(Ids, g.edges, selected, None), PlannedEdges(Ids, g.edges, selected, None))
  /\ run' = [run EXCEPT ![r] = [at |-> "queued", graph |-> g, selected |-> selected,
                                bypass |-> bypass, stream |-> stream]]
  /\ UNCHANGED <<cache, answers, shown, clock, expiries>>

\* _snapshot_run: the answers and the cache manifest are read once.  The
\* manifest is disabled when the cache is bypassed; the selected node is forced.
Prepare(r) ==
  /\ run[r].at = "queued"
  /\ run' = [run EXCEPT ![r] =
       [at |-> "running", graph |-> run[r].graph, selected |-> run[r].selected,
        stream |-> run[r].stream, enabled |-> ~run[r].bypass,
        manifest |-> IF run[r].bypass THEN EmptyMap ELSE cache,
        answers |-> answers, seen |-> clock]]
  /\ UNCHANGED <<cache, answers, shown, clock, expiries>>

\* latest_successful_for_workflow, in the same stream.
Base(r) ==
  LET done == {s \in Runs \ {r} : run[s].at = "succeeded" /\ run[s].stream = run[r].stream}
  IN IF done = {} THEN None
     ELSE CHOOSE s \in done : \A t \in done : run[t].finished <= run[s].finished

\* What the child of a run is given, and what happens to it.
Child(q, stop, how) ==
  [graph |-> q.graph, selected |-> q.selected, enabled |-> q.enabled, manifest |-> q.manifest,
   answers |-> q.answers, edges |-> PlannedEdges(Ids, q.graph.edges, q.selected, None),
   stop |-> stop, how |-> how]

\* The child has executed the plan and finalize_active has read the run whose
\* results will be under the new ones; nothing is committed yet.
Finish(r, stop, how) ==
  /\ run[r].at = "running"
  /\ stop = None => how # "failed"
  /\ stop # None => how # "done"
  /\ LET q == run[r]
         all == Execute(Child(q, stop, how))
         done == IF stop = None /\ how = "cancelled" THEN [all EXCEPT !.ended = how] ELSE all IN
     run' = [run EXCEPT ![r] = [at |-> "finishing", graph |-> q.graph, selected |-> q.selected,
                                stream |-> q.stream, done |-> done, base |-> Base(r),
                                enabled |-> q.enabled, seen |-> q.seen, answers |-> q.answers]]
  /\ UNCHANGED <<cache, answers, shown, clock, expiries>>

\* Mutant: only the forced node's record is stored.
StoredForced(q) ==
  Over(Restrict(q.done.records, {k \in DOMAIN q.done.records : k.n = q.selected}), cache)

\* persist_run_cache_records: an available entry stays, except that the forced
\* node replaces the entry of its key.
Stored(q) ==
  LET fresh == {k \in DOMAIN q.done.records : k \notin DOMAIN cache \/ k.n = q.selected}
  IN Over(Restrict(q.done.records, fresh), cache)

\* finalize_active commits: the cache records of any run, the results of a
\* successful one, over those of the base it had read.
Commit(r) ==
  /\ run[r].at = "finishing"
  /\ LET q == run[r]
         executed == ToSet(Plan(Ids, q.graph.edges, q.selected, None))
         under == IF q.base = None THEN [results |-> q.done.results, status |-> q.done.status]
                  ELSE Merged(q.graph, executed, q.done, run[q.base]) IN
     IF q.done.ended = "succeeded"
     THEN /\ run' = [run EXCEPT ![r] = [at |-> "succeeded", graph |-> q.graph, stream |-> q.stream,
                                        selected |-> q.selected, enabled |-> q.enabled, seen |-> q.seen,
                                        executed |-> executed, results |-> under.results,
                                        status |-> under.status, base |-> q.base,
                                        answers |-> q.answers, finished |-> clock]]
          /\ shown' = r /\ clock' = clock + 1
     ELSE /\ run' = [run EXCEPT ![r] = [at |-> q.done.ended]]
          /\ UNCHANGED <<shown, clock>>
  /\ cache' = Stored(run[r])
  /\ UNCHANGED <<answers, expiries>>

\* A person answers; the next run that is prepared reads it.
Answer ==
  /\ answers < MaxAnswers /\ answers' = answers + 1
  /\ UNCHANGED <<run, cache, shown, clock, expiries>>

\* An entry expires, is evicted or is found broken.
Expire(k) ==
  /\ expiries < MaxExpiries /\ k \in DOMAIN cache
  /\ cache' = Restrict(cache, DOMAIN cache \ {k}) /\ expiries' = expiries + 1
  /\ UNCHANGED <<run, answers, shown, clock>>

Next ==
  \/ \E r \in Runs, g \in Graphs, n \in Selections, b \in Bypasses, s \in Streams : Create(r, g, n, b, s)
  \/ \E r \in Runs : Prepare(r)
  \/ \E r \in Runs, n \in Failing \cup {None}, how \in {"done", "failed", "cancelled"} : Finish(r, n, how)
  \/ \E r \in Runs : Commit(r)
  \/ Answer
  \/ \E k \in DOMAIN cache : Expire(k)

Spec == Init /\ [][Next]_vars

-----------------------------------------------------------------------------
(* Reference definitions *)

\* The least set that holds the selected node and every source of a member.
IsClosure(S, n, edges) ==
  LET closed(T) == n \in T /\ \A e \in ToSet(edges) : e.target \in T => e.source \in T
  IN closed(S) /\ \A T \in SUBSET S : closed(T) => T = S

PlannedNodes(q) == ToSet(PlannedIds(Ids, q.graph.edges, q.selected, None))

Succeeded == {r \in Runs : run[r].at = "succeeded"}

\* A shown result is what its node computes from the results shown for its
\* sources, each of which is shown.
FromSources(n, g, results) ==
  /\ SourcesOf(n, g.edges) \subseteq DOMAIN results
  /\ results[n].n = n /\ results[n].setting = g.setting[n]
  /\ ToSet(results[n].inputs) = {results[s] : s \in SourcesOf(n, g.edges)}

\* The expression of its setting has been read from the result shown.
FromReference(n, g, results) ==
  results[n].read = (IF g.reads[n] = None THEN None ELSE Get(results, g.reads[n]))

-----------------------------------------------------------------------------
(* Properties *)

TypeOK ==
  /\ \A r \in Runs : run[r].at \in {"absent", "queued", "running", "finishing",
                                    "succeeded", "failed", "cancelled"}
  /\ \A r \in Succeeded : /\ DOMAIN run[r].results \subseteq Nodes
                          /\ DOMAIN run[r].results \subseteq DOMAIN run[r].status
                          /\ run[r].base \in Runs \cup {None}
  /\ shown \in Runs \cup {None} /\ clock \in 0..MaxRuns
  /\ answers \in 0..MaxAnswers /\ expiries \in 0..MaxExpiries

\* A run is accepted only if its plan has no cycle, and it executes exactly the
\* selected node and what that node needs, at any distance.
PlansAreSound ==
  /\ \A r \in Runs : run[r].at = "queued" =>
       \A n \in PlannedNodes(run[r]) :
         n \notin Downstream({n}, PlannedEdges(Ids, run[r].graph.edges, run[r].selected, None))
  /\ \A r \in Succeeded :
       IF run[r].selected = None THEN run[r].executed = Nodes
       ELSE IsClosure(run[r].executed, run[r].selected, run[r].graph.edges)

\* Whatever mix of cached, executed and retained results a successful run shows,
\* each is what its node computes, with the setting of the run's graph, from
\* the results shown for its inputs: partial runs, other graphs in between,
\* runs that finish out of order and stale bases leave no stale result.  Two
\* exceptions: the order of the inputs, and an expression that reads a node
\* the reader is not connected to.
ViewIsCoherent ==
  \A r \in Succeeded : \A n \in DOMAIN run[r].results :
    LET g == run[r].graph IN
    /\ FromSources(n, g, run[r].results)
    /\ g.reads[n] \in UpstreamClosure(n, g.edges) => FromReference(n, g, run[r].results)

\* Whatever mix of results a run shows, the runs and their plans are well formed
\* (build_execution_plan, merge_successful_run_state).
WellFormed == TypeOK /\ PlansAreSound

\* No result below a task is shown before the task has been answered, although
\* results of earlier graphs and entries of the cache are at hand.
NothingBeforeAnswers ==
  \A r \in Succeeded : \A n \in DOMAIN run[r].results :
    \A t \in (Awaiting \ {n}) \cap UpstreamClosure(n, run[r].graph.edges) :
      run[r].results[t].answers > 0

\* Upstream results are restored from the cache: what an earlier run had computed
\* and stored before this one was prepared is not computed again, unless the
\* entry expired or the node itself was selected.
UnchangedIsRestored ==
  expiries = 0 =>
    \A r, s \in Succeeded : \A n \in run[r].executed \cap run[s].executed :
      (/\ run[r].enabled /\ run[s].enabled /\ run[s].finished < run[r].seen
       /\ n \notin Uncached /\ n # run[r].selected
       /\ n \in DOMAIN run[s].results /\ n \in DOMAIN run[r].results
       /\ run[s].results[n] = run[r].results[n])
      => run[r].status[n] = "cached"

-----------------------------------------------------------------------------
(* What run_state.py says of its merge and the code does not keep *)

\* "Merge unaffected node results while dropping stale downstream results": no
\* retained result was computed from something that has changed since.
NoStaleResultRetained ==
  \A r \in Succeeded : \A n \in DOMAIN run[r].results \ run[r].executed :
    FromReference(n, run[r].graph, run[r].results)
=============================================================================
