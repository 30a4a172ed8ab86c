--------------------------- MODULE WorkflowComponents ---------------------------
(* Reusable components: versions that never change, one of them current, each  *)
(* containing versions of other components; packages that carry a version and  *)
(* all it contains.  A request reads and checks first and writes when it       *)
(* commits; nothing it has read is locked.                                     *)
EXTENDS Integers, Sequences, SequencesExt, FiniteSets

CONSTANTS None, Sessions, Bodies,  \* what a version holds besides components
          MaxIds                   \* bound on the ids handed out

VARIABLES current,    \* the current version of each component, None: no component
          version,    \* the version rows
          workflow,   \* the component versions placed in saved workflows
          request,    \* what each session is about to write
          issued,     \* the last id handed out
          copied,     \* the rows made by importing a package of several entries
          overlapped  \* two requests were in flight together

vars == <<current, version, workflow, request, issued, copied, overlapped>>

Ids == 1..MaxIds
Components == {c \in Ids : current[c] # None}
Versions == {v \in Ids : version[v] # None}
Ref(v) == [component |-> version[v].component, version |-> v]

Init ==
  /\ current = [c \in Ids |-> None] /\ version = [v \in Ids |-> None]
  /\ workflow = {} /\ request = [s \in Sessions |-> None]
  /\ issued = 0 /\ copied = {} /\ overlapped = FALSE

-----------------------------------------------------------------------------
(* Containment *)

HasVersion(ref) == ref.version \in Versions /\ version[ref.version].component = ref.component

\* Versions reached from the references, by the dependencies rows record.
Reached(refs) ==
  LET Step(S) == S \cup UNION {{d.version : d \in version[v].dependencies} : v \in S \cap Versions}
      reach[k \in 0..MaxIds] == IF k = 0 THEN {r.version : r \in refs} ELSE Step(reach[k - 1])
  IN  reach[MaxIds]

Contained(v) == UNION {version[w].dependencies : w \in Reached({Ref(v)}) \cap Versions}

\* Mutant: only the components placed directly are looked at.
DirectlyValid(component, refs) == \A r \in refs : r.component # component /\ HasVersion(r)

DependenciesValid(component, refs) ==
  /\ \A r \in refs : r.component # component /\ HasVersion(r)
  /\ \A v \in Reached(refs) \cap Versions :
       \A d \in version[v].dependencies : d.component # component

\* usage_count over workflows and component versions
Used(refs) == \E r \in refs : r \in workflow \/ \E v \in Versions : r \in version[v].dependencies
RefsOf(component) == {Ref(v) : v \in {w \in Versions : version[w].component = component}}
UsedAnywhere(component) ==
  \/ \E r \in workflow : r.component = component
  \/ \E v \in Versions : \E d \in version[v].dependencies : d.component = component

-----------------------------------------------------------------------------
(* Packages *)

Entry(v) == [source |-> Ref(v), body |-> version[v].body, refs |-> version[v].dependencies]

RECURSIVE Collect(_, _)
\* Entries of all that the references contain, each after what it contains.
Collect(refs, entries) ==
  LET new == {r \in refs : \A i \in DOMAIN entries : entries[i].source # r}
  IN  IF new = {} THEN entries
      ELSE LET r == CHOOSE q \in new : \A o \in new : q.version <= o.version
           IN  Collect(refs, Append(Collect(version[r.version].dependencies, entries), Entry(r.version)))

Exported(v) == Append(Collect(version[v].dependencies, <<>>), Entry(v))

\* Rows an import makes: ids follow the order of the entries, a reference to an
\* earlier entry becomes its copy, any other one stays with the row of the same
\* ids of this deployment.
CopyOf(entries, base, i, ref) ==
  LET earlier == {j \in 1..(i - 1) : entries[j].source = ref}
  IN  IF earlier = {} THEN ref
      ELSE LET j == base + CHOOSE j \in earlier : \A k \in earlier : k <= j
           IN  [component |-> j, version |-> j]

Copies(entries, base) ==
  [i \in DOMAIN entries |->
     [component |-> base + i, body |-> entries[i].body,
      dependencies |-> {CopyOf(entries, base, i, r) : r \in entries[i].refs}]]

\* The local rows an import falls back on exist.
Imports(entries, base) ==
  \A i \in DOMAIN entries : \A r \in entries[i].refs :
    CopyOf(entries, base, i, r) = r => HasVersion(r)

-----------------------------------------------------------------------------
(* Requests: read and check *)

Ask(s, write, ids) ==
  /\ request[s] = None /\ issued + ids <= MaxIds
  /\ request' = [request EXCEPT ![s] = write]
  /\ issued' = issued + ids
  /\ overlapped' = (overlapped \/ \E t \in Sessions : request[t] # None)
  /\ UNCHANGED <<current, version, workflow, copied>>

Row(component, body, refs) == [component |-> component, body |-> body, dependencies |-> refs]

CreateComponent(s, body, refs) ==
  LET id == issued + 1
  IN  /\ DependenciesValid(id, refs)
      /\ Ask(s, [kind |-> "insert", rows |-> <<Row(id, body, refs)>>, base |-> issued], 1)

CreateVersion(s, component, body, refs) ==
  /\ component \in Components
  /\ DependenciesValid(component, refs)
  /\ Ask(s, [kind |-> "version", id |-> issued + 1, row |-> Row(component, body, refs)], 1)

SetCurrent(s, v) ==
  /\ v \in Versions /\ current[version[v].component] # v
  /\ Ask(s, [kind |-> "current", component |-> version[v].component, id |-> v], 0)

DeleteVersion(s, v) ==
  /\ v \in Versions
  /\ current[version[v].component] # v
  /\ ~Used({Ref(v)})
  /\ Ask(s, [kind |-> "noVersion", id |-> v], 0)

DeleteComponent(s, component) ==
  /\ component \in Components
  /\ ~UsedAnywhere(component)
  /\ Ask(s, [kind |-> "noComponent", component |-> component], 0)

\* A package exported from this deployment, or one of the older format that
\* bundles nothing; one import, for a bound.
ImportPackage(s, v) ==
  /\ copied = {} /\ v \in Versions
  /\ \A d \in Contained(v) : HasVersion(d)
  /\ \E entries \in {Exported(v), <<Entry(v)>>} :
       /\ Imports(entries, issued)
       /\ Ask(s, [kind |-> "insert", rows |-> Copies(entries, issued), base |-> issued],
              Len(entries))

\* A saved workflow holds what was placed in it; saving does not look it up.
SaveWorkflow(refs) ==
  /\ workflow = {} /\ workflow' = refs
  /\ UNCHANGED <<current, version, request, issued, copied, overlapped>>

-----------------------------------------------------------------------------
(* Requests: commit *)

InsertComponents(w) ==
  LET new == {w.base + i : i \in DOMAIN w.rows}
  IN  /\ version' = [v \in Ids |-> IF v \in new THEN w.rows[v - w.base] ELSE version[v]]
      /\ current' = [c \in Ids |-> IF c \in new THEN c ELSE current[c]]
      /\ copied' = IF Len(w.rows) > 1 THEN new ELSE copied

InsertVersion(w) ==
  /\ w.row.component \in Components
  /\ version' = [version EXCEPT ![w.id] = w.row]
  /\ current' = [current EXCEPT ![w.row.component] = w.id]
  /\ UNCHANGED copied

Apply(w) ==
  \/ w.kind = "insert" /\ InsertComponents(w)
  \/ w.kind = "version" /\ InsertVersion(w)
  \/ /\ w.kind = "current" /\ w.component \in Components
     /\ current' = [current EXCEPT ![w.component] = w.id]
     /\ UNCHANGED <<version, copied>>
  \/ /\ w.kind = "noVersion"
     /\ version' = [version EXCEPT ![w.id] = None]
     /\ UNCHANGED <<current, copied>>
  \/ /\ w.kind = "noComponent"
     /\ version' = [v \in Ids |-> IF v \in Versions /\ version[v].component = w.component THEN None ELSE version[v]]
     /\ current' = [current EXCEPT ![w.component] = None]
     /\ UNCHANGED copied

Commit(s) ==
  /\ request[s] # None
  /\ Apply(request[s]) \/ (~ENABLED Apply(request[s]) /\ UNCHANGED <<current, version, copied>>)
  /\ request' = [request EXCEPT ![s] = None]
  /\ UNCHANGED <<workflow, issued, overlapped>>

Asks(s) ==
  \/ \E body \in Bodies, refs \in {{}} \cup {{Ref(v)} : v \in Versions} :
       \/ CreateComponent(s, body, refs)
       \/ \E c \in Ids : CreateVersion(s, c, body, refs)
  \/ \E v \in Ids : SetCurrent(s, v) \/ DeleteVersion(s, v) \/ DeleteComponent(s, v) \/ ImportPackage(s, v)

Next ==
  \/ \E s \in Sessions : (request[s] = None /\ Asks(s)) \/ Commit(s)
  \/ \E v \in Ids : v \in Versions /\ SaveWorkflow({Ref(v)})

Spec == Init /\ [][Next]_vars

-----------------------------------------------------------------------------
\* No component contains itself, at any depth, even when two requests nest two
\* components in each other at once: versions never change, so one of the two
\* sees the other or contains an older version (_assert_dependencies_valid).
NoSelfContainment ==
  \A v \in Versions : \A d \in Contained(v) : d.component # version[v].component

\* While requests are handled in turn, what a version contains exists and the
\* current version of a component is one of its own (delete_component_version,
\* delete_component, set_current_version).
NothingDangles ==
  ~overlapped =>
    /\ \A v \in Versions : \A d \in version[v].dependencies : HasVersion(d)
    /\ \A c \in Components : current[c] \in Versions /\ version[current[c]].component = c

\* A package is complete: an import of it makes copies of all it contains and
\* never refers to rows that were there before (export_component,
\* import_component).
ImportStandsAlone ==
  \A v \in copied \cap Versions : \A d \in version[v].dependencies : d.version \in copied

ComponentsHold == NoSelfContainment /\ NothingDangles /\ ImportStandsAlone
=============================================================================
