------------------------------ MODULE NodeCache ------------------------------
(***************************************************************************)
(* The cache of node outputs (app/workflow/caching): entries that name an  *)
(* artifact, a manifest prepared for each run, the records a run saves     *)
(* when it is finalized, eviction, clearing and reconciliation.            *)
(*                                                                         *)
(* No row is locked between read and commit: a session writes the columns  *)
(* it changed.  Each run has one node and one cache key; artifacts are     *)
(* those of ArtifactStore, seen from outside: there, then gone.            *)
(***************************************************************************)
EXTENDS Integers, FiniteSets, FiniteSetsExt

CONSTANTS
  Runs,        \* runs, each of a workflow with one cacheable node
  Keys,        \* cache keys, of one owner and project
  Durable,     \* keys of nodes whose runner is cache_persistent
  Artifacts,   \* ids of artifacts, from a sequence
  None,        \* no artifact, no entry
  MaxBytes,    \* node_cache_max_bytes_per_project; entries have size 1
  MaxDeletions \* bound: cache artifacts deleted through the artifact routes

ASSUME DurableAssumption == Durable \subseteq Keys
ASSUME ArtifactsAssumption == Artifacts \subseteq Nat /\ None \notin Artifacts
ASSUME BoundAssumption == {MaxBytes, MaxDeletions} \subseteq Nat

VARIABLES
  entry,     \* node_cache_entries by key: uq_node_cache_scope_key
  artifact,  \* the artifacts the cache has created
  run,       \* each run, from the preparation of its manifest to its end
  cleaner,   \* cleanup_node_cache, clear_project_cache, reconcile_artifacts
  deletions, \* how often somebody deleted an artifact of the cache
  replaced,  \* history: artifacts that a refresh has taken from their entry
  unread     \* history: durable keys whose stored file could not be read once

vars == <<entry, artifact, run, cleaner, deletions, replaced, unread>>

-----------------------------------------------------------------------------
EntryStatus == {"available", "invalid", "expired", "evicted", "cleared"}
EntryRow == [status : EntryStatus, artifact : Artifacts, pinned : BOOLEAN,
             dated : BOOLEAN, old : BOOLEAN]
ArtifactRow == [status : {"free", "available", "gone"}, key : Keys \cup {None},
                pinned : BOOLEAN, dated : BOOLEAN, old : BOOLEAN]
RunState == [at : {"queued", "preparing", "executed", "saving", "done"}, key : Keys,
             forced : BOOLEAN, loaded : EntryRow \cup {None}, hit : BOOLEAN,
             mine : Artifacts \cup {None}]
Jobs == {"cache", "clear", "reconcile"}

ASSUME RowAssumption == None \notin EntryRow

Unused == [status |-> "free", key |-> None, pinned |-> FALSE, dated |-> FALSE, old |-> FALSE]
NoJob  == [key |-> None, artifact |-> None, status |-> "available"]

\* selected_node_id forces a run to execute its node.
Init ==
  /\ entry = [k \in Keys |-> None]
  /\ artifact = [a \in Artifacts |-> Unused]
  /\ run \in [Runs -> [at : {"queued"}, key : Keys, forced : BOOLEAN, loaded : {None},
                       hit : {FALSE}, mine : {None}]]
  /\ cleaner = [j \in Jobs |-> NoJob]
  /\ deletions = 0
  /\ replaced = {}
  /\ unread = {}

-----------------------------------------------------------------------------
Stored(k)   == entry[k] # None
Live(k)     == Stored(k) /\ entry[k].status = "available"
Exists(a)   == artifact[a].status = "available"
FreeIds     == {a \in Artifacts : artifact[a].status = "free" /\ \A r \in Runs : run[r].mine # a}
LiveKeys    == {k \in Keys : Live(k)}
Gone        == [Unused EXCEPT !.status = "gone"]
Deleted(a)  == [artifact EXCEPT ![a] = Gone]
Ended(r)    == [run[r] EXCEPT !.at = "done", !.loaded = None, !.mine = None,
                              !.hit = FALSE, !.forced = FALSE]
Set(r, s)   == run' = [run EXCEPT ![r] = s]

-----------------------------------------------------------------------------
(* prepare_cache_manifest: the file of an entry is copied into the         *)
(* directory of the attempt, so that what happens to the artifact later    *)
(* does not concern the child.                                             *)

PrepareRead(r) ==
  /\ run[r].at = "queued"
  /\ Set(r, [run[r] EXCEPT !.at = "preparing",
                           !.loaded = IF Live(run[r].key) THEN entry[run[r].key] ELSE None])
  /\ UNCHANGED <<entry, artifact, cleaner, deletions, replaced, unread>>

\* Mutant: an entry that could not be read is given back to retention.
InvalidUnpinned(k) == [entry EXCEPT ![k].status = "invalid", ![k].pinned = FALSE]

\* What is wrong with the file of an entry is written on the entry, pinned
\* or not.
Invalid(k) == [entry EXCEPT ![k].status = "invalid"]

\* The commit of start_run, and the child, which takes a file it finds
\* unless the node is forced (RuntimeNodeCache.lookup).  A file that is there
\* may still not be readable: the object store does not answer, the copy
\* does not match its checksum, or copying raises.
PrepareCommit(r, readable) ==
  LET k == run[r].key
      found == run[r].loaded # None /\ Exists(run[r].loaded.artifact)
      broken == run[r].loaded # None /\ ~(found /\ readable)
  IN /\ run[r].at = "preparing"
     /\ entry' = IF broken THEN Invalid(k) ELSE entry
     /\ unread' = IF found /\ ~readable THEN unread \cup ({k} \cap Durable) ELSE unread
     /\ Set(r, [run[r] EXCEPT !.at = "executed", !.hit = found /\ readable /\ ~run[r].forced])
     /\ UNCHANGED <<artifact, cleaner, deletions, replaced>>

-----------------------------------------------------------------------------
(* persist_run_cache_records, in the transaction that finalizes the run.   *)

\* "Never downgrade an existing durable key during a refresh."
Persistent(r) == \/ run[r].key \in Durable
                 \/ run[r].loaded # None /\ run[r].loaded.pinned

NewArtifact(r) == [status |-> "available", key |-> run[r].key, pinned |-> Persistent(r),
                   dated |-> ~Persistent(r), old |-> FALSE]

\* A hit, or an output stored meanwhile: no file is written.
Reuses(r, e) == run[r].hit \/ (e # None /\ e.status = "available" /\ ~run[r].forced)

\* The record is read and, for an output that is not stored yet, a file is
\* published under a row that is not committed yet.
SaveRead(r) ==
  LET e == entry[run[r].key]
      read == [run[r] EXCEPT !.at = "saving", !.loaded = e, !.hit = FALSE, !.forced = FALSE]
  IN /\ run[r].at = "executed"
     /\ \/ Reuses(r, e) /\ Set(r, read)
        \/ ~Reuses(r, e) /\ FreeIds # {} /\ Set(r, [read EXCEPT !.mine = Min(FreeIds)])
     /\ UNCHANGED <<entry, artifact, cleaner, deletions, replaced, unread>>

\* Hit, or an equal output stored by somebody else: the entry is touched,
\* and pinned with its artifact if the node is durable.
Touch(r) ==
  LET k == run[r].key
      a == run[r].loaded.artifact
      pins == run[r].loaded # None /\ run[r].loaded.status = "available" /\ k \in Durable
  IN /\ entry' = IF pins THEN [entry EXCEPT ![k].pinned = TRUE, ![k].dated = FALSE] ELSE entry
     /\ artifact' = IF pins THEN [artifact EXCEPT ![a].pinned = TRUE, ![a].dated = FALSE]
                    ELSE artifact
     /\ UNCHANGED replaced

\* The entry is given the new artifact; of the other columns only those
\* that differ from what was loaded are written.
Refresh(r) ==
  LET k == run[r].key
      a == run[r].mine
      keeps == run[r].loaded
      p == keeps.pinned \/ Persistent(r)
      e == [status |-> IF keeps.status = "available" THEN entry[k].status ELSE "available",
            artifact |-> a,
            pinned |-> IF p = keeps.pinned THEN entry[k].pinned ELSE p,
            dated |-> IF ~p \/ keeps.dated THEN ~p ELSE entry[k].dated,
            old |-> FALSE]
  IN /\ entry' = [entry EXCEPT ![k] = e]
     /\ artifact' = [artifact EXCEPT ![a] = NewArtifact(r)]
     /\ replaced' = replaced \cup {entry[k].artifact}

\* Mutant: who loses the race to insert leaves its file behind.
LoserKeepsFile(r) ==
  /\ artifact' = [artifact EXCEPT ![run[r].mine] = NewArtifact(r)]
  /\ UNCHANGED <<entry, replaced>>

\* The unique key is taken (IntegrityError): the entry that is there stays
\* as it is and the file just published is deleted.
LoseInsert(r) ==
  /\ artifact' = Deleted(run[r].mine)
  /\ UNCHANGED <<entry, replaced>>

Insert(r) ==
  /\ entry' = [entry EXCEPT ![run[r].key] =
                 [status |-> "available", artifact |-> run[r].mine, pinned |-> Persistent(r),
                  dated |-> ~Persistent(r), old |-> FALSE]]
  /\ artifact' = [artifact EXCEPT ![run[r].mine] = NewArtifact(r)]
  /\ UNCHANGED replaced

SaveCommit(r) ==
  /\ run[r].at = "saving"
  /\ \/ run[r].mine = None /\ Touch(r)
     \/ run[r].mine # None /\ run[r].loaded # None /\ Refresh(r)
     \/ run[r].mine # None /\ run[r].loaded = None /\ Stored(run[r].key) /\ LoseInsert(r)
     \/ run[r].mine # None /\ run[r].loaded = None /\ ~Stored(run[r].key) /\ Insert(r)
  /\ Set(r, Ended(r))
  /\ UNCHANGED <<cleaner, deletions, unread>>

\* The run failed before its output existed, or finalize_active was rolled
\* back.
SaveNothing(r) ==
  /\ run[r].at \in {"executed", "saving"}
  /\ Set(r, Ended(r))
  /\ UNCHANGED <<entry, artifact, cleaner, deletions, replaced, unread>>

-----------------------------------------------------------------------------
(* The jobs that delete.  They read candidates first and write the status  *)
(* at their end; here one transaction has one candidate.                   *)

\* Mutant: only entries that could be evicted count towards the ceiling.
OverflowsUnpinned == Cardinality({k \in LiveKeys : ~entry[k].pinned}) > MaxBytes

\* "Enforce a project-level LRU ceiling without touching pinned entries."
Overflows == Cardinality(LiveKeys) > MaxBytes

Evictable(k) == Live(k) /\ ~entry[k].pinned

\* Mutant: only a missing row counts, not one whose file is gone.
BrokenRow(k) == Live(k) /\ artifact[entry[k].artifact].status = "free"

\* reconcile_artifacts: the artifact of an available entry is not available.
Broken(k) == Live(k) /\ ~Exists(entry[k].artifact)

Selects(j, k) ==
  CASE j = "cache"     -> Evictable(k) /\ (entry[k].old \/ Overflows)
    [] j = "clear"     -> Evictable(k)
    [] j = "reconcile" -> Broken(k)

\* Mutant: reconciliation writes a status of artifacts into an entry.
ArtifactStatus(j, k) == IF j = "reconcile" THEN "missing" ELSE "evicted"

EndStatus(j, k) ==
  CASE j = "reconcile" -> "invalid"
    [] j = "clear"     -> "cleared"
    [] j = "cache"     -> IF entry[k].old THEN "expired" ELSE "evicted"

StartJob(j, k) ==
  /\ cleaner[j] = NoJob /\ Selects(j, k)
  /\ cleaner' = [cleaner EXCEPT ![j] = [key |-> k, artifact |-> entry[k].artifact,
                                       status |-> EndStatus(j, k)]]
  /\ UNCHANGED <<entry, artifact, run, deletions, replaced, unread>>

EndJob(j) ==
  LET k == cleaner[j].key
      a == cleaner[j].artifact
  IN /\ cleaner[j] # NoJob
     /\ entry' = [entry EXCEPT ![k].status = cleaner[j].status]
     /\ artifact' = IF j # "reconcile" /\ Exists(a) THEN Deleted(a) ELSE artifact
     /\ cleaner' = [cleaner EXCEPT ![j] = NoJob]
     /\ UNCHANGED <<run, deletions, replaced, unread>>

\* cleanup_expired_artifacts, and the end of a retention period.
ExpireArtifact(a) ==
  /\ Exists(a) /\ ~artifact[a].pinned /\ artifact[a].old
  /\ artifact' = Deleted(a)
  /\ UNCHANGED <<entry, run, cleaner, deletions, replaced, unread>>

AgeEntry(k) ==
  /\ Stored(k) /\ entry[k].dated /\ ~entry[k].old
  /\ entry' = [entry EXCEPT ![k].old = TRUE]
  /\ UNCHANGED <<artifact, run, cleaner, deletions, replaced, unread>>

AgeArtifact(a) ==
  /\ Exists(a) /\ artifact[a].dated /\ ~artifact[a].old
  /\ artifact' = [artifact EXCEPT ![a].old = TRUE]
  /\ UNCHANGED <<entry, run, cleaner, deletions, replaced, unread>>

\* DELETE /artifacts/{id} does not ask what kind of artifact it is.
DeleteArtifact(a) ==
  /\ deletions < MaxDeletions /\ Exists(a)
  /\ deletions' = deletions + 1
  /\ artifact' = Deleted(a)
  /\ UNCHANGED <<entry, run, cleaner, replaced, unread>>

Prepare(r) == PrepareRead(r) \/ \E readable \in BOOLEAN : PrepareCommit(r, readable)

Execute(r) == Prepare(r) \/ SaveRead(r) \/ SaveCommit(r) \/ SaveNothing(r)

Next ==
  \/ \E r \in Runs : Execute(r)
  \/ \E j \in Jobs : EndJob(j) \/ \E k \in Keys : StartJob(j, k)
  \/ \E a \in Artifacts : ExpireArtifact(a) \/ AgeArtifact(a) \/ DeleteArtifact(a)
  \/ \E k \in Keys : AgeEntry(k)

\* The worker cleans every hour and finishes what it has begun; somebody
\* runs the reconciliation.  Nobody has to clear the cache.
Fairness ==
  /\ \A r \in Runs : WF_vars(Execute(r))
  /\ \A j \in Jobs : WF_vars(EndJob(j))
  /\ \A j \in {"cache", "reconcile"}, k \in Keys : WF_vars(StartJob(j, k))

Spec == Init /\ [][Next]_vars /\ Fairness

-----------------------------------------------------------------------------
(* Properties.                                                             *)

\* Every variable stays within its type.
TypeOK ==
  /\ entry \in [Keys -> EntryRow \cup {None}]
  /\ artifact \in [Artifacts -> ArtifactRow]
  /\ run \in [Runs -> RunState]
  /\ cleaner \in [Jobs -> [key : Keys \cup {None}, artifact : Artifacts \cup {None},
                         status : EntryStatus]]
  /\ deletions \in 0..MaxDeletions
  /\ replaced \subseteq Artifacts
  /\ unread \subseteq Durable

\* "Durable paid-model entries are pinned in both PostgreSQL cache metadata
\* and artifact storage, have no expiration timestamp": once stored, the
\* result of a durable node is kept through eviction, clearing, refreshes
\* and racing runs, as long as nobody deletes its artifact by hand.  Its
\* entry can be used, unless a run could once not read the file: that marks
\* it invalid, but loses neither the entry nor the file
\* (prepare_cache_manifest).
DurableKept ==
  deletions = 0 =>
    \A k \in Durable : Stored(k) =>
      /\ entry[k].pinned /\ ~entry[k].dated
      /\ entry[k].status = "available" \/ (entry[k].status = "invalid" /\ k \in unread)
      /\ LET a == artifact[entry[k].artifact]
         IN a.status = "available" /\ a.pinned /\ ~a.dated

\* A pinned artifact never expires, so it must stay reachable from its
\* entry; only a refresh leaves one behind.
PinnedReachable ==
  \A a \in Artifacts :
    Exists(a) /\ artifact[a].pinned => \/ a \in replaced
                                       \/ entry[artifact[a].key].artifact = a

\* The ceiling is reached again in the end, unless only durable entries are
\* left to remove.
EvictionConverges == <>[](Cardinality(LiveKeys) <= MaxBytes \/ \A k \in LiveKeys : entry[k].pinned)

\* An entry whose file is gone is marked or given a new one.
BrokenEntriesEnd ==
  \A k \in Keys : (Live(k) /\ ~Exists(entry[k].artifact)) ~> (Live(k) => Exists(entry[k].artifact))
=============================================================================
