--------------------------- MODULE NodeCacheProofs ---------------------------
(***************************************************************************)
(* The cache of node outputs keeps what it promises of durable nodes, for  *)
(* any number of runs, keys and artifacts and however their transactions   *)
(* interleave.  Nothing is locked, so IInv speaks of what a run or a job   *)
(* has read as well as of the rows: an artifact that was read for a key    *)
(* belongs to that key for good, and is the one of its entry or has been   *)
(* replaced by a refresh.                                                  *)
(***************************************************************************)
EXTENDS NodeCache, WellFoundedInduction, TLAPS

\* Nobody has deleted an artifact of the cache by hand.
Untouched == deletions = 0

\* An artifact that was published for this key, whether or not it is there.
Belongs(a, k) == /\ a \in Artifacts /\ artifact[a].status # "free"
                 /\ Exists(a) => artifact[a].key = k

\* An entry of a durable node, as it is or as it was read.
Safe(e) == e.pinned /\ ~e.dated /\ Exists(e.artifact)

\* The entry of a durable node can be used, or could once not be read.
Usable(k) == \/ entry[k].status = "available"
             \/ entry[k].status = "invalid" /\ k \in unread

ArtifactInv(a) ==
  Exists(a) =>
    LET k == artifact[a].key IN
    /\ k \in Keys /\ Stored(k)
    /\ artifact[a].pinned => a \in replaced \/ entry[k].artifact = a
    /\ Untouched /\ k \in Durable => artifact[a].pinned /\ ~artifact[a].dated

EntryInv(k) ==
  Stored(k) => /\ Belongs(entry[k].artifact, k)
               /\ Untouched /\ k \in Durable => Safe(entry[k]) /\ Usable(k)

\* The artifact a run is about to publish is its own.
MineFresh(r) ==
  run[r].mine # None => /\ run[r].at = "saving" /\ artifact[run[r].mine].status = "free"
                        /\ \A s \in Runs \ {r} : run[s].mine # run[r].mine

\* The entry a run has read is still there, with that artifact or a newer one.
LoadedInv(r) ==
  run[r].loaded # None =>
    LET k == run[r].key
        a == run[r].loaded.artifact
    IN /\ Stored(k) /\ Belongs(a, k) /\ (entry[k].artifact = a \/ a \in replaced)
       /\ Untouched /\ k \in Durable => Safe(run[r].loaded)

\* A job that deletes has not picked the entry of a durable node.
JobInv(j) ==
  cleaner[j] # NoJob =>
    /\ cleaner[j].key \in Keys /\ Stored(cleaner[j].key)
    /\ Belongs(cleaner[j].artifact, cleaner[j].key)
    /\ Untouched => cleaner[j].key \notin Durable

IInv == /\ TypeOK
        /\ \A a \in Artifacts : ArtifactInv(a)
        /\ \A k \in Keys : EntryInv(k)
        /\ \A r \in Runs : MineFresh(r) /\ LoadedInv(r)
        /\ \A j \in Jobs : JobInv(j)

-----------------------------------------------------------------------------
(* Operators of the model.                                                 *)

\* A set of ids that is not empty has a smallest one.
LEMMA Smallest ==
  ASSUME NEW S \in SUBSET Nat, S # {}
  PROVE  Min(S) \in S
<1> DEFINE R == OpToRel(<, Nat)
<1>1. IsWellFoundedOn(R, Nat)
  BY NatLessThanWellFounded
<1>2. PICK x \in S : \A y \in S : ~ (<<y, x>> \in R)
  <2> HIDE DEF R
  <2> QED BY <1>1, WFMin
<1>3. \A x1, y1 \in Nat : y1 < x1 => <<y1, x1>> \in R
  BY DEF OpToRel
<1> HIDE DEF R
<1>4. ASSUME NEW y \in S PROVE x <= y
  <2>1. x \in Nat /\ y \in Nat /\ ~ (<<y, x>> \in R)
    BY <1>2
  <2>2. ~ (y < x)
    BY <1>3, <2>1, Zenon
  <2> QED BY <2>1, <2>2
<1> QED BY <1>4 DEF Min

\* The next id of the sequence is free and no other run's.
LEMMA NextId ==
  ASSUME FreeIds # {}
  PROVE  LET a == Min(FreeIds)
         IN /\ a \in Artifacts /\ artifact[a].status = "free"
            /\ \A r \in Runs : run[r].mine # a
<1>1. FreeIds \in SUBSET Nat
  BY ArtifactsAssumption DEF FreeIds
<1>2. Min(FreeIds) \in FreeIds
  BY <1>1, Smallest
<1> QED BY <1>2 DEF FreeIds

\* What a run writes about itself concerns no other run.
LEMMA RunSet ==
  ASSUME TypeOK, NEW r \in Runs, NEW s \in RunState, Set(r, s)
  PROVE  /\ run' \in [Runs -> RunState] /\ run'[r] = s
         /\ \A q \in Runs \ {r} : run'[q] = run[q]
BY DEF TypeOK, Set

\* A run that has ended holds nothing.
LEMMA RunEnded ==
  ASSUME TypeOK, NEW r \in Runs
  PROVE  /\ Ended(r) \in RunState /\ Ended(r).key = run[r].key
         /\ Ended(r).loaded = None /\ Ended(r).mine = None
<1>1. run[r] \in RunState BY DEF TypeOK
<1> QED BY <1>1 DEF Ended, RunState

\* A deleted artifact is gone; the others are as they were.
LEMMA Deletion ==
  ASSUME TypeOK, NEW a \in Artifacts, artifact' = Deleted(a)
  PROVE  /\ artifact' \in [Artifacts -> ArtifactRow]
         /\ artifact'[a].status = "gone"
         /\ \A b \in Artifacts \ {a} : artifact'[b] = artifact[b]
<1>1. Gone \in ArtifactRow /\ Gone.status = "gone"
  BY DEF Gone, Unused, ArtifactRow
<1> QED BY <1>1 DEF TypeOK, Deleted

-----------------------------------------------------------------------------
(* What every step leaves true of what was read before it.                 *)

\* Entries and artifacts do not come back, entries lose their artifact to a
\* refresh only, and artifacts of durable nodes stay while they are untouched.
Onward ==
  /\ \A k \in Keys : Stored(k) => /\ Stored(k)'
                                  /\ entry'[k].artifact = entry[k].artifact
                                     \/ entry[k].artifact \in replaced'
  /\ replaced \subseteq replaced' /\ unread \subseteq unread' /\ (Untouched' => Untouched)
  /\ \A a \in Artifacts : artifact[a].status # "free" =>
       /\ artifact'[a].status # "free"
       /\ Exists(a)' => Exists(a) /\ artifact'[a].key = artifact[a].key
       /\ Exists(a) /\ artifact[a].key \in Durable /\ Untouched' => Exists(a)'

\* What belongs to a key goes on belonging to it.
LEMMA StillBelongs ==
  ASSUME Onward, NEW a, NEW k, Belongs(a, k)
  PROVE  Belongs(a, k)'
BY DEF Onward, Belongs, Exists

\* An entry of a durable node that was safe stays safe.
LEMMA StillSafe ==
  ASSUME Onward, NEW k \in Durable, NEW e, Belongs(e.artifact, k), Untouched', Untouched => Safe(e)
  PROVE  Safe(e)'
BY DEF Onward, Belongs, Exists, Safe

\* So every part of IInv about something that a step does not change is kept.
LEMMA Carried ==
  ASSUME IInv, Onward
  PROVE  /\ \A k \in Keys : entry'[k] = entry[k] => EntryInv(k)'
         /\ \A a \in Artifacts : artifact'[a] = artifact[a] => ArtifactInv(a)'
         /\ \A j \in Jobs : cleaner'[j] = cleaner[j] => JobInv(j)'
         /\ \A r \in Runs : run'[r].loaded = run[r].loaded /\ run'[r].key = run[r].key => LoadedInv(r)'
<1>1. ASSUME NEW k \in Keys, entry'[k] = entry[k] PROVE EntryInv(k)'
  <2>1. SUFFICES ASSUME Stored(k)
                 PROVE  /\ Belongs(entry[k].artifact, k)'
                        /\ Untouched' /\ k \in Durable => Safe(entry[k])' /\ Usable(k)'
    BY <1>1 DEF EntryInv, Stored, Belongs, Exists, Safe
  <2>2. /\ Belongs(entry[k].artifact, k)
        /\ Untouched /\ k \in Durable => Safe(entry[k]) /\ Usable(k)
    BY <2>1 DEF IInv, EntryInv
  <2>3. Untouched' => Untouched
    BY DEF Onward
  <2>4. Usable(k) => Usable(k)'
    BY <1>1 DEF Usable, Onward
  <2> QED BY <1>1, <2>2, <2>3, <2>4, StillBelongs, StillSafe DEF Belongs, Exists, Safe
<1>2. ASSUME NEW a \in Artifacts, artifact'[a] = artifact[a] PROVE ArtifactInv(a)'
  BY <1>2 DEF IInv, ArtifactInv, Onward, Exists
<1>3. ASSUME NEW j \in Jobs, cleaner'[j] = cleaner[j] PROVE JobInv(j)'
  <2>1. CASE cleaner[j] = NoJob
    BY <1>3, <2>1 DEF JobInv
  <2>2. CASE cleaner[j] # NoJob
    <3> DEFINE c == cleaner[j]
    <3>1. c.key \in Keys /\ Stored(c.key) /\ Belongs(c.artifact, c.key) /\ (Untouched => c.key \notin Durable)
      BY <2>2 DEF IInv, JobInv
    <3>2. Belongs(c.artifact, c.key)'
      BY <1>3, <3>1, StillBelongs DEF Belongs, Exists
    <3> QED BY <1>3, <3>1, <3>2 DEF JobInv, Onward
  <2> QED BY <2>1, <2>2
<1>4. ASSUME NEW r \in Runs, run'[r].loaded = run[r].loaded, run'[r].key = run[r].key
      PROVE  LoadedInv(r)'
  <2>1. CASE run[r].loaded = None
    BY <1>4, <2>1 DEF LoadedInv
  <2>2. CASE run[r].loaded # None
    <3>1. PICK k, e : k = run[r].key /\ e = run[r].loaded
      OBVIOUS
    <3>2. /\ k \in Keys /\ Stored(k) /\ Belongs(e.artifact, k)
          /\ entry[k].artifact = e.artifact \/ e.artifact \in replaced
          /\ Untouched /\ k \in Durable => Safe(e)
      BY <2>2, <3>1 DEF IInv, LoadedInv, TypeOK, RunState
    <3>3. Belongs(e.artifact, k)' /\ (Untouched' /\ k \in Durable => Safe(e)')
      BY <3>2, StillBelongs, StillSafe
    <3>4. Stored(k)' /\ (entry'[k].artifact = e.artifact \/ e.artifact \in replaced')
      BY <3>2 DEF Onward
    <3> QED BY <1>4, <3>1, <3>3, <3>4 DEF LoadedInv
  <2> QED BY <2>1, <2>2
<1> QED BY <1>1, <1>2, <1>3, <1>4

\* The ids that runs have taken stay theirs when no run takes one and nothing
\* is published under one that is kept.
LEMMA MineKept ==
  ASSUME IInv,
         \A r \in Runs : run'[r].mine # None =>
           /\ run'[r].mine = run[r].mine /\ run'[r].at = "saving"
           /\ artifact'[run[r].mine].status = "free"
  PROVE  \A r \in Runs : MineFresh(r)'
BY DEF IInv, MineFresh

\* A step that changes no run and takes no free id.
LEMMA RunsStay ==
  ASSUME IInv, Onward, UNCHANGED run,
         \A a \in Artifacts : artifact[a].status = "free" => artifact'[a].status = "free"
  PROVE  \A r \in Runs : MineFresh(r)' /\ LoadedInv(r)'
<1>1. \A r \in Runs : LoadedInv(r)'
  BY Carried
<1>2. \A r \in Runs : run[r].mine # None => run[r].mine \in Artifacts /\ MineFresh(r)
  BY DEF IInv, TypeOK, RunState
<1>3. \A r \in Runs : MineFresh(r)'
  BY <1>2, MineKept DEF MineFresh
<1> QED BY <1>1, <1>3

\* A step that changes no artifact, no entry and no deletion goes on.
LEMMA RowsStay ==
  ASSUME IInv, UNCHANGED <<entry, artifact, deletions, replaced, unread>>
  PROVE  Onward
BY DEF Onward, Stored, Exists, Untouched

\* What a run reads of its entry is true when it has read it.
LEMMA EntryRead ==
  ASSUME IInv, UNCHANGED <<entry, artifact, deletions, replaced, unread>>, NEW r \in Runs,
         run'[r].key = run[r].key, run'[r].loaded \in {None, entry[run[r].key]}
  PROVE  LoadedInv(r)'
<1>1. CASE run'[r].loaded = None
  BY <1>1 DEF LoadedInv
<1>2. CASE run'[r].loaded # None
  <2>1. PICK k \in Keys : k = run[r].key
    BY DEF IInv, TypeOK, RunState
  <2>2. PICK e : e = entry[k]
    OBVIOUS
  <2>3. run'[r].loaded = e /\ Stored(k)
    BY <1>2, <2>1, <2>2 DEF Stored
  <2>4. Belongs(e.artifact, k) /\ (Untouched /\ k \in Durable => Safe(e))
    BY <2>2, <2>3 DEF IInv, EntryInv
  <2>5. Belongs(e.artifact, k)' /\ (Untouched' /\ k \in Durable => Safe(e)')
    BY <2>4, RowsStay, StillBelongs, StillSafe DEF Untouched
  <2> QED BY <2>1, <2>2, <2>3, <2>5 DEF LoadedInv, Stored
<1> QED BY <1>1, <1>2

-----------------------------------------------------------------------------
(* Runs.                                                                   *)

\* A step of a run that takes no id and only reads.
LEMMA ReadStep ==
  ASSUME IInv, NEW r \in Runs, NEW s \in RunState, Set(r, s),
         s.key = run[r].key, s.loaded \in {None, entry[run[r].key]},
         s.mine = None, UNCHANGED <<entry, artifact, cleaner, deletions, replaced, unread>>
  PROVE  IInv'
<1>1. /\ run' \in [Runs -> RunState] /\ run'[r] = s
      /\ \A q \in Runs \ {r} : run'[q] = run[q]
  BY RunSet DEF IInv
<1>2. TypeOK'
  BY <1>1 DEF IInv, TypeOK
<1>3. Onward
  BY RowsStay
<1>4. \A q \in Runs : MineFresh(q)'
  BY <1>1, MineKept DEF IInv, MineFresh
<1>5. LoadedInv(r)'
  BY <1>1, EntryRead
<1>6. \A q \in Runs \ {r} : LoadedInv(q)'
  BY <1>1, <1>3, Carried
<1> QED BY <1>2, <1>3, <1>4, <1>5, <1>6, Carried DEF IInv

\* A manifest is prepared from the entry as it is.
LEMMA PrepareReadStep ==
  ASSUME IInv, NEW r \in Runs, PrepareRead(r)
  PROVE  IInv'
<1> DEFINE e == IF Live(run[r].key) THEN entry[run[r].key] ELSE None
           s == [run[r] EXCEPT !.at = "preparing", !.loaded = e]
<1>1. /\ run[r].at = "queued" /\ run[r] \in RunState
      /\ UNCHANGED <<entry, artifact, cleaner, deletions, replaced, unread>>
  BY DEF PrepareRead, IInv, TypeOK
<1>2. e \in EntryRow \cup {None} /\ e \in {None, entry[run[r].key]}
  BY <1>1 DEF IInv, TypeOK, RunState
<1>3. s \in RunState /\ s.loaded = e /\ s.key = run[r].key /\ s.mine = run[r].mine
  <2> HIDE DEF e
  <2> QED BY <1>1, <1>2 DEF RunState
<1>4. Set(r, s)
  BY DEF PrepareRead
<1>5. run[r].mine = None
  BY <1>1 DEF IInv, MineFresh
<1> HIDE DEF e, s
<1> QED BY <1>1, <1>2, <1>3, <1>4, <1>5, ReadStep

\* A run that ends without saving leaves its file to nobody.
LEMMA SaveNothingStep ==
  ASSUME IInv, NEW r \in Runs, SaveNothing(r)
  PROVE  IInv'
<1>1. Set(r, Ended(r)) /\ UNCHANGED <<entry, artifact, cleaner, deletions, replaced, unread>>
  BY DEF SaveNothing
<1> QED BY <1>1, RunEnded, ReadStep DEF IInv

\* An entry whose file is gone or cannot be read is marked; that of a durable
\* node only when its file could not be read.
LEMMA PrepareCommitStep ==
  ASSUME IInv, NEW r \in Runs, NEW readable \in BOOLEAN, PrepareCommit(r, readable)
  PROVE  IInv'
<1> DEFINE found == run[r].loaded # None /\ Exists(run[r].loaded.artifact)
           broken == run[r].loaded # None /\ ~(found /\ readable)
           s == [run[r] EXCEPT !.at = "executed", !.hit = found /\ readable /\ ~run[r].forced]
<1>0. PICK k \in Keys : k = run[r].key
  BY DEF IInv, TypeOK, RunState
<1>1. /\ run[r].at = "preparing" /\ run[r] \in RunState /\ Set(r, s)
      /\ entry' = IF broken THEN Invalid(k) ELSE entry
      /\ unread' = IF found /\ ~readable THEN unread \cup ({k} \cap Durable) ELSE unread
      /\ UNCHANGED <<artifact, cleaner, deletions, replaced>>
  BY <1>0 DEF PrepareCommit, IInv, TypeOK
<1>2. s \in RunState /\ s.loaded = run[r].loaded /\ s.key = k /\ s.mine = run[r].mine
  <2> DEFINE h == found /\ readable /\ ~run[r].forced
  <2>1. h \in BOOLEAN OBVIOUS
  <2> HIDE DEF h
  <2> QED BY <1>0, <1>1, <2>1 DEF RunState
<1> HIDE DEF s
<1>3. /\ run' \in [Runs -> RunState] /\ run'[r] = s
      /\ \A q \in Runs \ {r} : run'[q] = run[q]
  BY <1>1, <1>2, RunSet DEF IInv
<1>4. broken => /\ Stored(k) /\ entry[k] \in EntryRow
                /\ Untouched /\ k \in Durable => k \in unread'
  <2> SUFFICES ASSUME broken
               PROVE  /\ Stored(k) /\ entry[k] \in EntryRow
                      /\ Untouched /\ k \in Durable => k \in unread'
    OBVIOUS
  <2>1. LoadedInv(r) BY DEF IInv
  <2>2. Stored(k) /\ (Untouched /\ k \in Durable => found)
    BY <1>0, <2>1 DEF LoadedInv, Safe
  <2>3. found => ~readable
    OBVIOUS
  <2> QED BY <1>1, <2>2, <2>3 DEF IInv, TypeOK, Stored
<1>5. /\ entry' \in [Keys -> EntryRow \cup {None}]
      /\ \A l \in Keys \ {k} : entry'[l] = entry[l]
      /\ Stored(k)' <=> Stored(k)
      /\ Stored(k) => /\ entry'[k].artifact = entry[k].artifact
                      /\ entry'[k].pinned = entry[k].pinned /\ entry'[k].dated = entry[k].dated
      /\ entry'[k] # entry[k] => broken /\ entry'[k].status = "invalid"
  <2>1. CASE broken
    <3> DEFINE e == [entry[k] EXCEPT !.status = "invalid"]
    <3>1. /\ e \in EntryRow /\ e.artifact = entry[k].artifact /\ e.status = "invalid"
          /\ e.pinned = entry[k].pinned /\ e.dated = entry[k].dated
      BY <1>4, <2>1 DEF EntryRow, EntryStatus
    <3>2. entry' = [entry EXCEPT ![k] = e]
      BY <1>1, <2>1 DEF Invalid
    <3> HIDE DEF e
    <3> QED BY <1>4, <2>1, <3>1, <3>2, RowAssumption DEF IInv, TypeOK, Stored
  <2>2. CASE ~broken
    BY <1>1, <2>2 DEF IInv, TypeOK, Stored
  <2> QED BY <2>1, <2>2
<1> HIDE DEF broken
<1>6. TypeOK'
  <2>1. unread' \subseteq Durable
    BY <1>1 DEF IInv, TypeOK
  <2> QED BY <1>1, <1>3, <1>5, <2>1 DEF IInv, TypeOK
<1>7. Onward
  <2>1. unread \subseteq unread'
    BY <1>1
  <2> QED BY <1>1, <1>5, <2>1 DEF Onward, Stored, Exists, Untouched
<1>8. run[r].mine = None
  BY <1>1 DEF IInv, MineFresh
<1>9. \A q \in Runs : MineFresh(q)'
  BY <1>1, <1>2, <1>3, <1>8, MineKept DEF IInv, MineFresh
<1>10. \A q \in Runs : LoadedInv(q)'
  BY <1>0, <1>2, <1>3, <1>7, Carried
<1>11. EntryInv(k)'
  <2>1. CASE entry'[k] = entry[k]
    BY <1>7, <2>1, Carried
  <2>2. CASE entry'[k] # entry[k]
    <3>1. Stored(k) /\ entry'[k].status = "invalid" /\ (Untouched /\ k \in Durable => k \in unread')
      BY <1>4, <1>5, <2>2
    <3>2. Belongs(entry[k].artifact, k) /\ (Untouched /\ k \in Durable => Safe(entry[k]))
      BY <3>1 DEF IInv, EntryInv
    <3> QED BY <1>1, <1>5, <3>1, <3>2 DEF EntryInv, Belongs, Safe, Usable, Exists, Stored, Untouched
  <2> QED BY <2>1, <2>2
<1>12. \A l \in Keys \ {k} : EntryInv(l)'
  BY <1>5, <1>7, Carried
<1> QED BY <1>1, <1>6, <1>7, <1>9, <1>10, <1>11, <1>12, Carried DEF IInv

\* The entry is read again; a run that writes a file takes an id for it.
LEMMA SaveReadStep ==
  ASSUME IInv, NEW r \in Runs, SaveRead(r)
  PROVE  IInv'
<1> DEFINE e == entry[run[r].key]
           s == [run[r] EXCEPT !.at = "saving", !.loaded = e, !.hit = FALSE, !.forced = FALSE]
           t == [s EXCEPT !.mine = Min(FreeIds)]
<1>1. /\ run[r].at = "executed" /\ run[r] \in RunState /\ e \in EntryRow \cup {None}
      /\ UNCHANGED <<entry, artifact, cleaner, deletions, replaced, unread>>
  BY DEF SaveRead, IInv, TypeOK, RunState
<1>2. s \in RunState /\ s.at = "saving" /\ s.loaded = e /\ s.key = run[r].key /\ s.mine = None
  <2>1. run[r].mine = None
    BY <1>1 DEF IInv, MineFresh
  <2> HIDE DEF e
  <2> QED BY <1>1, <2>1 DEF RunState
<1>3. CASE Set(r, s)
  <2> HIDE DEF s
  <2> QED BY <1>1, <1>2, <1>3, ReadStep
<1>4. CASE FreeIds # {} /\ Set(r, t)
  <2>1. PICK a \in Artifacts : /\ a = Min(FreeIds) /\ artifact[a].status = "free"
                               /\ \A q \in Runs : run[q].mine # a
    BY <1>4, NextId
  <2>2. /\ t \in RunState /\ t.at = "saving" /\ t.loaded = e /\ t.key = run[r].key /\ t.mine = a
    <3> HIDE DEF s, e
    <3> QED BY <1>2, <2>1 DEF RunState
  <2> HIDE DEF t
  <2>3. /\ run' \in [Runs -> RunState] /\ run'[r] = t
        /\ \A q \in Runs \ {r} : run'[q] = run[q]
    BY <1>4, <2>2, RunSet DEF IInv
  <2>4. TypeOK'
    BY <1>1, <2>3 DEF IInv, TypeOK
  <2>5. Onward
    BY <1>1, RowsStay
  <2>6. \A q \in Runs : MineFresh(q)'
    <3>1. MineFresh(r)'
      BY <1>1, <2>1, <2>2, <2>3 DEF MineFresh
    <3>2. \A q \in Runs \ {r} : MineFresh(q)'
      BY <1>1, <2>1, <2>2, <2>3 DEF IInv, MineFresh
    <3> QED BY <3>1, <3>2
  <2>7. LoadedInv(r)'
    BY <1>1, <2>2, <2>3, EntryRead
  <2>8. \A q \in Runs \ {r} : LoadedInv(q)'
    BY <2>3, <2>5, Carried
  <2> QED BY <1>1, <2>4, <2>5, <2>6, <2>7, <2>8, Carried DEF IInv
<1> QED BY <1>3, <1>4 DEF SaveRead

\* SaveCommit writes the entry of one key and one artifact of that key.
LEMMA SaveWrites ==
  ASSUME IInv, NEW r \in Runs, run[r].at = "saving", Set(r, Ended(r)),
         UNCHANGED <<cleaner, deletions, unread>>,
         NEW k \in Keys, k = run[r].key, NEW a \in Artifacts, a \in {run[r].mine, run[r].loaded.artifact},
         entry' \in [Keys -> EntryRow \cup {None}], \A l \in Keys \ {k} : entry'[l] = entry[l],
         artifact' \in [Artifacts -> ArtifactRow], \A b \in Artifacts \ {a} : artifact'[b] = artifact[b],
         replaced' \in {replaced, replaced \cup {entry[k].artifact}} \cap SUBSET Artifacts,
         a = run[r].mine \/ artifact[a].status # "free", artifact'[a].status # "free",
         Onward, EntryInv(k)', ArtifactInv(a)'
  PROVE  IInv'
<1>1. /\ run' \in [Runs -> RunState] /\ run'[r] = Ended(r) /\ Ended(r).mine = None
      /\ Ended(r).loaded = None /\ \A q \in Runs \ {r} : run'[q] = run[q]
  BY RunSet, RunEnded DEF IInv
<1>2. TypeOK'
  BY <1>1 DEF IInv, TypeOK
<1>3. \A q \in Runs : MineFresh(q)'
  <2>1. ASSUME NEW q \in Runs \ {r}, run[q].mine # None
        PROVE  run[q].at = "saving" /\ artifact'[run[q].mine].status = "free"
    <3>1. /\ MineFresh(q) /\ run[q].mine \in Artifacts
      BY <2>1 DEF IInv, TypeOK, RunState
    <3>2. run[q].mine # a
      BY <2>1, <3>1 DEF MineFresh
    <3> QED BY <2>1, <3>1, <3>2 DEF MineFresh
  <2> QED BY <1>1, <2>1, MineKept
<1>4. \A q \in Runs : LoadedInv(q)'
  BY <1>1, Carried DEF LoadedInv
<1> QED BY <1>2, <1>3, <1>4, Carried DEF IInv

\* A durable output that is stored already is pinned where it was read.
LEMMA TouchStep ==
  ASSUME IInv, NEW r \in Runs, run[r].at = "saving", Set(r, Ended(r)),
         run[r].mine = None, Touch(r), UNCHANGED <<cleaner, deletions, unread>>
  PROVE  IInv'
<1>0. PICK k \in Keys : k = run[r].key
  BY DEF IInv, TypeOK, RunState
<1>1. CASE UNCHANGED <<entry, artifact, replaced>>
  BY <1>1, RunEnded, ReadStep DEF IInv
<1>2. CASE run[r].loaded # None /\ run[r].loaded.status = "available" /\ k \in Durable
  <2>1. PICK a \in Artifacts : a = run[r].loaded.artifact
    BY <1>2 DEF IInv, TypeOK, RunState, EntryRow
  <2>2. /\ Stored(k) /\ Belongs(a, k) /\ (entry[k].artifact = a \/ a \in replaced)
        /\ Untouched => Safe(run[r].loaded)
    BY <1>0, <1>2, <2>1 DEF IInv, LoadedInv
  <2>3. /\ entry' = [entry EXCEPT ![k].pinned = TRUE, ![k].dated = FALSE]
        /\ artifact' = [artifact EXCEPT ![a].pinned = TRUE, ![a].dated = FALSE]
        /\ UNCHANGED replaced
    BY <1>0, <1>2, <2>1 DEF Touch
  <2>4. /\ entry' \in [Keys -> EntryRow \cup {None}] /\ \A l \in Keys \ {k} : entry'[l] = entry[l]
        /\ Stored(k)' /\ entry'[k].artifact = entry[k].artifact /\ entry'[k].status = entry[k].status
        /\ entry'[k].pinned /\ ~entry'[k].dated
    <3> DEFINE e == [entry[k] EXCEPT !.pinned = TRUE, !.dated = FALSE]
    <3>1. entry[k] \in EntryRow
      BY <2>2 DEF IInv, TypeOK, Stored
    <3>2. /\ e \in EntryRow /\ e.artifact = entry[k].artifact /\ e.status = entry[k].status
          /\ e.pinned = TRUE /\ e.dated = FALSE
      BY <3>1 DEF EntryRow
    <3>3. entry' = [entry EXCEPT ![k] = e]
      BY <2>3
    <3> HIDE DEF e
    <3> QED BY <3>2, <3>3, RowAssumption DEF IInv, TypeOK, Stored
  <2>5. /\ artifact' \in [Artifacts -> ArtifactRow] /\ \A b \in Artifacts \ {a} : artifact'[b] = artifact[b]
        /\ artifact'[a].status = artifact[a].status /\ artifact'[a].key = artifact[a].key
        /\ artifact'[a].pinned /\ ~artifact'[a].dated
    <3> DEFINE e == [artifact[a] EXCEPT !.pinned = TRUE, !.dated = FALSE]
    <3>1. artifact[a] \in ArtifactRow
      BY DEF IInv, TypeOK
    <3>2. /\ e \in ArtifactRow /\ e.status = artifact[a].status /\ e.key = artifact[a].key
          /\ e.pinned = TRUE /\ e.dated = FALSE
      BY <3>1 DEF ArtifactRow
    <3>3. artifact' = [artifact EXCEPT ![a] = e]
      BY <2>3
    <3> HIDE DEF e
    <3> QED BY <3>2, <3>3 DEF IInv, TypeOK
  <2>6. Onward
    BY <2>2, <2>3, <2>4, <2>5 DEF Onward, Stored, Exists, Untouched
  <2>7. EntryInv(k)'
    <3>1. Belongs(entry[k].artifact, k) /\ (Untouched => Safe(entry[k]) /\ Usable(k))
      BY <1>2, <2>2 DEF IInv, EntryInv
    <3> QED BY <2>3, <2>4, <2>5, <3>1 DEF EntryInv, Belongs, Safe, Usable, Exists, Untouched
  <2>8. ArtifactInv(a)'
    BY <2>2, <2>3, <2>4, <2>5 DEF IInv, ArtifactInv, Belongs, Exists, Untouched
  <2> QED BY <1>0, <2>1, <2>2, <2>3, <2>4, <2>5, <2>6, <2>7, <2>8, SaveWrites
          DEF Belongs, IInv, TypeOK
<1> QED BY <1>0, <1>1, <1>2 DEF Touch

\* Whoever loses the race to insert deletes the file only it knows of.
LEMMA LoseInsertStep ==
  ASSUME IInv, NEW r \in Runs, run[r].at = "saving", Set(r, Ended(r)),
         run[r].mine # None, LoseInsert(r), UNCHANGED <<cleaner, deletions, unread>>
  PROVE  IInv'
<1>1. PICK k \in Keys, a \in Artifacts : k = run[r].key /\ a = run[r].mine
  BY DEF IInv, TypeOK, RunState
<1>2. artifact[a].status = "free"
  BY <1>1 DEF IInv, MineFresh
<1>3. /\ artifact' \in [Artifacts -> ArtifactRow] /\ artifact'[a].status = "gone"
      /\ \A b \in Artifacts \ {a} : artifact'[b] = artifact[b]
      /\ UNCHANGED <<entry, replaced>>
  BY <1>1, Deletion DEF LoseInsert, IInv
<1>4. Onward
  BY <1>2, <1>3 DEF Onward, Stored, Exists, Untouched
<1>5. EntryInv(k)'
  BY <1>3, <1>4, Carried
<1>6. ArtifactInv(a)'
  BY <1>3 DEF ArtifactInv, Exists
<1> QED BY <1>1, <1>2, <1>3, <1>4, <1>5, <1>6, SaveWrites DEF IInv, TypeOK

\* The artifact that a run publishes, pinned for a durable key.
LEMMA Publishes ==
  ASSUME IInv, NEW r \in Runs, NEW a \in Artifacts,
         artifact' = [artifact EXCEPT ![a] = NewArtifact(r)]
  PROVE  /\ artifact' \in [Artifacts -> ArtifactRow]
         /\ artifact'[a].status = "available" /\ artifact'[a].key = run[r].key
         /\ artifact'[a].pinned = Persistent(r) /\ artifact'[a].dated = ~Persistent(r)
         /\ \A b \in Artifacts \ {a} : artifact'[b] = artifact[b]
<1> DEFINE e == NewArtifact(r)
<1>1. Persistent(r) \in BOOLEAN /\ run[r].key \in Keys
  BY DEF Persistent, IInv, TypeOK, RunState, EntryRow
<1>2. /\ e \in ArtifactRow /\ e.status = "available" /\ e.key = run[r].key
      /\ e.pinned = Persistent(r) /\ e.dated = ~Persistent(r)
  <2> HIDE DEF Persistent
  <2> QED BY <1>1 DEF NewArtifact, ArtifactRow
<1>3. artifact' = [artifact EXCEPT ![a] = e]
  OBVIOUS
<1> HIDE DEF e
<1> QED BY <1>2, <1>3 DEF IInv, TypeOK

\* The first run to save a key inserts its entry.
LEMMA InsertStep ==
  ASSUME IInv, NEW r \in Runs, run[r].at = "saving", Set(r, Ended(r)),
         run[r].mine # None, ~Stored(run[r].key), Insert(r), UNCHANGED <<cleaner, deletions, unread>>
  PROVE  IInv'
<1>1. PICK k \in Keys, a \in Artifacts : k = run[r].key /\ a = run[r].mine
  BY DEF IInv, TypeOK, RunState
<1>2. artifact[a].status = "free"
  BY <1>1 DEF IInv, MineFresh
<1>3. /\ artifact' \in [Artifacts -> ArtifactRow]
      /\ artifact'[a].status = "available" /\ artifact'[a].key = k
      /\ artifact'[a].pinned = Persistent(r) /\ artifact'[a].dated = ~Persistent(r)
      /\ \A b \in Artifacts \ {a} : artifact'[b] = artifact[b]
      /\ UNCHANGED replaced
  BY <1>1, Publishes DEF Insert
<1>4. /\ entry' \in [Keys -> EntryRow \cup {None}] /\ \A l \in Keys \ {k} : entry'[l] = entry[l]
      /\ Stored(k)' /\ entry'[k].artifact = a /\ entry'[k].status = "available"
      /\ entry'[k].pinned = Persistent(r) /\ entry'[k].dated = ~Persistent(r)
  <2> DEFINE e == [status |-> "available", artifact |-> a, pinned |-> Persistent(r),
                   dated |-> ~Persistent(r), old |-> FALSE]
  <2>1. Persistent(r) \in BOOLEAN
    BY DEF Persistent, IInv, TypeOK, RunState, EntryRow
  <2>2. e \in EntryRow
    <3> HIDE DEF Persistent
    <3> QED BY <2>1 DEF EntryRow, EntryStatus
  <2>3. entry' = [entry EXCEPT ![k] = e]
    BY <1>1 DEF Insert
  <2>4. /\ e.status = "available" /\ e.artifact = a /\ e.pinned = Persistent(r)
        /\ e.dated = ~Persistent(r)
    OBVIOUS
  <2> HIDE DEF e
  <2> QED BY <2>2, <2>3, <2>4, RowAssumption DEF IInv, TypeOK, Stored
<1>5. k \in Durable => Persistent(r)
  BY <1>1 DEF Persistent
<1>6. Onward
  BY <1>1, <1>2, <1>3, <1>4 DEF Onward, Stored, Exists, Untouched
<1>7. EntryInv(k)'
  BY <1>3, <1>4, <1>5 DEF EntryInv, Belongs, Safe, Usable, Exists
<1>8. ArtifactInv(a)'
  BY <1>3, <1>4, <1>5 DEF ArtifactInv, Exists
<1> QED BY <1>1, <1>2, <1>3, <1>4, <1>6, <1>7, <1>8, SaveWrites DEF IInv, TypeOK


\* A newer artifact for an entry that was read: what a durable node was
\* promised is not taken back by the columns that are not written.
LEMMA RefreshStep ==
  ASSUME IInv, NEW r \in Runs, run[r].at = "saving", Set(r, Ended(r)),
         run[r].mine # None, run[r].loaded # None, Refresh(r), UNCHANGED <<cleaner, deletions, unread>>
  PROVE  IInv'
<1>1. PICK k \in Keys, a \in Artifacts, keeps \in EntryRow :
        k = run[r].key /\ a = run[r].mine /\ keeps = run[r].loaded
  BY DEF IInv, TypeOK, RunState
<1>2. PICK p \in BOOLEAN : p = (keeps.pinned \/ Persistent(r))
  BY <1>1 DEF EntryRow, Persistent
<1> DEFINE e == [status |-> IF keeps.status = "available" THEN entry[k].status ELSE "available",
                 artifact |-> a,
                 pinned |-> IF p = keeps.pinned THEN entry[k].pinned ELSE p,
                 dated |-> IF ~p \/ keeps.dated THEN ~p ELSE entry[k].dated,
                 old |-> FALSE]
<1>3. /\ entry' = [entry EXCEPT ![k] = e]
      /\ artifact' = [artifact EXCEPT ![a] = NewArtifact(r)]
      /\ replaced' = replaced \cup {entry[k].artifact}
  BY <1>1, <1>2 DEF Refresh
<1>4. /\ Stored(k) /\ entry[k] \in EntryRow
      /\ Untouched /\ k \in Durable => Safe(keeps) /\ Safe(entry[k]) /\ Usable(k)
  <2>1. LoadedInv(r) /\ EntryInv(k)
    BY <1>1 DEF IInv
  <2> QED BY <1>1, <2>1 DEF LoadedInv, EntryInv, IInv, TypeOK, Stored
<1>5. /\ e \in EntryRow /\ e.artifact = a
      /\ Untouched /\ k \in Durable =>
           /\ e.status = "available" \/ (e.status = "invalid" /\ k \in unread)
           /\ e.pinned /\ ~e.dated
  <2>1. k \in Durable => p
    BY <1>1, <1>2 DEF Persistent
  <2> QED BY <1>1, <1>2, <1>4, <2>1 DEF EntryRow, EntryStatus, Safe, Usable
<1> HIDE DEF e
<1>6. /\ artifact' \in [Artifacts -> ArtifactRow]
      /\ artifact'[a].status = "available" /\ artifact'[a].key = k
      /\ artifact'[a].pinned = Persistent(r) /\ artifact'[a].dated = ~Persistent(r)
      /\ \A b \in Artifacts \ {a} : artifact'[b] = artifact[b]
  BY <1>1, <1>3, Publishes
<1>7. /\ entry' \in [Keys -> EntryRow \cup {None}] /\ entry'[k] = e
      /\ \A l \in Keys \ {k} : entry'[l] = entry[l]
  BY <1>3, <1>5 DEF IInv, TypeOK
<1>8. artifact[a].status = "free"
  BY <1>1 DEF IInv, MineFresh
<1>9. Stored(k)'
  BY <1>5, <1>7, RowAssumption DEF Stored
<1>10. Onward
  BY <1>3, <1>6, <1>7, <1>8, <1>9 DEF Onward, Stored, Exists, Untouched
<1>11. EntryInv(k)'
  BY <1>5, <1>6, <1>7, <1>8 DEF EntryInv, Belongs, Safe, Usable, Exists, Untouched
<1>12. ArtifactInv(a)'
  BY <1>1, <1>5, <1>6, <1>7, <1>9 DEF ArtifactInv, Persistent
<1>13. replaced' \in SUBSET Artifacts
  BY <1>3, <1>4 DEF IInv, TypeOK, EntryRow
<1> QED BY <1>1, <1>3, <1>6, <1>7, <1>8, <1>10, <1>11, <1>12, <1>13, SaveWrites

\* The four ways in which the transaction of a run ends.
LEMMA SaveCommitStep ==
  ASSUME IInv, NEW r \in Runs, SaveCommit(r)
  PROVE  IInv'
<1>1. run[r].at = "saving" /\ Set(r, Ended(r)) /\ UNCHANGED <<cleaner, deletions, unread>>
  BY DEF SaveCommit
<1>2. CASE run[r].mine = None /\ Touch(r)
  BY <1>1, <1>2, TouchStep
<1>3. CASE run[r].mine # None /\ run[r].loaded # None /\ Refresh(r)
  BY <1>1, <1>3, RefreshStep
<1>4. CASE run[r].mine # None /\ run[r].loaded = None /\ Stored(run[r].key) /\ LoseInsert(r)
  BY <1>1, <1>4, LoseInsertStep
<1>5. CASE run[r].mine # None /\ run[r].loaded = None /\ ~Stored(run[r].key) /\ Insert(r)
  BY <1>1, <1>5, InsertStep
<1> QED BY <1>2, <1>3, <1>4, <1>5 DEF SaveCommit

-----------------------------------------------------------------------------
(* The jobs that delete, and people.                                       *)

\* What leaves the runs alone keeps IInv if it keeps what it writes.
LEMMA RowStep ==
  ASSUME IInv, TypeOK', Onward, UNCHANGED run,
         \A a \in Artifacts : artifact[a].status = "free" => artifact'[a].status = "free",
         \A k \in Keys : entry'[k] = entry[k] \/ EntryInv(k)',
         \A a \in Artifacts : artifact'[a] = artifact[a] \/ ArtifactInv(a)',
         \A j \in Jobs : cleaner'[j] = cleaner[j] \/ JobInv(j)'
  PROVE  IInv'
BY RunsStay, Carried DEF IInv

\* A job picks an entry that is not pinned or has lost its artifact: not one
\* of a durable node.
LEMMA StartJobStep ==
  ASSUME IInv, NEW j \in Jobs, NEW k \in Keys, StartJob(j, k)
  PROVE  IInv'
<1> DEFINE c == [key |-> k, artifact |-> entry[k].artifact, status |-> EndStatus(j, k)]
<1>1. /\ Selects(j, k) /\ cleaner' = [cleaner EXCEPT ![j] = c]
      /\ UNCHANGED <<entry, artifact, run, deletions, replaced, unread>>
  BY DEF StartJob
<1>2. Stored(k) /\ (Evictable(k) \/ Broken(k))
  BY <1>1 DEF Selects, Jobs, Evictable, Broken, Live
<1>3. Belongs(entry[k].artifact, k) /\ (Untouched => k \notin Durable)
  BY <1>2 DEF IInv, EntryInv, Safe, Evictable, Broken
<1>4. EndStatus(j, k) \in EntryStatus
  BY DEF EndStatus, EntryStatus, Jobs
<1>5. /\ c \in [key : Keys \cup {None}, artifact : Artifacts \cup {None}, status : EntryStatus]
      /\ c.key = k /\ c.artifact = entry[k].artifact
  BY <1>3, <1>4 DEF Belongs
<1> HIDE DEF c
<1>6. TypeOK' /\ cleaner'[j] = c /\ \A i \in Jobs \ {j} : cleaner'[i] = cleaner[i]
  BY <1>1, <1>5 DEF IInv, TypeOK
<1>7. JobInv(j)'
  BY <1>1, <1>2, <1>3, <1>5, <1>6 DEF JobInv, Stored, Belongs, Exists, Untouched
<1> QED BY <1>1, <1>6, <1>7, RowsStay, RowStep

\* A job marks its entry and deletes the artifact that it has read there,
\* which belongs to the key of that entry whatever happened meanwhile.
LEMMA EndJobStep ==
  ASSUME IInv, NEW j \in Jobs, EndJob(j)
  PROVE  IInv'
<1>1. PICK k, a : k = cleaner[j].key /\ a = cleaner[j].artifact
  OBVIOUS
<1>2. /\ cleaner[j] # NoJob /\ UNCHANGED <<run, deletions, replaced, unread>>
      /\ entry' = [entry EXCEPT ![k].status = cleaner[j].status]
      /\ artifact' = IF j # "reconcile" /\ Exists(a) THEN Deleted(a) ELSE artifact
      /\ cleaner' = [cleaner EXCEPT ![j] = NoJob]
  BY <1>1 DEF EndJob
<1>3. k \in Keys /\ Stored(k) /\ Belongs(a, k) /\ (Untouched => k \notin Durable)
  BY <1>1, <1>2 DEF IInv, JobInv
<1>4. /\ entry' \in [Keys -> EntryRow \cup {None}] /\ Stored(k)'
      /\ \A l \in Keys \ {k} : entry'[l] = entry[l]
      /\ entry'[k].artifact = entry[k].artifact
  <2> DEFINE e == [entry[k] EXCEPT !.status = cleaner[j].status]
  <2>1. entry[k] \in EntryRow /\ cleaner[j].status \in EntryStatus
    BY <1>3 DEF IInv, TypeOK, Stored
  <2>2. e \in EntryRow /\ e.artifact = entry[k].artifact
    BY <2>1 DEF EntryRow
  <2>3. entry' = [entry EXCEPT ![k] = e]
    BY <1>2
  <2> HIDE DEF e
  <2> QED BY <1>3, <2>2, <2>3, RowAssumption DEF IInv, TypeOK, Stored
<1>5. /\ artifact' \in [Artifacts -> ArtifactRow] /\ a \in Artifacts
      /\ \A b \in Artifacts \ {a} : artifact'[b] = artifact[b]
      /\ artifact'[a] = artifact[a] \/ artifact'[a].status = "gone"
  <2>1. a \in Artifacts
    BY <1>3 DEF Belongs
  <2>2. CASE artifact' = Deleted(a)
    BY <2>1, <2>2, Deletion DEF IInv
  <2>3. CASE artifact' = artifact
    BY <2>1, <2>3 DEF IInv, TypeOK
  <2> QED BY <1>2, <2>2, <2>3
<1>6. Onward
  BY <1>2, <1>3, <1>4, <1>5 DEF Onward, Stored, Exists, Belongs, Untouched
<1>7. NoJob \in [key : Keys \cup {None}, artifact : Artifacts \cup {None}, status : EntryStatus]
  BY DEF NoJob, EntryStatus
<1>8. TypeOK' /\ cleaner'[j] = NoJob /\ \A i \in Jobs \ {j} : cleaner'[i] = cleaner[i]
  <2> HIDE DEF NoJob
  <2> QED BY <1>2, <1>4, <1>5, <1>7 DEF IInv, TypeOK
<1>9. EntryInv(k)'
  <2>1. Belongs(entry[k].artifact, k)
    BY <1>3 DEF IInv, EntryInv
  <2>2. Belongs(entry[k].artifact, k)'
    BY <1>4, <1>6, <2>1, StillBelongs DEF Belongs, Exists
  <2> QED BY <1>2, <1>3, <2>2 DEF EntryInv, Untouched
<1>10. artifact'[a] = artifact[a] \/ ArtifactInv(a)'
  BY <1>5 DEF ArtifactInv, Exists
<1>11. JobInv(j)'
  BY <1>8 DEF JobInv
<1>12. \A b \in Artifacts : artifact[b].status = "free" => artifact'[b].status = "free"
  BY <1>3, <1>5 DEF Belongs
<1> QED BY <1>2, <1>4, <1>5, <1>6, <1>8, <1>9, <1>10, <1>11, <1>12, RowStep

\* An artifact that is deleted was not one of a durable node, or somebody
\* has deleted it by hand.
LEMMA DeletionStep ==
  ASSUME IInv, NEW a \in Artifacts, Exists(a), artifact' = Deleted(a),
         UNCHANGED <<entry, run, cleaner, replaced, unread>>,
         \/ ~artifact[a].pinned /\ UNCHANGED deletions
         \/ deletions < MaxDeletions /\ deletions' = deletions + 1
  PROVE  IInv'
<1>1. /\ artifact' \in [Artifacts -> ArtifactRow] /\ artifact'[a].status = "gone"
      /\ \A b \in Artifacts \ {a} : artifact'[b] = artifact[b]
  BY Deletion DEF IInv
<1>2. deletions \in Nat /\ deletions' \in 0..MaxDeletions /\ (Untouched' => Untouched)
  BY BoundAssumption DEF IInv, TypeOK, Untouched
<1>3. Untouched' => artifact[a].key \notin Durable
  BY <1>2 DEF IInv, ArtifactInv, Untouched
<1>4. TypeOK'
  BY <1>1, <1>2 DEF IInv, TypeOK
<1>5. Onward
  BY <1>1, <1>2, <1>3 DEF Onward, Stored, Exists
<1>6. ArtifactInv(a)'
  BY <1>1 DEF ArtifactInv, Exists
<1> QED BY <1>1, <1>4, <1>5, <1>6, RowStep DEF Exists

\* The artifact routes and the retention of artifacts.
LEMMA ArtifactSteps ==
  ASSUME IInv, NEW a \in Artifacts, ExpireArtifact(a) \/ DeleteArtifact(a)
  PROVE  IInv'
<1>1. CASE ExpireArtifact(a)
  <2>1. /\ Exists(a) /\ ~artifact[a].pinned /\ artifact' = Deleted(a)
        /\ UNCHANGED <<entry, run, cleaner, replaced, unread>> /\ UNCHANGED deletions
    BY <1>1 DEF ExpireArtifact
  <2> QED BY <2>1, DeletionStep
<1>2. CASE DeleteArtifact(a)
  <2>1. /\ Exists(a) /\ artifact' = Deleted(a) /\ UNCHANGED <<entry, run, cleaner, replaced, unread>>
        /\ deletions < MaxDeletions /\ deletions' = deletions + 1
    BY <1>2 DEF DeleteArtifact
  <2> QED BY <2>1, DeletionStep
<1> QED BY <1>1, <1>2

\* Growing old changes nothing but the age.
LEMMA AgeEntryStep ==
  ASSUME IInv, NEW k \in Keys, AgeEntry(k)
  PROVE  IInv'
<1> DEFINE e == [entry[k] EXCEPT !.old = TRUE]
<1>1. /\ Stored(k) /\ entry[k] \in EntryRow /\ UNCHANGED <<artifact, run, cleaner, deletions, replaced, unread>>
      /\ entry' = [entry EXCEPT ![k] = e]
  BY DEF AgeEntry, IInv, TypeOK, Stored
<1>2. /\ e \in EntryRow /\ e.artifact = entry[k].artifact /\ e.status = entry[k].status
      /\ e.pinned = entry[k].pinned /\ e.dated = entry[k].dated
  BY <1>1 DEF EntryRow
<1> HIDE DEF e
<1>3. TypeOK' /\ Stored(k)' /\ entry'[k] = e /\ \A l \in Keys \ {k} : entry'[l] = entry[l]
  BY <1>1, <1>2, RowAssumption DEF IInv, TypeOK, Stored
<1>4. Onward
  BY <1>1, <1>2, <1>3 DEF Onward, Stored, Exists, Untouched
<1>5. EntryInv(k)'
  BY <1>1, <1>2, <1>3 DEF IInv, EntryInv, Belongs, Safe, Usable, Exists, Untouched
<1> QED BY <1>1, <1>3, <1>4, <1>5, RowStep

\* The same of an artifact.
LEMMA AgeArtifactStep ==
  ASSUME IInv, NEW a \in Artifacts, AgeArtifact(a)
  PROVE  IInv'
<1> DEFINE e == [artifact[a] EXCEPT !.old = TRUE]
<1>1. /\ Exists(a) /\ artifact[a] \in ArtifactRow /\ UNCHANGED <<entry, run, cleaner, deletions, replaced, unread>>
      /\ artifact' = [artifact EXCEPT ![a] = e]
  BY DEF AgeArtifact, IInv, TypeOK
<1>2. /\ e \in ArtifactRow /\ e.status = artifact[a].status /\ e.key = artifact[a].key
      /\ e.pinned = artifact[a].pinned /\ e.dated = artifact[a].dated
  BY <1>1 DEF ArtifactRow
<1> HIDE DEF e
<1>3. TypeOK' /\ artifact'[a] = e /\ \A b \in Artifacts \ {a} : artifact'[b] = artifact[b]
  BY <1>1, <1>2 DEF IInv, TypeOK
<1>4. Onward
  BY <1>1, <1>2, <1>3 DEF Onward, Stored, Exists, Untouched
<1>5. ArtifactInv(a)'
  BY <1>1, <1>2, <1>3 DEF IInv, ArtifactInv, Stored, Exists, Untouched
<1> QED BY <1>1, <1>2, <1>3, <1>4, <1>5, RowStep DEF Exists

-----------------------------------------------------------------------------

\* The cache is empty at first.
LEMMA InitInv == Init => IInv
<1> SUFFICES ASSUME Init PROVE IInv
  OBVIOUS
<1>1. TypeOK
  <2>1. Unused \in ArtifactRow
    BY DEF Unused, ArtifactRow
  <2>2. NoJob \in [key : Keys \cup {None}, artifact : Artifacts \cup {None}, status : EntryStatus]
    BY DEF NoJob, EntryStatus
  <2>3. run \in [Runs -> RunState]
    BY DEF Init, RunState
  <2>4. deletions \in 0..MaxDeletions
    BY BoundAssumption DEF Init
  <2> QED BY <2>1, <2>2, <2>3, <2>4 DEF Init, TypeOK
<1>2. \A a \in Artifacts : ArtifactInv(a)
  BY DEF Init, Unused, ArtifactInv, Exists
<1>3. \A k \in Keys : EntryInv(k)
  BY DEF Init, EntryInv, Stored
<1>4. \A r \in Runs : run[r].mine = None /\ run[r].loaded = None
  BY DEF Init
<1>5. \A j \in Jobs : JobInv(j)
  BY DEF Init, JobInv
<1> QED BY <1>1, <1>2, <1>3, <1>4, <1>5 DEF IInv, MineFresh, LoadedInv

\* Every step of the cache keeps the invariant.
LEMMA NextInv == IInv /\ [Next]_vars => IInv'
<1> SUFFICES ASSUME IInv, [Next]_vars PROVE IInv'
  OBVIOUS
<1>1. ASSUME NEW r \in Runs, Execute(r) PROVE IInv'
  BY <1>1, PrepareReadStep, PrepareCommitStep, SaveReadStep, SaveCommitStep, SaveNothingStep
     DEF Execute, Prepare
<1>2. ASSUME NEW j \in Jobs, EndJob(j) \/ \E k \in Keys : StartJob(j, k) PROVE IInv'
  BY <1>2, EndJobStep, StartJobStep
<1>3. ASSUME NEW a \in Artifacts, ExpireArtifact(a) \/ AgeArtifact(a) \/ DeleteArtifact(a) PROVE IInv'
  BY <1>3, ArtifactSteps, AgeArtifactStep
<1>4. ASSUME NEW k \in Keys, AgeEntry(k) PROVE IInv'
  BY <1>4, AgeEntryStep
<1>5. CASE UNCHANGED vars
  <2>1. UNCHANGED <<entry, artifact, run, cleaner, deletions, replaced, unread>>
    BY <1>5 DEF vars
  <2>2. TypeOK'
    BY <2>1 DEF IInv, TypeOK
  <2> QED BY <2>1, <2>2, RowsStay, RowStep
<1> QED BY <1>1, <1>2, <1>3, <1>4, <1>5 DEF Next

\* IInv holds in every state of the cache.
THEOREM Invariance == Spec => []IInv
BY InitInv, NextInv, PTL DEF Spec

\* Every variable stays within its type.
THEOREM TypeCorrect == Spec => []TypeOK
<1>1. IInv => TypeOK
  BY DEF IInv
<1> QED BY <1>1, Invariance, PTL

\* What a durable node has paid for is kept: through eviction, clearing,
\* retention, refreshes, racing runs and failed reads its entry stays, pinned
\* and without an expiration date, and so does the artifact of the entry; it
\* can be used unless a run could once not read the file.
THEOREM DurableIsKept == Spec => []DurableKept
<1>1. IInv => DurableKept
  <2> SUFFICES ASSUME IInv, Untouched, NEW k \in Durable, Stored(k)
               PROVE  /\ entry[k].pinned /\ ~entry[k].dated /\ Usable(k)
                      /\ LET a == artifact[entry[k].artifact]
                         IN a.status = "available" /\ a.pinned /\ ~a.dated
    BY DEF DurableKept, Untouched, Usable
  <2>1. PICK a : a = entry[k].artifact
    OBVIOUS
  <2>2. Belongs(a, k) /\ Safe(entry[k]) /\ Usable(k) /\ Exists(a)
    BY <2>1, DurableAssumption DEF IInv, EntryInv, Safe
  <2>3. artifact[a].pinned /\ ~artifact[a].dated
    BY <2>2 DEF Belongs, IInv, ArtifactInv
  <2> QED BY <2>1, <2>2, <2>3 DEF Safe, Exists
<1> QED BY <1>1, Invariance, PTL

\* A pinned artifact is the one of its entry or was taken from it by a
\* refresh: no race of runs and jobs leaves one that nothing names.
THEOREM PinnedStaysReachable == Spec => []PinnedReachable
<1>1. IInv => PinnedReachable
  BY DEF IInv, ArtifactInv, PinnedReachable
<1> QED BY <1>1, Invariance, PTL
=============================================================================
