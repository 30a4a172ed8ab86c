---------------------------- MODULE ArtifactStore ----------------------------
(***************************************************************************)
(* Files kept in the object store with a row in the database               *)
(* (app/domains/artifacts, app/domains/datasets, workers/maintenance.py):  *)
(* upload, publication of run outputs, deletion, expiry, reconciliation,   *)
(* quota reservations, and the datasets that refer to files.               *)
(*                                                                         *)
(* The store is not part of a transaction: an object appears or disappears *)
(* when the call returns, a row when its transaction commits.  One owner;  *)
(* every file has size 1.  `row` and `reservation` are committed values.   *)
(***************************************************************************)
EXTENDS Integers, FiniteSets

CONSTANTS
  Artifacts,    \* files, each uploaded at most once
  Projects,     \* projects of the owner
  Kinds,        \* callers of the service: subset of {"http", "dataset", "run"}
  None,         \* no artifact
  OwnerQuota, ProjectQuota,
  Timely,       \* no upload takes longer than artifact_pending_timeout_seconds
  MaxFaults,    \* bound: calls of the object store that fail
  MaxCrashes    \* bound: requests and workers that die

ASSUME SizeAssumption == {OwnerQuota, ProjectQuota, MaxFaults, MaxCrashes} \subseteq Nat
ASSUME KindAssumption == Kinds \subseteq {"http", "dataset", "run"}
ASSUME NoneAssumption == None \notin Artifacts
ASSUME FiniteAssumption == IsFiniteSet(Artifacts) /\ IsFiniteSet(Projects) /\ Projects # {}

VARIABLES
  row,         \* artifacts: status, object_key, and which of its dates have passed
  reservation, \* artifact_quota_reservations
  object,      \* the object store
  dataset,     \* artifacts a dataset refers to
  upload,      \* the request or worker that stores each file
  deletion,    \* the request that deletes one
  janitor,     \* reconciliation and expiry, at the row they are working on
  faults, crashes,
  orphaned     \* history: files something went wrong with, by what it was

vars == <<row, reservation, object, dataset, upload, deletion, janitor, faults,
          crashes, orphaned>>

-----------------------------------------------------------------------------
Keys     == Artifacts \X {"tmp", "final"}
Statuses == {"absent", "pending", "available", "delete_pending", "deleted", "failed"}
RowState == [status : Statuses, key : {"tmp", "final"}, stale : BOOLEAN, expired : BOOLEAN]
Steps    == {"new", "reserved", "pending", "put", "moved", "failing", "published", "read",
             "done", "failed", "rejected", "dead"}
UploadState == [at : Steps, kind : {"http", "dataset", "run"}, project : Projects]
Jobs     == {"reconcile", "expiry"}
JobState == [at : {"idle", "loaded", "acted"}, artifact : Artifacts \cup {None},
             status : Statuses]
Harms    == {"cut", "early", "missed"}

NoDeletion == [at |-> "idle", artifact |-> None, of |-> "artifact"]
NoJob      == [at |-> "idle", artifact |-> None, status |-> "absent"]

Init ==
  /\ row = [a \in Artifacts |-> [status |-> "absent", key |-> "tmp", stale |-> FALSE,
                                 expired |-> FALSE]]
  /\ reservation = [a \in Artifacts |-> "none"]
  /\ object = {}
  /\ dataset = {}
  /\ upload \in [Artifacts -> [at : {"new"}, kind : Kinds, project : Projects]]
  /\ deletion = NoDeletion
  /\ janitor = [j \in Jobs |-> NoJob]
  /\ faults = 0
  /\ crashes = 0
  /\ orphaned = [h \in Harms |-> {}]

-----------------------------------------------------------------------------
At(a, step)      == upload[a].at = step
Goes(a, step)    == upload' = [upload EXCEPT ![a].at = step]
Becomes(a, s)    == row' = [row EXCEPT ![a].status = s]
StoreFails       == faults < MaxFaults /\ faults' = faults + 1
StoreWorks       == UNCHANGED faults
InProject(p)     == {a \in Artifacts : upload[a].project = p}

\* create_artifact_from_path commits nothing of its own: row and reservation
\* appear with the transaction that finalizes the run.
Durable(a)       == upload[a].kind # "run"
InProgress(a)    == upload[a].at \in {"reserved", "pending", "put", "moved", "failing"}

\* _publish_file has flushed "uploading", delete_artifact "delete_pending":
\* until they commit, every other UPDATE of the row waits.
RowLocked(a) == \/ Durable(a) /\ upload[a].at \in {"put", "moved", "failing"}
                \/ deletion.at = "gone" /\ deletion.artifact = a

\* artifact_repository.usage and _reservation_totals, over what is committed.
Counted == {a \in Artifacts : row[a].status = "available" \/ reservation[a] = "active"}

\* Mutant: the advisory lock is left out.
ScopeUnlocked(p) == TRUE

\* pg_advisory_xact_lock of owner and project, held until the commit.
ScopeFree(p) == \A b \in InProject(p) :
  ~At(b, "reserved") /\ (Durable(b) \/ upload[b].at \notin {"put", "moved", "failing"})

-----------------------------------------------------------------------------
(* Uploads.                                                                *)

Reserve(a) ==
  /\ At(a, "new")
  /\ ScopeFree(upload[a].project)
  /\ Cardinality(Counted) + 1 <= OwnerQuota
  /\ Cardinality(Counted \cap InProject(upload[a].project)) + 1 <= ProjectQuota
  /\ Goes(a, "reserved")
  /\ UNCHANGED <<row, reservation, object, dataset, deletion, janitor, faults, crashes,
                 orphaned>>

\* "Make pending state durable before touching non-transactional storage."
CommitPending(a) ==
  /\ At(a, "reserved") /\ Durable(a)
  /\ Becomes(a, "pending")
  /\ reservation' = [reservation EXCEPT ![a] = "active"]
  /\ Goes(a, "pending")
  /\ UNCHANGED <<object, dataset, deletion, janitor, faults, crashes, orphaned>>

Put(a) ==
  /\ At(a, IF Durable(a) THEN "pending" ELSE "reserved")
  /\ \/ StoreWorks /\ object' = object \cup {<<a, "tmp">>} /\ Goes(a, "put")
     \/ StoreFails /\ UNCHANGED object /\ Goes(a, "failing")
  /\ UNCHANGED <<row, reservation, dataset, deletion, janitor, crashes, orphaned>>

\* A failed move may have copied the object (StorageBackend.move of MinIO).
Move(a) ==
  /\ At(a, "put")
  /\ LET moved == (object \ {<<a, "tmp">>}) \cup {<<a, "final">>} IN
     \/ <<a, "tmp">> \in object /\ StoreWorks /\ object' = moved /\ Goes(a, "moved")
     \/ <<a, "tmp">> \notin object /\ StoreWorks /\ UNCHANGED object /\ Goes(a, "failing")
     \/ /\ StoreFails /\ Goes(a, "failing")
        /\ object' \in {object} \cup (IF <<a, "tmp">> \in object
                                      THEN {object \cup {<<a, "final">>}} ELSE {})
  /\ UNCHANGED <<row, reservation, dataset, deletion, janitor, crashes, orphaned>>

\* Mutant: a published file gets a status that no query selects.
PublishedAsReady(a) ==
  /\ row' = [row EXCEPT ![a].status = "ready", ![a].key = "final"]
  /\ reservation' = [reservation EXCEPT ![a] = "released"]

\* What the commit after a publication writes.
Published(a) ==
  /\ row' = [row EXCEPT ![a].status = "available", ![a].key = "final"]
  /\ reservation' = [reservation EXCEPT ![a] = "released"]

\* Mutant: the row is made available before the object is moved.
ReadyEarly(a) == At(a, "put")

\* The object has its final key and its size has been verified.
Ready(a) == At(a, "moved")

CommitPublished(a) ==
  /\ Ready(a)
  /\ Published(a)
  /\ Goes(a, IF upload[a].kind = "dataset" THEN "published" ELSE "done")
  /\ UNCHANGED <<object, dataset, deletion, janitor, faults, crashes, orphaned>>

\* The except branch of _publish_file, with the commit of its caller.  A
\* delete that fails is passed over; the row keeps the temporary key.
PublishFails(a) ==
  /\ At(a, "failing")
  /\ \/ StoreWorks /\ object' = object \ {<<a, "tmp">>, <<a, "final">>} /\ UNCHANGED orphaned
     \/ /\ StoreFails
        /\ object' \in {object, object \ {<<a, "tmp">>}, object \ {<<a, "final">>}}
        /\ orphaned' = [orphaned EXCEPT !["missed"] = @ \cup {a}]
  /\ Becomes(a, "failed")
  /\ reservation' = [reservation EXCEPT ![a] = "failed"]
  /\ Goes(a, "failed")
  /\ UNCHANGED <<dataset, deletion, janitor, crashes>>

\* The process of an upload dies, or its transaction is rolled back.
UploadDies(a) ==
  /\ crashes < MaxCrashes
  /\ upload[a].at \notin {"new", "done", "failed", "rejected", "dead"}
  /\ crashes' = crashes + 1
  /\ Goes(a, "dead")
  /\ UNCHANGED <<row, reservation, object, dataset, deletion, janitor, faults, orphaned>>

\* upload_dataset downloads the file and parses it; a file that is gone or
\* cannot be read is deleted again.
ReadDataset(a) ==
  /\ At(a, "published")
  /\ \/ <<a, "final">> \in object /\ Goes(a, "read") /\ UNCHANGED <<row, object>>
     \/ /\ ~RowLocked(a)
        /\ object' = object \ {<<a, "final">>}
        /\ Becomes(a, "deleted")
        /\ Goes(a, "rejected")
  /\ UNCHANGED <<reservation, dataset, deletion, janitor, faults, crashes, orphaned>>

InsertDataset(a) ==
  /\ At(a, "read")
  /\ dataset' = dataset \cup {a}
  /\ Goes(a, "done")
  /\ UNCHANGED <<row, reservation, object, deletion, janitor, faults, crashes, orphaned>>

-----------------------------------------------------------------------------
(* Deletion, by DELETE /artifacts/{id} or with the dataset that refers to  *)
(* the file (force).                                                       *)

\* Mutant: a file may be deleted although a dataset refers to it.
AnyUnused(a) == TRUE

\* delete_artifact: ARTIFACT_IN_USE.
Unused(a) == a \notin dataset

CheckDeletion(a) ==
  /\ deletion.at = "idle" /\ row[a].status = "available"
  /\ \E of \in {"artifact", "dataset"} :
       /\ IF of = "artifact" THEN Unused(a) ELSE a \in dataset
       /\ deletion' = [at |-> "checked", artifact |-> a, of |-> of]
       /\ orphaned' = IF of = "artifact" /\ upload[a].at \in {"published", "read"}
                      THEN [orphaned EXCEPT !["early"] = @ \cup {a}] ELSE orphaned
  /\ UNCHANGED <<row, reservation, object, dataset, upload, janitor, faults, crashes>>

\* A store that fails makes the handler raise: nothing has been committed.
DeleteObject ==
  LET a == deletion.artifact IN
  /\ deletion.at = "checked" /\ ~RowLocked(a)
  /\ \/ /\ StoreWorks
        /\ object' = object \ {<<a, "final">>}
        /\ deletion' = [deletion EXCEPT !.at = "gone"]
     \/ StoreFails /\ deletion' = NoDeletion /\ UNCHANGED object
  /\ UNCHANGED <<row, reservation, dataset, upload, janitor, crashes, orphaned>>

CommitDeletion ==
  LET a == deletion.artifact IN
  /\ deletion.at = "gone"
  /\ Becomes(a, "deleted")
  /\ dataset' = IF deletion.of = "dataset" THEN dataset \ {a} ELSE dataset
  /\ deletion' = NoDeletion
  /\ UNCHANGED <<reservation, object, upload, janitor, faults, crashes, orphaned>>

DeletionDies ==
  /\ crashes < MaxCrashes /\ deletion.at # "idle"
  /\ crashes' = crashes + 1
  /\ orphaned' = IF deletion.at = "gone"
                 THEN [orphaned EXCEPT !["cut"] = @ \cup {deletion.artifact}] ELSE orphaned
  /\ deletion' = NoDeletion
  /\ UNCHANGED <<row, reservation, object, dataset, upload, janitor, faults>>

-----------------------------------------------------------------------------
(* reconcile_artifacts and cleanup_expired_artifacts.  They work on many   *)
(* rows in one transaction, row by row; here one transaction has one row.  *)
(* They flush at the end, so a row is not locked while they work on it.    *)

\* Mutant: reconciliation takes every upload for a stale one.
AnyPending(r) == r.status = "pending"

StalePending(r) == r.status = "pending" /\ r.stale

\* Mutant: deletions left half done are not looked for.
SkipsDeletions(j, r) ==
  IF j = "expiry" THEN r.status = "available" /\ r.expired
  ELSE StalePending(r) \/ r.status = "available"

\* The rows each job selects.
WorksOn(j, r) ==
  IF j = "expiry" THEN r.status = "available" /\ r.expired
  ELSE StalePending(r) \/ r.status \in {"available", "delete_pending"}

LoadRow(j, a) ==
  /\ janitor[j].at = "idle" /\ WorksOn(j, row[a])
  /\ janitor' = [janitor EXCEPT ![j] = [at |-> "loaded", artifact |-> a,
                                        status |-> row[a].status]]
  /\ UNCHANGED <<row, reservation, object, dataset, upload, deletion, faults, crashes, orphaned>>

Writes(j, s) == janitor' = [janitor EXCEPT ![j].at = "acted", ![j].status = s]
Leaves(j)    == janitor' = [janitor EXCEPT ![j] = NoJob]

\* The key is the one that was loaded: temporary exactly while pending.
KeyOf(s) == IF s = "pending" THEN "tmp" ELSE "final"

Reconcile(a, s) ==
  LET j == "reconcile"
      gone == object \ {<<a, KeyOf(s)>>}
  IN \/ s = "pending" /\ StoreWorks /\ object' = gone /\ Writes(j, "failed") /\ UNCHANGED orphaned
     \/ /\ s = "pending" /\ StoreFails /\ UNCHANGED object /\ Writes(j, "failed")
        /\ orphaned' = [orphaned EXCEPT !["missed"] = @ \cup {a}]
     \/ /\ s = "available" /\ StoreWorks /\ UNCHANGED <<object, orphaned>>
        /\ IF <<a, "final">> \in object THEN Leaves(j) ELSE Writes(j, "failed")
     \/ /\ s = "delete_pending" /\ StoreWorks /\ object' = gone /\ Writes(j, "deleted")
        /\ UNCHANGED orphaned
     \/ s = "delete_pending" /\ StoreFails /\ Leaves(j) /\ UNCHANGED <<object, orphaned>>

ExpireFile(a) ==
  /\ UNCHANGED orphaned
  /\ \/ StoreWorks /\ object' = object \ {<<a, "final">>} /\ Writes("expiry", "deleted")
     \/ StoreFails /\ UNCHANGED object /\ Writes("expiry", "delete_pending")

Act(j) ==
  /\ janitor[j].at = "loaded"
  /\ IF j = "reconcile" THEN Reconcile(janitor[j].artifact, janitor[j].status)
     ELSE ExpireFile(janitor[j].artifact)
  /\ UNCHANGED <<row, reservation, dataset, upload, deletion, crashes>>

CommitRow(j) ==
  LET a == janitor[j].artifact IN
  /\ janitor[j].at = "acted" /\ ~RowLocked(a)
  /\ Becomes(a, janitor[j].status)
  /\ Leaves(j)
  /\ UNCHANGED <<reservation, object, dataset, upload, deletion, faults, crashes, orphaned>>

JanitorDies(j) ==
  /\ crashes < MaxCrashes /\ janitor[j].at # "idle"
  /\ crashes' = crashes + 1
  /\ Leaves(j)
  /\ orphaned' = IF janitor[j].at = "acted"
                 THEN [orphaned EXCEPT !["cut"] = @ \cup {janitor[j].artifact}] ELSE orphaned
  /\ UNCHANGED <<row, reservation, object, dataset, upload, deletion, faults>>

\* Mutant: objects under _tmp are removed whether or not a row names them.
NeverReferenced(a) == FALSE

\* Mutant: an object is taken for referenced although its row was never
\* committed.
StillReferenced(a) == row[a].key = "tmp"

\* A committed row has this temporary key, in whatever status.
Referenced(a) == row[a].status # "absent" /\ row[a].key = "tmp"

\* The keys listed under _tmp that no row refers to.
SweepTemporary(a) ==
  /\ <<a, "tmp">> \in object /\ ~Referenced(a)
  /\ object' = object \ {<<a, "tmp">>}
  /\ UNCHANGED <<row, reservation, dataset, upload, deletion, janitor, faults, crashes, orphaned>>

ExpireReservation(a) ==
  /\ reservation[a] = "lapsed"
  /\ reservation' = [reservation EXCEPT ![a] = "expired"]
  /\ UNCHANGED <<row, object, dataset, upload, deletion, janitor, faults, crashes, orphaned>>

-----------------------------------------------------------------------------
\* artifact_pending_timeout_seconds pass: the reservation is no longer
\* counted and the row, if still pending, is stale.
Lapse(a) ==
  /\ row[a].status = "pending" \/ reservation[a] = "active"
  /\ ~row[a].stale
  /\ Timely => ~InProgress(a)
  /\ row' = [row EXCEPT ![a].stale = TRUE]
  /\ reservation' = [reservation EXCEPT ![a] = IF @ = "active" THEN "lapsed" ELSE @]
  /\ UNCHANGED <<object, dataset, upload, deletion, janitor, faults, crashes, orphaned>>

\* expires_at of an output of a run passes; uploads have none.
Expires(a) ==
  /\ row[a].status = "available" /\ upload[a].kind = "run" /\ ~row[a].expired
  /\ row' = [row EXCEPT ![a].expired = TRUE]
  /\ UNCHANGED <<reservation, object, dataset, upload, deletion, janitor, faults, crashes,
                 orphaned>>

Upload(a) == \/ Reserve(a) \/ CommitPending(a) \/ Put(a) \/ Move(a) \/ CommitPublished(a)
             \/ PublishFails(a) \/ ReadDataset(a) \/ InsertDataset(a)

Sweep(a) == SweepTemporary(a) \/ ExpireReservation(a)
Visit(j) == (\E a \in Artifacts : LoadRow(j, a)) \/ Act(j) \/ CommitRow(j)

Next ==
  \/ \E a \in Artifacts : Upload(a) \/ UploadDies(a) \/ CheckDeletion(a) \/ Sweep(a)
                          \/ Lapse(a) \/ Expires(a)
  \/ DeleteObject \/ CommitDeletion \/ DeletionDies
  \/ \E j \in Jobs : Visit(j) \/ JanitorDies(j)

\* Requests end, dates pass, and the periodic jobs come back to every row.
Fairness ==
  /\ \A a \in Artifacts : /\ WF_vars(Upload(a) /\ ~At(a, "new"))
                          /\ WF_vars(Lapse(a))
                          /\ WF_vars(Sweep(a))
                          /\ SF_vars(LoadRow("reconcile", a))
  /\ WF_vars(DeleteObject \/ CommitDeletion)
  /\ \A j \in Jobs : WF_vars(Act(j) \/ CommitRow(j))

Spec == Init /\ [][Next]_vars /\ Fairness

-----------------------------------------------------------------------------
(* Properties.                                                             *)

\* Every variable stays within its type.
TypeOK ==
  /\ row \in [Artifacts -> RowState]
  /\ reservation \in [Artifacts -> {"none", "active", "lapsed", "released", "failed", "expired"}]
  /\ object \subseteq Keys
  /\ dataset \subseteq Artifacts
  /\ upload \in [Artifacts -> UploadState]
  /\ deletion \in [at : {"idle", "checked", "gone"}, artifact : Artifacts \cup {None},
                   of : {"artifact", "dataset"}]
  /\ janitor \in [Jobs -> JobState]
  /\ faults \in 0..MaxFaults
  /\ crashes \in 0..MaxCrashes
  /\ orphaned \in [Harms -> SUBSET Artifacts]

\* The advisory lock of _reserve_quota makes check and reservation one step
\* per project: what is stored or reserved in one project exceeds neither
\* quota.  The quota of the owner, checked under the locks of its projects,
\* is exceeded by at most one file for each other project.  Uploads that
\* outlive their reservation are excepted.
QuotaKept ==
  Timely => /\ \A p \in Projects : LET n == Cardinality(Counted \cap InProject(p))
                                   IN n <= ProjectQuota /\ n <= OwnerQuota
            /\ Cardinality(Counted) <= OwnerQuota + Cardinality(Projects) - 1

Usable(a) == row[a].status = "available" /\ <<a, row[a].key>> \in object

BeingRemoved(a) == \/ deletion.at = "gone" /\ deletion.artifact = a
                   \/ \E j \in Jobs : janitor[j].at = "acted" /\ janitor[j].artifact = a

\* An available row has its object: the move comes before the commit, and a
\* deletion commits after the object is gone.  Exempt are deletions that are
\* under way and those that died between the two.
AvailableHasObject ==
  \A a \in Artifacts :
    row[a].status = "available" => Usable(a) \/ BeingRemoved(a) \/ a \in orphaned["cut"]

\* "A dataset cannot point to an unavailable artifact": true unless the file
\* was asked to be deleted before its dataset existed, or a deletion died.
\* Uploads that outlive their reservation are excepted.
DatasetHasFile ==
  Timely => \A a \in dataset :
              Usable(a) \/ BeingRemoved(a) \/ a \in orphaned["early"] \cup orphaned["cut"]

\* Row, object and dataset agree: an available artifact has its object, a ready
\* dataset its artifact (create_artifact_from_upload, delete_artifact).
StoreIsConsistent == TypeOK /\ AvailableHasObject /\ DatasetHasFile

\* The row of a direct upload is committed before its object is written, so
\* that no reconciliation removes the object meanwhile: such an upload that
\* is in time fails only when the object store does.
UploadUndisturbed ==
  Timely => \A a \in Artifacts : Durable(a) /\ At(a, "failed") => faults > 0

\* ArtifactPromise: a file is usable at most once and does not come back.
Life(a) == CASE Usable(a) -> "usable"
             [] row[a].status \in {"absent", "pending"} -> "absent"
             [] OTHER -> "gone"

Promise == INSTANCE ArtifactPromise WITH life <- [a \in Artifacts |-> Life(a)]
ImplementsPromise == Promise!Spec

\* A temporary object left by an upload that died is removed in the end, by
\* its row or as an orphan, unless a call to remove it failed: a failed row
\* goes on naming the key.
TemporaryVanishes ==
  \A a \in Artifacts :
    (At(a, "dead") /\ <<a, "tmp">> \in object) ~> (<<a, "tmp">> \notin object \/ a \in orphaned["missed"])

\* A deletion left to the reconciliation is completed.
PendingDeletionEnds ==
  \A a \in Artifacts : (row[a].status = "delete_pending") ~> (row[a].status # "delete_pending")
=============================================================================
