------------------------ MODULE ArtifactStoreProofs ------------------------
(***************************************************************************)
(* Row, object, dataset and quota of ArtifactStore agree for any number of *)
(* files, projects, failing calls and crashes.  IInv says of each file how *)
(* far its upload has come when its row has a given status, and of the two *)
(* jobs and of a deletion that they only work on files that are past their *)
(* upload; each action changes one file, so most of it is carried over.    *)
(***************************************************************************)
EXTENDS ArtifactStore, FiniteSetTheorems, TLAPS

Reservations == {"none", "active", "lapsed", "released", "failed", "expired"}

\* Uploads that are not over, by how far they are.
Waiting == {"new", "reserved", "pending", "put", "moved", "failing"}
Ended   == {"done", "failed", "rejected", "dead"}

Past(a)     == upload[a].at \in {"published", "read", "done", "rejected", "dead"}
InFlight(a) == Durable(a) /\ upload[a].at \in {"pending", "put", "moved", "failing"}

\* A dataset refers to the file, or its upload is about to make one.
Wanted(a) == a \in dataset \/ upload[a].at \in {"published", "read"}

\* The exceptions of DatasetHasFile, before the deletion commits.
Taken(a) == \/ deletion.at = "gone" /\ deletion.artifact = a
            \/ a \in orphaned["early"] \cup orphaned["cut"]

\* What the status of a row says about the upload, and conversely.
RowFollows(a) ==
  /\ row[a].status \in {"available", "delete_pending", "deleted"} => Past(a)
  /\ row[a].key = "final" => Past(a)
  /\ row[a].status = "available" => row[a].key = "final"
  /\ row[a].status = "pending" => Durable(a) /\ upload[a].at \in {"pending", "put", "moved", "failing", "dead"}
  /\ InFlight(a) => row[a].status \in {"pending", "failed"}
  /\ upload[a].at \in Waiting /\ ~InFlight(a) => row[a].status = "absent"
  /\ row[a].expired \/ row[a].status = "delete_pending" => upload[a].kind = "run"
  /\ At(a, "moved") => <<a, "final">> \in object
  /\ Wanted(a) => upload[a].kind = "dataset"
  /\ a \in dataset => At(a, "done")

\* An upload in time is nobody else's: its row is pending and fresh, its
\* reservation counted, its temporary object in place.
RowInTime(a) ==
  /\ InFlight(a) => /\ row[a].status = "pending" /\ row[a].key = "tmp" /\ ~row[a].stale
                    /\ reservation[a] = "active"
  /\ InFlight(a) /\ At(a, "put") => <<a, "tmp">> \in object
  /\ Durable(a) /\ upload[a].at \in {"failing", "failed"} => faults > 0
  /\ ~InFlight(a) /\ upload[a].at \in Waiting => ~row[a].stale /\ reservation[a] = "none"

KeepsObject(a) == row[a].status = "available" => Usable(a) \/ BeingRemoved(a) \/ a \in orphaned["cut"]
KeepsFile(a)   == Wanted(a) => Usable(a) \/ Taken(a)

FileInv(a) == RowFollows(a) /\ KeepsObject(a) /\ (Timely => RowInTime(a) /\ KeepsFile(a))

\* A deletion works on a file past its upload; without a dataset, its upload is
\* over, unless it came early.
DeletionInv ==
  deletion.at # "idle" =>
    LET a == deletion.artifact IN
    /\ a \in Artifacts /\ row[a].status # "absent" /\ Past(a)
    /\ deletion.of = "dataset" => At(a, "done")
    /\ deletion.of = "artifact" => \/ a \in orphaned["early"]
                                   \/ a \notin dataset /\ upload[a].at \in {"done", "rejected", "dead"}

\* A job has loaded a row of a status it selects, and removes nothing that a
\* dataset wants.
JobWorks(j) ==
  LET a == janitor[j].artifact IN
  /\ a \in Artifacts /\ row[a].status # "absent"
  /\ janitor[j].at = "loaded" => janitor[j].status \in {"pending", "available", "delete_pending"}
  /\ janitor[j].at = "loaded" /\ janitor[j].status # "pending" => Past(a)
  /\ janitor[j].at = "acted" => janitor[j].status \in {"failed", "deleted", "delete_pending"}
  /\ janitor[j].status \in {"deleted", "delete_pending"} => Past(a) /\ upload[a].kind = "run"
  /\ j = "expiry" => janitor[j].status # "pending" /\ upload[a].kind = "run"

JobInTime(j) ==
  LET a == janitor[j].artifact IN
  /\ Past(a)
  /\ janitor[j].status = "pending" => At(a, "dead")
  /\ janitor[j].at = "acted" /\ Wanted(a) => Taken(a)

JobInv(j) == janitor[j].at # "idle" => JobWorks(j) /\ (Timely => JobInTime(j))

IInv == /\ TypeOK /\ DeletionInv
        /\ \A a \in Artifacts : FileInv(a)
        /\ \A j \in Jobs : JobInv(j)

-----------------------------------------------------------------------------
(* What the primitive updates write.                                       *)

\* A step of an upload changes its position only.
LEMMA UploadGoes ==
  ASSUME TypeOK, NEW a \in Artifacts, NEW s \in Steps, Goes(a, s)
  PROVE  /\ upload' \in [Artifacts -> UploadState]
         /\ upload'[a].at = s
         /\ \A b \in Artifacts : upload'[b].kind = upload[b].kind /\ upload'[b].project = upload[b].project
         /\ \A b \in Artifacts \ {a} : upload'[b] = upload[b]
BY DEF TypeOK, Goes, UploadState

\* A change of status leaves the rest of the row and the other rows alone.
LEMMA RowBecomes ==
  ASSUME TypeOK, NEW a \in Artifacts, NEW s \in Statuses, Becomes(a, s)
  PROVE  /\ row' \in [Artifacts -> RowState]
         /\ row'[a].status = s /\ row'[a].key = row[a].key
         /\ row'[a].stale = row[a].stale /\ row'[a].expired = row[a].expired
         /\ \A b \in Artifacts \ {a} : row'[b] = row[b]
<1> DEFINE r == [row[a] EXCEPT !.status = s]
<1>1. row[a] \in RowState BY DEF TypeOK
<1>2. /\ r \in RowState /\ r.status = s
      /\ r.key = row[a].key /\ r.stale = row[a].stale /\ r.expired = row[a].expired
  BY <1>1 DEF RowState
<1>3. row' = [row EXCEPT ![a] = r] BY DEF Becomes
<1> HIDE DEF r
<1> QED BY <1>2, <1>3 DEF TypeOK

\* A publication writes status, key and reservation.
LEMMA RowPublished ==
  ASSUME TypeOK, NEW a \in Artifacts, Published(a)
  PROVE  /\ row' \in [Artifacts -> RowState]
         /\ row'[a].status = "available" /\ row'[a].key = "final"
         /\ row'[a].stale = row[a].stale /\ row'[a].expired = row[a].expired
         /\ \A b \in Artifacts \ {a} : row'[b] = row[b]
         /\ reservation' \in [Artifacts -> Reservations]
         /\ reservation'[a] = "released"
         /\ \A b \in Artifacts \ {a} : reservation'[b] = reservation[b]
<1> DEFINE r == [row[a] EXCEPT !.status = "available", !.key = "final"]
<1>1. row[a] \in RowState BY DEF TypeOK
<1>2. /\ r \in RowState /\ r.status = "available" /\ r.key = "final"
      /\ r.stale = row[a].stale /\ r.expired = row[a].expired
  BY <1>1 DEF RowState, Statuses
<1>3. row' = [row EXCEPT ![a] = r] BY DEF Published
<1>4. reservation' = [reservation EXCEPT ![a] = "released"] BY DEF Published
<1> HIDE DEF r
<1> QED BY <1>2, <1>3, <1>4 DEF TypeOK, Reservations

\* So do the steps that change the reservation alone.
LEMMA ReservationBecomes ==
  ASSUME TypeOK, NEW a \in Artifacts, NEW s \in Reservations,
         reservation' = [reservation EXCEPT ![a] = s]
  PROVE  /\ reservation' \in [Artifacts -> Reservations]
         /\ reservation'[a] = s
         /\ \A b \in Artifacts \ {a} : reservation'[b] = reservation[b]
BY DEF TypeOK, Reservations

\* A job that has acted keeps its artifact.
LEMMA JanitorWrites ==
  ASSUME TypeOK, NEW j \in Jobs, NEW s \in Statuses, Writes(j, s)
  PROVE  /\ janitor' \in [Jobs -> JobState]
         /\ janitor'[j].at = "acted" /\ janitor'[j].status = s
         /\ janitor'[j].artifact = janitor[j].artifact
         /\ \A i \in Jobs \ {j} : janitor'[i] = janitor[i]
<1> DEFINE r == [janitor[j] EXCEPT !.at = "acted", !.status = s]
<1>1. janitor[j] \in JobState BY DEF TypeOK
<1>2. r \in JobState /\ r.at = "acted" /\ r.status = s /\ r.artifact = janitor[j].artifact
  BY <1>1 DEF JobState
<1>3. janitor' = [janitor EXCEPT ![j] = r] BY DEF Writes
<1> HIDE DEF r
<1> QED BY <1>2, <1>3 DEF TypeOK

\* A job that leaves its row is idle.
LEMMA JanitorLeaves ==
  ASSUME TypeOK, NEW j \in Jobs, Leaves(j)
  PROVE  /\ janitor' \in [Jobs -> JobState]
         /\ janitor'[j].at = "idle"
         /\ \A i \in Jobs \ {j} : janitor'[i] = janitor[i]
BY DEF TypeOK, Leaves, JobState, NoJob, Statuses

\* The two bounded counters.
LEMMA Counting ==
  /\ TypeOK /\ StoreFails => faults' \in 0..MaxFaults /\ faults' > 0
  /\ TypeOK /\ crashes < MaxCrashes => crashes + 1 \in 0..MaxCrashes
BY SizeAssumption DEF TypeOK, StoreFails

\* A file that gets into a harm's history.
LEMMA HarmAdded ==
  ASSUME TypeOK, NEW h \in Harms, NEW a \in Artifacts,
         orphaned' = [orphaned EXCEPT ![h] = @ \cup {a}]
  PROVE  /\ orphaned' \in [Harms -> SUBSET Artifacts]
         /\ orphaned'[h] = orphaned[h] \cup {a}
         /\ \A g \in Harms \ {h} : orphaned'[g] = orphaned[g]
BY DEF TypeOK

-----------------------------------------------------------------------------
(* What a step leaves alone.                                               *)

SameFile(b) ==
  /\ row'[b] = row[b] /\ reservation'[b] = reservation[b] /\ upload'[b] = upload[b]
  /\ b \in dataset' <=> b \in dataset
  /\ <<b, "tmp">> \in object' <=> <<b, "tmp">> \in object
  /\ <<b, "final">> \in object' <=> <<b, "final">> \in object

\* Harm is not forgotten, failures are counted up.
HistoryKept == /\ faults \in Nat /\ faults' \in Nat /\ faults <= faults'
               /\ orphaned["early"] \subseteq orphaned'["early"]
               /\ orphaned["cut"] \subseteq orphaned'["cut"]

\* No step of a file undoes what a deletion or a job relies on.
Onward(a) ==
  /\ row[a].status # "absent" => row'[a].status # "absent"
  /\ upload'[a].kind = upload[a].kind
  /\ upload[a].at \in Ended => upload'[a].at = upload[a].at
  /\ Past(a) => Past(a)'
  /\ a \in dataset' => a \in dataset \/ At(a, "read")
  /\ Wanted(a)' => Wanted(a) \/ ~Past(a)

\* A file is usable at most once, under ArtifactPromise.
Lasts(a) ==
  /\ Usable(a)' => Usable(a) \/ row[a].status \in {"absent", "pending"}
  /\ row'[a].status \in {"absent", "pending"} => row[a].status \in {"absent", "pending"}

\* The lock of its project is held for the file, by its transaction.
Holds(a)   == At(a, "reserved") \/ (~Durable(a) /\ upload[a].at \in {"put", "moved", "failing"})
Charged(a) == Holds(a) \/ row[a].status = "available" \/ reservation[a] = "active"

\* The step takes no lock and charges no quota.
Lighter(a) == /\ upload'[a].project = upload[a].project
              /\ Holds(a)' => Holds(a)
              /\ Timely /\ Charged(a)' => Charged(a)

\* The step concerns no file but this one.
OnlyChanges(a) == \A b \in Artifacts \ {a} : SameFile(b)

Moves(a) == OnlyChanges(a) /\ Lighter(a) /\ (Timely => Lasts(a))

\* A file that is left alone goes on.
LEMMA SameFileGoesOn ==
  ASSUME NEW b \in Artifacts, SameFile(b)
  PROVE  Onward(b)
BY DEF SameFile, Onward, Past, Wanted

\* What IInv says of a file that is left alone stays true.
LEMMA FileStays ==
  ASSUME IInv, NEW b \in Artifacts, SameFile(b), HistoryKept,
         BeingRemoved(b) => BeingRemoved(b)' \/ b \in orphaned'["cut"],
         Taken(b) => Taken(b)'
  PROVE  FileInv(b)'
<1> USE DEF IInv, FileInv, SameFile, Durable, InFlight, Past, Wanted, At
<1>1. RowFollows(b)'
  BY DEF RowFollows
<1>2. KeepsObject(b)'
  BY DEF KeepsObject, HistoryKept, RowFollows, Usable
<1>3. Timely => RowInTime(b)'
  BY DEF RowInTime, HistoryKept
<1>4. Timely => KeepsFile(b)'
  BY DEF KeepsFile, RowFollows, Usable, HistoryKept, TypeOK, RowState
<1> QED BY <1>1, <1>2, <1>3, <1>4

\* So does what it says of a job that is left alone.
LEMMA JobStays ==
  ASSUME IInv, NEW j \in Jobs, janitor'[j] = janitor[j],
         \A a \in Artifacts : Onward(a) /\ (Taken(a) => Taken(a)')
  PROVE  JobInv(j)'
<1> DEFINE a == janitor[j].artifact
<1>1. CASE janitor[j].at = "idle"
  BY <1>1 DEF JobInv
<1>2. CASE janitor[j].at # "idle"
  <2>1. JobWorks(j) /\ a \in Artifacts /\ (Timely => JobInTime(j)) BY <1>2 DEF IInv, JobInv, JobWorks
  <2>2. JobWorks(j)' BY <2>1 DEF JobWorks, Onward
  <2>3. Timely => JobInTime(j)' BY <2>1 DEF JobInTime, Onward, Ended, At
  <2> QED BY <2>2, <2>3 DEF JobInv
<1> QED BY <1>1, <1>2

\* And of a deletion.
LEMMA DeletionStays ==
  ASSUME IInv, UNCHANGED deletion, HistoryKept, \A a \in Artifacts : Onward(a)
  PROVE  DeletionInv'
<1> DEFINE a == deletion.artifact
<1>1. CASE deletion.at = "idle"
  BY <1>1 DEF DeletionInv
<1>2. CASE deletion.at # "idle"
  BY <1>2 DEF IInv, DeletionInv, Onward, HistoryKept, Ended, At, TypeOK
<1> QED BY <1>1, <1>2

\* A step of one file that leaves deletion and jobs alone keeps IInv when it
\* keeps what IInv says of the file.
LEMMA FileStep ==
  ASSUME IInv, NEW a \in Artifacts, TypeOK', FileInv(a)', Onward(a),
         UNCHANGED <<deletion, janitor>>, HistoryKept,
         \A b \in Artifacts \ {a} : SameFile(b)
  PROVE  IInv'
<1>1. \A b \in Artifacts : /\ BeingRemoved(b) => BeingRemoved(b)'
                           /\ Taken(b) => Taken(b)'
  BY DEF BeingRemoved, Taken, HistoryKept
<1>2. \A b \in Artifacts : Onward(b)
  BY SameFileGoesOn
<1>3. \A b \in Artifacts \ {a} : FileInv(b)'
  BY <1>1, FileStays
<1>4. \A j \in Jobs : JobInv(j)'
  BY <1>1, <1>2, JobStays
<1>5. DeletionInv'
  BY <1>2, DeletionStays
<1> QED BY <1>3, <1>4, <1>5 DEF IInv

-----------------------------------------------------------------------------
(* Uploads.                                                                *)

\* A reservation concerns the position of its upload only.
LEMMA ReserveStep ==
  ASSUME IInv, NEW a \in Artifacts, Reserve(a)
  PROVE  /\ IInv' /\ OnlyChanges(a) /\ (Timely => Lasts(a))
         /\ upload'[a].project = upload[a].project
<1> USE DEF At, Durable, InFlight, Past, Wanted
<1>1. /\ At(a, "new") /\ TypeOK /\ FileInv(a)
      /\ UNCHANGED <<row, reservation, object, dataset, deletion, janitor, faults, crashes, orphaned>>
  BY DEF Reserve, IInv
<1>2. /\ upload' \in [Artifacts -> UploadState] /\ upload'[a].at = "reserved"
      /\ upload'[a].kind = upload[a].kind /\ upload'[a].project = upload[a].project
      /\ \A b \in Artifacts \ {a} : upload'[b] = upload[b]
  BY <1>1, UploadGoes DEF Reserve, Steps
<1>3. TypeOK' /\ HistoryKept
  BY <1>1, <1>2 DEF TypeOK, HistoryKept
<1>4. \A b \in Artifacts \ {a} : SameFile(b)
  BY <1>1, <1>2 DEF SameFile
<1>5. Onward(a)
  BY <1>1, <1>2 DEF Onward, Ended, FileInv, RowFollows
<1>6. FileInv(a)'
  BY <1>1, <1>2 DEF FileInv, RowFollows, RowInTime, KeepsObject, KeepsFile, Waiting
<1>7. Timely => Lasts(a)
  BY <1>1, <1>2 DEF Lasts, Usable
<1> QED BY <1>1, <1>2, <1>3, <1>4, <1>5, <1>6, <1>7, FileStep DEF OnlyChanges

\* The row becomes pending, its reservation counts.
LEMMA CommitPendingStep ==
  ASSUME IInv, NEW a \in Artifacts, CommitPending(a)
  PROVE  IInv' /\ Moves(a)
<1> USE DEF At, Durable, InFlight, Past, Wanted
<1>1. /\ At(a, "reserved") /\ Durable(a) /\ TypeOK /\ FileInv(a)
      /\ UNCHANGED <<object, dataset, deletion, janitor, faults, crashes, orphaned>>
  BY DEF CommitPending, IInv
<1>2. /\ upload' \in [Artifacts -> UploadState] /\ upload'[a].at = "pending"
      /\ upload'[a].kind = upload[a].kind /\ upload'[a].project = upload[a].project
      /\ \A b \in Artifacts \ {a} : upload'[b] = upload[b]
  BY <1>1, UploadGoes DEF CommitPending, Steps
<1>3. /\ row' \in [Artifacts -> RowState]
      /\ row'[a].status = "pending" /\ row'[a].key = row[a].key
      /\ row'[a].stale = row[a].stale /\ row'[a].expired = row[a].expired
      /\ \A b \in Artifacts \ {a} : row'[b] = row[b]
  BY <1>1, RowBecomes DEF CommitPending, Statuses
<1>4. /\ reservation' \in [Artifacts -> Reservations] /\ reservation'[a] = "active"
      /\ \A b \in Artifacts \ {a} : reservation'[b] = reservation[b]
  BY <1>1, ReservationBecomes DEF CommitPending, Reservations
<1>5. TypeOK' /\ HistoryKept
  BY <1>1, <1>2, <1>3, <1>4 DEF TypeOK, HistoryKept, Reservations
<1>6. \A b \in Artifacts \ {a} : SameFile(b)
  BY <1>1, <1>2, <1>3, <1>4 DEF SameFile
<1>7. Onward(a)
  BY <1>1, <1>2, <1>3 DEF Onward, Ended
<1>8. FileInv(a)'
  <2>1. row[a].key = "tmp" /\ row[a].expired = FALSE
    BY <1>1 DEF FileInv, RowFollows, TypeOK, RowState
  <2> QED BY <1>1, <1>2, <1>3, <1>4, <2>1
          DEF FileInv, RowFollows, RowInTime, KeepsObject, KeepsFile, Waiting
<1>9. Lighter(a) /\ (Timely => Lasts(a))
  BY <1>1, <1>2, <1>3, <1>4 DEF Lighter, Lasts, Usable, Holds, Charged, FileInv, RowFollows, RowInTime, Waiting
<1> QED BY <1>1, <1>5, <1>6, <1>7, <1>8, <1>9, FileStep DEF Moves, OnlyChanges

\* The temporary object is there, or the publication is going to fail.
LEMMA PutStep ==
  ASSUME IInv, NEW a \in Artifacts, Put(a)
  PROVE  IInv' /\ Moves(a)
<1> USE DEF At, Durable, InFlight, Past, Wanted
<1>1. /\ At(a, IF Durable(a) THEN "pending" ELSE "reserved") /\ TypeOK /\ FileInv(a)
      /\ UNCHANGED <<row, reservation, dataset, deletion, janitor, crashes, orphaned>>
  BY DEF Put, IInv
<1>2. /\ upload' \in [Artifacts -> UploadState]
      /\ upload'[a].kind = upload[a].kind /\ upload'[a].project = upload[a].project
      /\ \A b \in Artifacts \ {a} : upload'[b] = upload[b]
      /\ \/ object' = object \cup {<<a, "tmp">>} /\ upload'[a].at = "put" /\ faults' = faults
         \/ object' = object /\ upload'[a].at = "failing" /\ faults' \in 0..MaxFaults /\ faults' = faults + 1
  BY <1>1, UploadGoes, Counting DEF Put, Steps, StoreWorks, StoreFails
<1>3. TypeOK' /\ HistoryKept
  BY <1>1, <1>2 DEF TypeOK, HistoryKept, Keys
<1>4. \A b \in Artifacts \ {a} : SameFile(b)
  BY <1>1, <1>2 DEF SameFile
<1>5. Onward(a)
  BY <1>1, <1>2 DEF Onward, Ended, FileInv, RowFollows
<1>6. FileInv(a)'
  BY <1>1, <1>2 DEF FileInv, RowFollows, RowInTime, KeepsObject, KeepsFile, Waiting, TypeOK
<1>7. Lighter(a) /\ (Timely => Lasts(a))
  BY <1>1, <1>2, <1>3, <1>4 DEF Lighter, Lasts, Usable, Holds, Charged, FileInv, RowFollows, RowInTime, Waiting
<1> QED BY <1>1, <1>3, <1>4, <1>5, <1>6, <1>7, FileStep DEF Moves, OnlyChanges

\* The object has its final key, or the publication is going to fail.
LEMMA MoveStep ==
  ASSUME IInv, NEW a \in Artifacts, Move(a)
  PROVE  IInv' /\ Moves(a)
<1> USE DEF At, Durable, InFlight, Past, Wanted
<1>1. /\ At(a, "put") /\ TypeOK /\ FileInv(a)
      /\ UNCHANGED <<row, reservation, dataset, deletion, janitor, crashes, orphaned>>
  BY DEF Move, IInv
<1>2. /\ upload' \in [Artifacts -> UploadState]
      /\ upload'[a].kind = upload[a].kind /\ upload'[a].project = upload[a].project
      /\ \A b \in Artifacts \ {a} : upload'[b] = upload[b]
      /\ \/ upload'[a].at = "moved" /\ faults' = faults /\ <<a, "final">> \in object'
         \/ upload'[a].at = "failing" /\ faults' = faults /\ <<a, "tmp">> \notin object
         \/ upload'[a].at = "failing" /\ faults' \in 0..MaxFaults /\ faults' = faults + 1
  BY <1>1, UploadGoes, Counting DEF Move, Steps, StoreWorks, StoreFails
<1>3. object' \ {<<a, "tmp">>, <<a, "final">>} = object \ {<<a, "tmp">>, <<a, "final">>}
  BY DEF Move
<1>4. TypeOK' /\ HistoryKept
  <2>1. object' \subseteq Keys
    BY <1>1, <1>3 DEF TypeOK, Keys
  <2> QED BY <1>1, <1>2, <2>1 DEF TypeOK, HistoryKept
<1>5. \A b \in Artifacts \ {a} : SameFile(b)
  BY <1>1, <1>2, <1>3 DEF SameFile
<1>6. Onward(a)
  BY <1>1, <1>2 DEF Onward, Ended, FileInv, RowFollows
<1>7. FileInv(a)'
  BY <1>1, <1>2 DEF FileInv, RowFollows, RowInTime, KeepsObject, KeepsFile, Waiting, TypeOK
<1>8. Lighter(a) /\ (Timely => Lasts(a))
  BY <1>1, <1>2, <1>3, <1>4 DEF Lighter, Lasts, Usable, Holds, Charged, FileInv, RowFollows, RowInTime, Waiting
<1> QED BY <1>1, <1>4, <1>5, <1>6, <1>7, <1>8, FileStep DEF Moves, OnlyChanges

\* The row becomes available after its object has its final key.
LEMMA CommitPublishedStep ==
  ASSUME IInv, NEW a \in Artifacts, CommitPublished(a)
  PROVE  IInv' /\ Moves(a)
<1> USE DEF At, Durable, InFlight, Past, Wanted
<1>1. /\ At(a, "moved") /\ TypeOK /\ FileInv(a)
      /\ UNCHANGED <<object, dataset, deletion, janitor, faults, crashes, orphaned>>
  BY DEF CommitPublished, Ready, IInv
<1>2. /\ upload' \in [Artifacts -> UploadState]
      /\ upload'[a].at \in {"published", "done"}
      /\ upload'[a].at = "published" => upload[a].kind = "dataset"
      /\ upload'[a].kind = upload[a].kind /\ upload'[a].project = upload[a].project
      /\ \A b \in Artifacts \ {a} : upload'[b] = upload[b]
  <2>1. CASE upload[a].kind = "dataset"
    BY <1>1, <2>1, UploadGoes DEF CommitPublished, Steps
  <2>2. CASE upload[a].kind # "dataset"
    BY <1>1, <2>2, UploadGoes DEF CommitPublished, Steps
  <2> QED BY <2>1, <2>2
<1>3. /\ row' \in [Artifacts -> RowState]
      /\ row'[a].status = "available" /\ row'[a].key = "final"
      /\ row'[a].stale = row[a].stale /\ row'[a].expired = row[a].expired
      /\ \A b \in Artifacts \ {a} : row'[b] = row[b]
      /\ reservation' \in [Artifacts -> Reservations] /\ reservation'[a] = "released"
      /\ \A b \in Artifacts \ {a} : reservation'[b] = reservation[b]
  BY <1>1, RowPublished DEF CommitPublished
<1>4. TypeOK' /\ HistoryKept
  BY <1>1, <1>2, <1>3 DEF TypeOK, HistoryKept, Reservations
<1>5. \A b \in Artifacts \ {a} : SameFile(b)
  BY <1>1, <1>2, <1>3 DEF SameFile
<1>6. Onward(a)
  BY <1>1, <1>2, <1>3 DEF Onward, Ended
<1>7. FileInv(a)'
  BY <1>1, <1>2, <1>3 DEF FileInv, RowFollows, RowInTime, KeepsObject, KeepsFile, Waiting, Usable
<1>8. Lighter(a) /\ (Timely => Lasts(a))
  BY <1>1, <1>2, <1>3, <1>4 DEF Lighter, Lasts, Usable, Holds, Charged, FileInv, RowFollows, RowInTime, Waiting
<1> QED BY <1>1, <1>4, <1>5, <1>6, <1>7, <1>8, FileStep DEF Moves, OnlyChanges

\* A failed publication leaves a failed row.
LEMMA PublishFailsStep ==
  ASSUME IInv, NEW a \in Artifacts, PublishFails(a)
  PROVE  IInv' /\ Moves(a)
<1> USE DEF At, Durable, InFlight, Past, Wanted
<1>1. /\ At(a, "failing") /\ TypeOK /\ FileInv(a)
      /\ UNCHANGED <<dataset, deletion, janitor, crashes>>
  BY DEF PublishFails, IInv
<1>2. /\ upload' \in [Artifacts -> UploadState] /\ upload'[a].at = "failed"
      /\ upload'[a].kind = upload[a].kind /\ upload'[a].project = upload[a].project
      /\ \A b \in Artifacts \ {a} : upload'[b] = upload[b]
  BY <1>1, UploadGoes DEF PublishFails, Steps
<1>3. /\ row' \in [Artifacts -> RowState]
      /\ row'[a].status = "failed" /\ row'[a].key = row[a].key
      /\ row'[a].stale = row[a].stale /\ row'[a].expired = row[a].expired
      /\ \A b \in Artifacts \ {a} : row'[b] = row[b]
  BY <1>1, RowBecomes DEF PublishFails, Statuses
<1>4. /\ reservation' \in [Artifacts -> Reservations]
      /\ \A b \in Artifacts \ {a} : reservation'[b] = reservation[b]
  BY <1>1, ReservationBecomes DEF PublishFails, Reservations
<1>5. /\ orphaned' \in [Harms -> SUBSET Artifacts]
      /\ orphaned'["early"] = orphaned["early"] /\ orphaned'["cut"] = orphaned["cut"]
      /\ faults' \in 0..MaxFaults /\ faults <= faults'
  <2>1. CASE UNCHANGED <<faults, orphaned>>
    BY <1>1, <2>1 DEF TypeOK
  <2>2. CASE StoreFails /\ orphaned' = [orphaned EXCEPT !["missed"] = @ \cup {a}]
    BY <1>1, <2>2, Counting, HarmAdded DEF StoreFails, TypeOK, Harms
  <2> QED BY <2>1, <2>2 DEF PublishFails, StoreWorks
<1>6. object' \ {<<a, "tmp">>, <<a, "final">>} = object \ {<<a, "tmp">>, <<a, "final">>}
  BY DEF PublishFails
<1>7. TypeOK' /\ HistoryKept
  <2>1. object' \subseteq Keys
    BY <1>1, <1>6 DEF TypeOK, Keys
  <2> QED BY <1>1, <1>2, <1>3, <1>4, <1>5, <2>1 DEF TypeOK, HistoryKept, Reservations
<1>8. \A b \in Artifacts \ {a} : SameFile(b)
  BY <1>1, <1>2, <1>3, <1>4, <1>6 DEF SameFile
<1>9. Onward(a)
  BY <1>1, <1>2, <1>3 DEF Onward, Ended
<1>10. FileInv(a)'
  <2>1. Timely /\ Durable(a) => faults' > 0
    BY <1>1, <1>5, <1>7 DEF FileInv, RowInTime, HistoryKept
  <2> QED BY <1>1, <1>2, <1>3, <1>7, <2>1
          DEF FileInv, RowFollows, RowInTime, KeepsObject, KeepsFile, Waiting
<1>11. Lighter(a) /\ (Timely => Lasts(a))
  BY <1>1, <1>2, <1>3, <1>4 DEF Lighter, Lasts, Usable, Holds, Charged, FileInv, RowFollows, RowInTime, Waiting
<1> QED BY <1>1, <1>7, <1>8, <1>9, <1>10, <1>11, FileStep DEF Moves, OnlyChanges

\* A dead upload leaves row and object as they are.
LEMMA UploadDiesStep ==
  ASSUME IInv, NEW a \in Artifacts, UploadDies(a)
  PROVE  IInv' /\ Moves(a)
<1> USE DEF At, Durable, InFlight, Past, Wanted
<1>1. /\ upload[a].at \notin {"new", "done", "failed", "rejected", "dead"}
      /\ TypeOK /\ FileInv(a) /\ crashes' \in 0..MaxCrashes
      /\ UNCHANGED <<row, reservation, object, dataset, deletion, janitor, faults, orphaned>>
  BY Counting DEF UploadDies, IInv
<1>2. /\ upload' \in [Artifacts -> UploadState] /\ upload'[a].at = "dead"
      /\ upload'[a].kind = upload[a].kind /\ upload'[a].project = upload[a].project
      /\ \A b \in Artifacts \ {a} : upload'[b] = upload[b]
  BY <1>1, UploadGoes DEF UploadDies, Steps
<1>3. TypeOK' /\ HistoryKept
  BY <1>1, <1>2 DEF TypeOK, HistoryKept
<1>4. \A b \in Artifacts \ {a} : SameFile(b)
  BY <1>1, <1>2 DEF SameFile
<1>5. Onward(a)
  BY <1>1, <1>2 DEF Onward, Ended
<1>6. FileInv(a)'
  BY <1>1, <1>2 DEF FileInv, RowFollows, RowInTime, KeepsObject, KeepsFile, Usable, BeingRemoved, Waiting
<1>7. Lighter(a) /\ (Timely => Lasts(a))
  BY <1>1, <1>2, <1>3, <1>4 DEF Lighter, Lasts, Usable, Holds, Charged, FileInv, RowFollows, RowInTime, Waiting
<1> QED BY <1>1, <1>3, <1>4, <1>5, <1>6, <1>7, FileStep DEF Moves, OnlyChanges

\* A dataset is read from its file, or its file is deleted again.
LEMMA ReadDatasetStep ==
  ASSUME IInv, NEW a \in Artifacts, ReadDataset(a)
  PROVE  IInv' /\ Moves(a)
<1> USE DEF At, Durable, InFlight, Past, Wanted
<1>1. /\ At(a, "published") /\ TypeOK /\ FileInv(a)
      /\ UNCHANGED <<reservation, dataset, deletion, janitor, faults, crashes, orphaned>>
  BY DEF ReadDataset, IInv
<1>2. /\ upload' \in [Artifacts -> UploadState] /\ upload'[a].at \in {"read", "rejected"}
      /\ upload'[a].kind = upload[a].kind /\ upload'[a].project = upload[a].project
      /\ \A b \in Artifacts \ {a} : upload'[b] = upload[b]
  BY <1>1, UploadGoes DEF ReadDataset, Steps
<1>3. /\ row' \in [Artifacts -> RowState]
      /\ \/ row' = row /\ upload'[a].at = "read" /\ object' = object
         \/ row'[a].status = "deleted" /\ upload'[a].at = "rejected"
      /\ row'[a].key = row[a].key
      /\ row'[a].stale = row[a].stale /\ row'[a].expired = row[a].expired
      /\ \A b \in Artifacts \ {a} : row'[b] = row[b]
  <2>1. CASE Goes(a, "read") /\ UNCHANGED <<row, object>>
    BY <1>1, <2>1, UploadGoes DEF TypeOK, Steps
  <2>2. CASE Becomes(a, "deleted") /\ Goes(a, "rejected")
    BY <1>1, <2>2, RowBecomes, UploadGoes DEF Statuses, Steps
  <2> QED BY <2>1, <2>2 DEF ReadDataset
<1>4. object' \subseteq object /\ object \ object' \subseteq {<<a, "final">>}
  BY DEF ReadDataset
<1>5. TypeOK' /\ HistoryKept
  BY <1>1, <1>2, <1>3, <1>4 DEF TypeOK, HistoryKept
<1>6. \A b \in Artifacts \ {a} : SameFile(b)
  BY <1>1, <1>2, <1>3, <1>4 DEF SameFile
<1>7. Onward(a)
  BY <1>1, <1>2, <1>3 DEF Onward, Ended
<1>8. FileInv(a)'
  BY <1>1, <1>2, <1>3 DEF FileInv, RowFollows, RowInTime, KeepsObject, KeepsFile, Usable, BeingRemoved, Taken, Waiting
<1>9. Lighter(a) /\ (Timely => Lasts(a))
  BY <1>1, <1>2, <1>3, <1>4 DEF Lighter, Lasts, Usable, Holds, Charged, FileInv, RowFollows, RowInTime, Waiting
<1> QED BY <1>1, <1>5, <1>6, <1>7, <1>8, <1>9, FileStep DEF Moves, OnlyChanges

\* A dataset is inserted after its file was read.
LEMMA InsertDatasetStep ==
  ASSUME IInv, NEW a \in Artifacts, InsertDataset(a)
  PROVE  IInv' /\ Moves(a)
<1> USE DEF At, Durable, InFlight, Past, Wanted
<1>1. /\ At(a, "read") /\ TypeOK /\ FileInv(a) /\ dataset' = dataset \cup {a}
      /\ UNCHANGED <<row, reservation, object, deletion, janitor, faults, crashes, orphaned>>
  BY DEF InsertDataset, IInv
<1>2. /\ upload' \in [Artifacts -> UploadState] /\ upload'[a].at = "done"
      /\ upload'[a].kind = upload[a].kind /\ upload'[a].project = upload[a].project
      /\ \A b \in Artifacts \ {a} : upload'[b] = upload[b]
  BY <1>1, UploadGoes DEF InsertDataset, Steps
<1>3. TypeOK' /\ HistoryKept
  BY <1>1, <1>2 DEF TypeOK, HistoryKept
<1>4. \A b \in Artifacts \ {a} : SameFile(b)
  BY <1>1, <1>2 DEF SameFile
<1>5. Onward(a)
  BY <1>1, <1>2 DEF Onward, Ended
<1>6. FileInv(a)'
  BY <1>1, <1>2 DEF FileInv, RowFollows, RowInTime, KeepsObject, KeepsFile, Usable, BeingRemoved, Taken, Waiting
<1>7. Lighter(a) /\ (Timely => Lasts(a))
  BY <1>1, <1>2, <1>3, <1>4 DEF Lighter, Lasts, Usable, Holds, Charged, FileInv, RowFollows, RowInTime, Waiting
<1> QED BY <1>1, <1>3, <1>4, <1>5, <1>6, <1>7, FileStep DEF Moves, OnlyChanges

-----------------------------------------------------------------------------
(* Time, and what is removed without a row.                                *)

\* No swept object is named by a row, no expired reservation was counted.
LEMMA SweepStep ==
  ASSUME IInv, NEW a \in Artifacts, Sweep(a)
  PROVE  IInv' /\ Moves(a)
<1> USE DEF At, Durable, InFlight, Past, Wanted
<1>1. /\ TypeOK /\ FileInv(a)
      /\ UNCHANGED <<row, dataset, upload, deletion, janitor, faults, crashes, orphaned>>
  BY DEF Sweep, SweepTemporary, ExpireReservation, IInv
<1>2. /\ reservation' \in [Artifacts -> Reservations]
      /\ \A b \in Artifacts \ {a} : reservation'[b] = reservation[b]
      /\ reservation[a] # "lapsed" => reservation'[a] = reservation[a]
      /\ reservation[a] = "lapsed" => reservation'[a] \in {"lapsed", "expired"}
  BY <1>1, ReservationBecomes DEF Sweep, SweepTemporary, ExpireReservation, TypeOK, Reservations
<1>3. /\ object' \subseteq object /\ object \ object' \subseteq {<<a, "tmp">>}
      /\ object' # object => ~Referenced(a)
  BY DEF Sweep, SweepTemporary, ExpireReservation
<1>4. TypeOK' /\ HistoryKept
  BY <1>1, <1>2, <1>3 DEF TypeOK, HistoryKept, Reservations
<1>5. \A b \in Artifacts \ {a} : SameFile(b)
  BY <1>1, <1>2, <1>3 DEF SameFile
<1>6. Onward(a)
  BY <1>1 DEF Onward
<1>7. FileInv(a)'
  <2>1. <<a, "final">> \in object' <=> <<a, "final">> \in object
    BY <1>3
  <2>2. RowFollows(a)'
    BY <1>1, <2>1 DEF FileInv, RowFollows
  <2>3. /\ KeepsObject(a)'
        /\ Timely => KeepsFile(a)'
    BY <1>1, <2>1 DEF FileInv, RowFollows, KeepsObject, KeepsFile, Usable, BeingRemoved, Taken, TypeOK, RowState
  <2>4. Timely => RowInTime(a)'
    BY <1>1, <1>2, <1>3 DEF FileInv, RowInTime, Referenced
  <2> QED BY <2>2, <2>3, <2>4 DEF FileInv
<1>8. Lighter(a) /\ (Timely => Lasts(a))
  BY <1>1, <1>2, <1>3, <1>4 DEF Lighter, Lasts, Usable, Holds, Charged, FileInv, RowFollows, RowInTime, Waiting
<1> QED BY <1>1, <1>4, <1>5, <1>6, <1>7, <1>8, FileStep DEF Moves, OnlyChanges

\* The time of an upload passes, in time only when it is over.
LEMMA LapseStep ==
  ASSUME IInv, NEW a \in Artifacts, Lapse(a)
  PROVE  IInv' /\ Moves(a)
<1> USE DEF At, Durable, InFlight, Past, Wanted
<1>1. /\ TypeOK /\ FileInv(a) /\ (Timely => ~InProgress(a))
      /\ row[a].status = "pending" \/ reservation[a] = "active"
      /\ UNCHANGED <<object, dataset, upload, deletion, janitor, faults, crashes, orphaned>>
  BY DEF Lapse, IInv
<1>2. /\ row' \in [Artifacts -> RowState]
      /\ row'[a].status = row[a].status /\ row'[a].key = row[a].key
      /\ row'[a].expired = row[a].expired
      /\ \A b \in Artifacts \ {a} : row'[b] = row[b]
  <2> DEFINE r == [row[a] EXCEPT !.stale = TRUE]
  <2>1. row[a] \in RowState BY <1>1 DEF TypeOK
  <2>2. /\ r \in RowState /\ r.status = row[a].status
        /\ r.key = row[a].key /\ r.expired = row[a].expired
    BY <2>1 DEF RowState
  <2>3. row' = [row EXCEPT ![a] = r] BY DEF Lapse
  <2> HIDE DEF r
  <2> QED BY <1>1, <2>2, <2>3 DEF TypeOK
<1>3. /\ reservation' \in [Artifacts -> Reservations]
      /\ \A b \in Artifacts \ {a} : reservation'[b] = reservation[b]
      /\ reservation'[a] = "active" => reservation[a] = "active"
  BY <1>1 DEF Lapse, TypeOK, Reservations
<1>4. TypeOK' /\ HistoryKept
  BY <1>1, <1>2, <1>3 DEF TypeOK, HistoryKept, Reservations
<1>5. \A b \in Artifacts \ {a} : SameFile(b)
  BY <1>1, <1>2, <1>3 DEF SameFile
<1>6. Onward(a)
  BY <1>1, <1>2 DEF Onward
<1>7. FileInv(a)'
  <2>1. RowFollows(a)'
    BY <1>1, <1>2 DEF FileInv, RowFollows
  <2>2. KeepsObject(a)' /\ (Timely => KeepsFile(a)')
    BY <1>1, <1>2 DEF FileInv, RowFollows, KeepsObject, KeepsFile, Usable, BeingRemoved, Taken
  <2>3. Timely => RowInTime(a)'
    BY <1>1, <1>2 DEF FileInv, RowFollows, RowInTime, InProgress, Waiting
  <2> QED BY <2>1, <2>2, <2>3 DEF FileInv
<1>8. Lighter(a) /\ (Timely => Lasts(a))
  BY <1>1, <1>2, <1>3, <1>4 DEF Lighter, Lasts, Usable, Holds, Charged, FileInv, RowFollows, RowInTime, Waiting
<1> QED BY <1>1, <1>4, <1>5, <1>6, <1>7, <1>8, FileStep DEF Moves, OnlyChanges

\* Only an output of a run expires.
LEMMA ExpiresStep ==
  ASSUME IInv, NEW a \in Artifacts, Expires(a)
  PROVE  IInv' /\ Moves(a)
<1> USE DEF At, Durable, InFlight, Past, Wanted
<1>1. /\ TypeOK /\ FileInv(a) /\ upload[a].kind = "run"
      /\ UNCHANGED <<reservation, object, dataset, upload, deletion, janitor, faults, crashes, orphaned>>
  BY DEF Expires, IInv
<1>2. /\ row' \in [Artifacts -> RowState]
      /\ row'[a].status = row[a].status /\ row'[a].key = row[a].key
      /\ row'[a].stale = row[a].stale
      /\ \A b \in Artifacts \ {a} : row'[b] = row[b]
  <2> DEFINE r == [row[a] EXCEPT !.expired = TRUE]
  <2>1. row[a] \in RowState BY <1>1 DEF TypeOK
  <2>2. /\ r \in RowState /\ r.status = row[a].status
        /\ r.key = row[a].key /\ r.stale = row[a].stale
    BY <2>1 DEF RowState
  <2>3. row' = [row EXCEPT ![a] = r] BY DEF Expires
  <2> HIDE DEF r
  <2> QED BY <1>1, <2>2, <2>3 DEF TypeOK
<1>3. TypeOK' /\ HistoryKept
  BY <1>1, <1>2 DEF TypeOK, HistoryKept
<1>4. \A b \in Artifacts \ {a} : SameFile(b)
  BY <1>1, <1>2 DEF SameFile
<1>5. Onward(a)
  BY <1>1, <1>2 DEF Onward
<1>6. FileInv(a)'
  <2>1. RowFollows(a)'
    BY <1>1, <1>2 DEF FileInv, RowFollows
  <2>2. KeepsObject(a)' /\ (Timely => KeepsFile(a)')
    BY <1>1, <1>2 DEF FileInv, RowFollows, KeepsObject, KeepsFile, Usable, BeingRemoved, Taken
  <2>3. Timely => RowInTime(a)'
    BY <1>1, <1>2 DEF FileInv, RowFollows, RowInTime
  <2> QED BY <2>1, <2>2, <2>3 DEF FileInv
<1>7. Lighter(a) /\ (Timely => Lasts(a))
  BY <1>1, <1>2, <1>3, <1>4 DEF Lighter, Lasts, Usable, Holds, Charged, FileInv, RowFollows, RowInTime, Waiting
<1> QED BY <1>1, <1>3, <1>4, <1>5, <1>6, <1>7, FileStep DEF Moves, OnlyChanges

-----------------------------------------------------------------------------
(* Deletion.                                                               *)

\* A deletion begins on an available row, early if its dataset is to come.
LEMMA CheckDeletionStep ==
  ASSUME IInv, NEW a \in Artifacts, CheckDeletion(a)
  PROVE  IInv' /\ Moves(a)
<1> USE DEF At, Durable, InFlight, Past, Wanted
<1>1. PICK of \in {"artifact", "dataset"} :
        /\ IF of = "artifact" THEN Unused(a) ELSE a \in dataset
        /\ deletion' = [at |-> "checked", artifact |-> a, of |-> of]
        /\ orphaned' = IF of = "artifact" /\ upload[a].at \in {"published", "read"}
                       THEN [orphaned EXCEPT !["early"] = @ \cup {a}] ELSE orphaned
  BY DEF CheckDeletion
<1>2. /\ deletion.at = "idle" /\ row[a].status = "available" /\ TypeOK /\ FileInv(a)
      /\ UNCHANGED <<row, reservation, object, dataset, upload, janitor, faults, crashes>>
  BY DEF CheckDeletion, IInv
<1>3. /\ orphaned' \in [Harms -> SUBSET Artifacts]
      /\ orphaned'["cut"] = orphaned["cut"] /\ orphaned["early"] \subseteq orphaned'["early"]
      /\ of = "artifact" /\ upload[a].at \in {"published", "read"} => a \in orphaned'["early"]
  BY <1>1, <1>2, HarmAdded DEF TypeOK, Harms
<1>4. TypeOK' /\ HistoryKept
  BY <1>1, <1>2, <1>3 DEF TypeOK, HistoryKept
<1>5. \A b \in Artifacts : SameFile(b) /\ Onward(b)
  BY <1>2, SameFileGoesOn DEF SameFile
<1>6. \A b \in Artifacts : (BeingRemoved(b) => BeingRemoved(b)') /\ (Taken(b) => Taken(b)')
  BY <1>1, <1>2, <1>3 DEF BeingRemoved, Taken
<1>7. \A b \in Artifacts : FileInv(b)'
  BY <1>4, <1>5, <1>6, FileStays
<1>8. \A j \in Jobs : JobInv(j)'
  BY <1>2, <1>5, <1>6, JobStays
<1>9. DeletionInv'
  BY <1>1, <1>2, <1>3 DEF DeletionInv, FileInv, RowFollows, Unused
<1>10. Lighter(a) /\ (Timely => Lasts(a))
  BY <1>1, <1>2, <1>3, <1>4 DEF Lighter, Lasts, Usable, Holds, Charged, FileInv, RowFollows, RowInTime, Waiting
<1>11. Moves(a)
  BY <1>5, <1>10 DEF Moves, OnlyChanges
<1> QED BY <1>4, <1>7, <1>8, <1>9, <1>11 DEF IInv

\* The object goes first: the file is being removed.
LEMMA DeleteObjectStep ==
  ASSUME IInv, DeleteObject
  PROVE  IInv' /\ \E a \in Artifacts : Moves(a)
<1> USE DEF At, Durable, InFlight, Past, Wanted
<1>0. PICK a \in Artifacts : a = deletion.artifact
  BY DEF DeleteObject, IInv, DeletionInv
<1>1. /\ deletion.at = "checked" /\ TypeOK /\ FileInv(a) /\ DeletionInv /\ Past(a)
      /\ UNCHANGED <<row, reservation, dataset, upload, janitor, crashes, orphaned>>
  BY <1>0 DEF DeleteObject, IInv, DeletionInv
<1>2. \/ /\ UNCHANGED faults /\ object' = object \ {<<a, "final">>}
         /\ deletion' = [deletion EXCEPT !.at = "gone"]
      \/ /\ faults' \in 0..MaxFaults /\ faults <= faults'
         /\ object' = object /\ deletion' = NoDeletion
  BY <1>0, <1>1, Counting DEF DeleteObject, StoreWorks, StoreFails, TypeOK
<1>3. TypeOK' /\ HistoryKept
  BY <1>1, <1>2 DEF TypeOK, HistoryKept, NoDeletion
<1>4. \A b \in Artifacts \ {a} : SameFile(b)
  BY <1>1, <1>2 DEF SameFile
<1>5. \A b \in Artifacts : Onward(b)
  BY <1>1 DEF Onward
<1>6. \A b \in Artifacts : (BeingRemoved(b) => BeingRemoved(b)') /\ (Taken(b) => Taken(b)')
  BY <1>0, <1>1, <1>2 DEF BeingRemoved, Taken
<1>7. \A b \in Artifacts \ {a} : FileInv(b)'
  BY <1>3, <1>4, <1>6, FileStays
<1>8. FileInv(a)'
  <2>1. CASE object' = object /\ deletion' = NoDeletion
    <3>1. SameFile(a)
      BY <1>1, <2>1 DEF SameFile
    <3> QED BY <1>1, <1>3, <1>6, <3>1, FileStays
  <2>2. CASE UNCHANGED faults /\ object' = object \ {<<a, "final">>} /\ deletion' = [deletion EXCEPT !.at = "gone"]
    <3>1. deletion'.at = "gone" /\ deletion'.artifact = a
      BY <1>0, <1>1, <2>2 DEF TypeOK
    <3>2. RowFollows(a)'
      BY <1>1, <2>2 DEF FileInv, RowFollows
    <3>3. KeepsObject(a)' /\ KeepsFile(a)'
      BY <3>1 DEF KeepsObject, BeingRemoved, KeepsFile, Taken
    <3>4. Timely => RowInTime(a)'
      BY <1>1, <2>2 DEF FileInv, RowInTime, Waiting
    <3> QED BY <3>2, <3>3, <3>4 DEF FileInv
  <2> QED BY <1>2, <2>1, <2>2
<1>9. \A j \in Jobs : JobInv(j)'
  BY <1>1, <1>5, <1>6, JobStays
<1>10. DeletionInv'
  BY <1>0, <1>1, <1>2 DEF DeletionInv, NoDeletion, TypeOK
<1>11. Lighter(a) /\ (Timely => Lasts(a))
  BY <1>1, <1>2, <1>3, <1>4 DEF Lighter, Lasts, Usable, Holds, Charged, FileInv, RowFollows, RowInTime, Waiting
<1>12. Moves(a)
  BY <1>4, <1>11 DEF Moves, OnlyChanges
<1> QED BY <1>3, <1>7, <1>8, <1>9, <1>10, <1>12 DEF IInv

\* The row follows, with the dataset it was deleted for.
LEMMA CommitDeletionStep ==
  ASSUME IInv, CommitDeletion
  PROVE  IInv' /\ \E a \in Artifacts : Moves(a)
<1> USE DEF At, Durable, InFlight, Past, Wanted
<1>0. PICK a \in Artifacts : a = deletion.artifact
  BY DEF CommitDeletion, IInv, DeletionInv
<1>1. /\ deletion.at = "gone" /\ TypeOK /\ FileInv(a) /\ DeletionInv /\ Past(a)
      /\ deletion' = NoDeletion
      /\ UNCHANGED <<reservation, object, upload, janitor, faults, crashes, orphaned>>
  BY <1>0 DEF CommitDeletion, IInv, DeletionInv
<1>2. /\ row' \in [Artifacts -> RowState]
      /\ row'[a].status = "deleted" /\ row'[a].key = row[a].key
      /\ row'[a].stale = row[a].stale /\ row'[a].expired = row[a].expired
      /\ \A b \in Artifacts \ {a} : row'[b] = row[b]
  BY <1>0, <1>1, RowBecomes DEF CommitDeletion, Statuses
<1>3. /\ dataset' \subseteq dataset /\ dataset \ dataset' \subseteq {a}
      /\ deletion.of = "dataset" => a \notin dataset'
  BY <1>0 DEF CommitDeletion
<1>4. TypeOK' /\ HistoryKept
  BY <1>1, <1>2, <1>3 DEF TypeOK, HistoryKept, NoDeletion
<1>5. \A b \in Artifacts \ {a} : SameFile(b)
  BY <1>1, <1>2, <1>3 DEF SameFile
<1>6. \A b \in Artifacts : Onward(b)
  BY <1>1, <1>2, <1>3 DEF Onward
<1>7. \A b \in Artifacts \ {a} : (BeingRemoved(b) => BeingRemoved(b)') /\ (Taken(b) => Taken(b)')
  BY <1>0, <1>1 DEF BeingRemoved, Taken
<1>8. \A b \in Artifacts \ {a} : FileInv(b)'
  BY <1>4, <1>5, <1>7, FileStays
\* Nobody wants the file any more, unless it was asked for early.
<1>9. Wanted(a)' => a \in orphaned["early"]
  <2>1. CASE deletion.of = "dataset"
    BY <1>0, <1>1, <1>3, <2>1 DEF DeletionInv
  <2>2. CASE deletion.of = "artifact"
    BY <1>0, <1>1, <1>3, <2>2 DEF DeletionInv
  <2> QED BY <1>1, <2>1, <2>2 DEF TypeOK
<1>10. FileInv(a)'
  <2>1. RowFollows(a)'
    BY <1>1, <1>2, <1>3 DEF FileInv, RowFollows, Waiting
  <2>2. KeepsObject(a)' /\ KeepsFile(a)'
    BY <1>1, <1>2, <1>9 DEF KeepsObject, KeepsFile, Taken
  <2>3. Timely => RowInTime(a)'
    BY <1>1, <1>2 DEF FileInv, RowInTime, Waiting
  <2> QED BY <2>1, <2>2, <2>3 DEF FileInv
<1>11. \A j \in Jobs : JobInv(j)'
  <2> TAKE j \in Jobs
  <2>1. CASE janitor[j].at = "idle"
    BY <1>1, <2>1 DEF JobInv
  <2>2. CASE janitor[j].at # "idle" /\ janitor[j].artifact # a
    <3>1. JobInv(j) /\ janitor[j].artifact \in Artifacts
      BY <2>2 DEF IInv, JobInv, JobWorks
    <3> QED BY <1>1, <1>6, <1>7, <2>2, <3>1 DEF JobInv, JobWorks, JobInTime, Onward
  <2>3. CASE janitor[j].at # "idle" /\ janitor[j].artifact = a
    <3>1. JobWorks(j)'
      BY <1>1, <1>2, <2>3 DEF IInv, JobInv, JobWorks
    <3>2. Timely => JobInTime(j)'
      BY <1>1, <1>9, <2>3 DEF IInv, JobInv, JobInTime, Taken
    <3> QED BY <3>1, <3>2 DEF JobInv
  <2> QED BY <2>1, <2>2, <2>3
<1>12. DeletionInv'
  BY <1>1 DEF DeletionInv, NoDeletion
<1>13. Lighter(a) /\ (Timely => Lasts(a))
  BY <1>1, <1>2, <1>3, <1>4 DEF Lighter, Lasts, Usable, Holds, Charged, FileInv, RowFollows, RowInTime, Waiting
<1>14. Moves(a)
  BY <1>5, <1>13 DEF Moves, OnlyChanges
<1> QED BY <1>4, <1>8, <1>10, <1>11, <1>12, <1>14 DEF IInv

\* A deletion that dies between the two leaves a file that was cut.
LEMMA DeletionDiesStep ==
  ASSUME IInv, DeletionDies
  PROVE  IInv' /\ \E a \in Artifacts : Moves(a)
<1>0. PICK a \in Artifacts : a = deletion.artifact
  BY DEF DeletionDies, IInv, DeletionInv
<1>1. /\ TypeOK /\ deletion' = NoDeletion /\ crashes' \in 0..MaxCrashes
      /\ UNCHANGED <<row, reservation, object, dataset, upload, janitor, faults>>
  BY Counting DEF DeletionDies, IInv, DeletionInv
<1>2. /\ orphaned' \in [Harms -> SUBSET Artifacts]
      /\ orphaned'["early"] = orphaned["early"] /\ orphaned["cut"] \subseteq orphaned'["cut"]
      /\ deletion.at = "gone" => a \in orphaned'["cut"]
  BY <1>0, <1>1, HarmAdded DEF DeletionDies, Harms, TypeOK
<1>3. TypeOK' /\ HistoryKept
  BY <1>1, <1>2 DEF TypeOK, HistoryKept, NoDeletion
<1>4. \A b \in Artifacts : SameFile(b) /\ Onward(b)
  BY <1>1, SameFileGoesOn DEF SameFile
<1>5. \A b \in Artifacts : /\ BeingRemoved(b) => BeingRemoved(b)' \/ b \in orphaned'["cut"]
                           /\ Taken(b) => Taken(b)'
  BY <1>0, <1>1, <1>2 DEF BeingRemoved, Taken
<1>6. \A b \in Artifacts : FileInv(b)'
  BY <1>3, <1>4, <1>5, FileStays
<1>7. \A j \in Jobs : JobInv(j)'
  BY <1>1, <1>4, <1>5, JobStays
<1>8. DeletionInv'
  BY <1>1 DEF DeletionInv, NoDeletion
<1>9. Lighter(a) /\ (Timely => Lasts(a))
  BY <1>1, <1>2, <1>3, <1>4 DEF Lighter, Lasts, Usable, Holds, At, Durable, Charged, FileInv, RowFollows, RowInTime, Waiting
<1>10. Moves(a)
  BY <1>4, <1>9 DEF Moves, OnlyChanges
<1> QED BY <1>3, <1>6, <1>7, <1>8, <1>10 DEF IInv

-----------------------------------------------------------------------------
(* Reconciliation and expiry.                                              *)

\* The other job is where it was.
LEMMA OtherJobsStay ==
  ASSUME IInv, NEW j \in Jobs, \A i \in Jobs \ {j} : janitor'[i] = janitor[i],
         \A a \in Artifacts : Onward(a) /\ (Taken(a) => Taken(a)')
  PROVE  \A i \in Jobs \ {j} : JobInv(i)'
BY JobStays

\* A job loads a row of a status it selects.
LEMMA LoadRowStep ==
  ASSUME IInv, NEW j \in Jobs, NEW a \in Artifacts, LoadRow(j, a)
  PROVE  IInv' /\ Moves(a)
<1> USE DEF At, Durable, InFlight, Past, Wanted
<1>1. /\ janitor[j].at = "idle" /\ WorksOn(j, row[a]) /\ TypeOK /\ FileInv(a)
      /\ UNCHANGED <<row, reservation, object, dataset, upload, deletion, faults, crashes, orphaned>>
  BY DEF LoadRow, IInv
<1>2. /\ janitor' \in [Jobs -> JobState]
      /\ janitor'[j].at = "loaded" /\ janitor'[j].artifact = a
      /\ janitor'[j].status = row[a].status
      /\ \A i \in Jobs \ {j} : janitor'[i] = janitor[i]
  <2> DEFINE r == [at |-> "loaded", artifact |-> a, status |-> row[a].status]
  <2>1. r \in JobState
    BY <1>1 DEF JobState, TypeOK, RowState
  <2>2. janitor' = [janitor EXCEPT ![j] = r] BY DEF LoadRow
  <2> QED BY <1>1, <2>1, <2>2 DEF TypeOK
<1>3. TypeOK' /\ HistoryKept
  BY <1>1, <1>2 DEF TypeOK, HistoryKept
<1>4. \A b \in Artifacts : SameFile(b) /\ Onward(b)
  BY <1>1, SameFileGoesOn DEF SameFile
<1>5. \A b \in Artifacts : (BeingRemoved(b) => BeingRemoved(b)') /\ (Taken(b) => Taken(b)')
  BY <1>1, <1>2 DEF BeingRemoved, Taken
<1>6. \A b \in Artifacts : FileInv(b)'
  BY <1>3, <1>4, <1>5, FileStays
<1>7. JobInv(j)'
  <2>1. JobWorks(j)'
    BY <1>1, <1>2 DEF JobWorks, WorksOn, StalePending, FileInv, RowFollows
  <2>2. Timely => Past(a) /\ (row[a].status = "pending" => At(a, "dead"))
    BY <1>1 DEF WorksOn, StalePending, FileInv, RowFollows, RowInTime, Waiting
  <2>3. Timely => JobInTime(j)'
    BY <1>1, <1>2, <2>2 DEF JobInTime
  <2> QED BY <2>1, <2>3 DEF JobInv
<1>8. \A i \in Jobs \ {j} : JobInv(i)'
  BY <1>2, <1>4, <1>5, OtherJobsStay
<1>9. DeletionInv'
  BY <1>1, <1>3, <1>4, DeletionStays
<1>10. Lighter(a) /\ (Timely => Lasts(a))
  BY <1>1, <1>2, <1>3, <1>4 DEF Lighter, Lasts, Usable, Holds, Charged, FileInv, RowFollows, RowInTime, Waiting
<1>11. Moves(a)
  BY <1>4, <1>10 DEF Moves, OnlyChanges
<1> QED BY <1>3, <1>6, <1>7, <1>8, <1>9, <1>11 DEF IInv

\* What Act does, whichever job it is: it leaves the row, or writes a status
\* after removing the object of that row.
LEMMA ActEffect ==
  ASSUME IInv, NEW j \in Jobs, NEW a \in Artifacts, a = janitor[j].artifact, Act(j)
  PROVE  /\ janitor[j].at = "loaded"
         /\ UNCHANGED <<row, reservation, dataset, upload, deletion, crashes>>
         /\ janitor' \in [Jobs -> JobState]
         /\ \A i \in Jobs \ {j} : janitor'[i] = janitor[i]
         /\ \/ janitor'[j].at = "idle" /\ object' = object
            \/ /\ janitor'[j].at = "acted" /\ janitor'[j].artifact = a
               /\ \/ janitor[j].status = "pending" /\ janitor'[j].status = "failed"
                     /\ object \ object' \subseteq {<<a, "tmp">>}
                  \/ janitor[j].status = "available" /\ janitor'[j].status = "failed"
                     /\ <<a, "final">> \notin object /\ object' = object
                  \/ (j = "expiry" \/ janitor[j].status = "delete_pending")
                     /\ janitor'[j].status \in {"deleted", "delete_pending"}
                     /\ object \ object' \subseteq {<<a, "final">>}
         /\ object' \subseteq object
         /\ faults' \in 0..MaxFaults /\ faults <= faults'
         /\ orphaned' \in [Harms -> SUBSET Artifacts]
         /\ orphaned'["early"] = orphaned["early"] /\ orphaned'["cut"] = orphaned["cut"]
<1>1. TypeOK
  BY DEF IInv
<1>2. /\ janitor[j].at = "loaded"
      /\ UNCHANGED <<row, reservation, dataset, upload, deletion, crashes>>
      /\ j = "reconcile" => Reconcile(a, janitor[j].status)
      /\ j # "reconcile" => j = "expiry" /\ ExpireFile(a)
  BY DEF Act, Jobs
<1>3. faults' \in 0..MaxFaults /\ faults <= faults'
  BY <1>1, <1>2, Counting DEF TypeOK, Reconcile, ExpireFile, StoreWorks, StoreFails
<1>4. /\ orphaned' \in [Harms -> SUBSET Artifacts]
      /\ orphaned'["early"] = orphaned["early"] /\ orphaned'["cut"] = orphaned["cut"]
  <2>1. orphaned' = orphaned \/ orphaned' = [orphaned EXCEPT !["missed"] = @ \cup {a}]
    BY <1>2 DEF Reconcile, ExpireFile
  <2> QED BY <1>1, <2>1, HarmAdded DEF TypeOK, Harms
<1>5. CASE Leaves(j) /\ object' = object
  BY <1>1, <1>2, <1>3, <1>4, <1>5, JanitorLeaves
<1>6. CASE Writes(j, "failed") /\ janitor[j].status = "pending" /\ object' \subseteq object
           /\ object \ object' \subseteq {<<a, "tmp">>}
  BY <1>1, <1>2, <1>3, <1>4, <1>6, JanitorWrites DEF Statuses
<1>7. CASE Writes(j, "failed") /\ janitor[j].status = "available" /\ <<a, "final">> \notin object
           /\ object' = object
  BY <1>1, <1>2, <1>3, <1>4, <1>7, JanitorWrites DEF Statuses
<1>8. ASSUME NEW s \in {"deleted", "delete_pending"}, Writes(j, s),
             j = "expiry" \/ janitor[j].status = "delete_pending",
             object' \subseteq object, object \ object' \subseteq {<<a, "final">>}
      PROVE  /\ janitor' \in [Jobs -> JobState]
             /\ janitor'[j].at = "acted" /\ janitor'[j].status = s
             /\ janitor'[j].artifact = a
             /\ \A i \in Jobs \ {j} : janitor'[i] = janitor[i]
  BY <1>1, <1>8, JanitorWrites DEF Statuses
<1>9. CASE j = "reconcile"
  BY <1>2, <1>3, <1>4, <1>5, <1>6, <1>7, <1>8, <1>9 DEF Reconcile, KeyOf
<1>10. CASE j = "expiry"
  BY <1>2, <1>3, <1>4, <1>8, <1>10 DEF ExpireFile
<1> QED BY <1>9, <1>10 DEF Jobs

\* A job that removes an object is about to write the row of the file.
LEMMA ActStep ==
  ASSUME IInv, NEW j \in Jobs, Act(j)
  PROVE  IInv' /\ \E a \in Artifacts : Moves(a)
<1> USE DEF At, Durable, InFlight, Past, Wanted
<1>0. PICK a \in Artifacts : a = janitor[j].artifact
  BY DEF Act, IInv, JobInv, JobWorks
<1>1. TypeOK /\ FileInv(a) /\ janitor[j].at = "loaded" /\ JobWorks(j) /\ (Timely => JobInTime(j))
  BY <1>0, ActEffect DEF IInv, JobInv
<1>2. /\ UNCHANGED <<row, reservation, dataset, upload, deletion, crashes>>
      /\ janitor' \in [Jobs -> JobState]
      /\ \A i \in Jobs \ {j} : janitor'[i] = janitor[i]
      /\ orphaned' \in [Harms -> SUBSET Artifacts]
      /\ orphaned'["early"] = orphaned["early"] /\ orphaned'["cut"] = orphaned["cut"]
      /\ object' \subseteq object /\ object \ object' \subseteq {<<a, "tmp">>, <<a, "final">>}
      /\ faults' \in 0..MaxFaults /\ faults <= faults'
  BY <1>0, ActEffect
<1>3. TypeOK' /\ HistoryKept
  BY <1>1, <1>2 DEF TypeOK, HistoryKept
<1>4. \A b \in Artifacts \ {a} : SameFile(b)
  BY <1>1, <1>2 DEF SameFile
<1>5. \A b \in Artifacts : Onward(b)
  BY <1>2 DEF Onward
<1>6. \A b \in Artifacts : (BeingRemoved(b) => BeingRemoved(b)') /\ (Taken(b) => Taken(b)')
  <2> TAKE b \in Artifacts
  <2>1. Taken(b) => Taken(b)'
    BY <1>2 DEF Taken
  <2>2. BeingRemoved(b) => BeingRemoved(b)'
    BY <1>1, <1>2 DEF BeingRemoved
  <2> QED BY <2>1, <2>2
<1>7. \A b \in Artifacts \ {a} : FileInv(b)'
  BY <1>3, <1>4, <1>6, FileStays
<1>8. FileInv(a)'
  <2>1. CASE object' = object
    <3>1. SameFile(a)
      BY <1>2, <2>1 DEF SameFile
    <3> QED BY <1>3, <1>6, <3>1, FileStays
  <2>2. CASE object' # object
    <3>1. /\ janitor'[j].at = "acted" /\ janitor'[j].artifact = a
          /\ \/ object \ object' \subseteq {<<a, "tmp">>} /\ janitor[j].status = "pending"
             \/ object \ object' \subseteq {<<a, "final">>} /\ janitor'[j].status \in {"deleted", "delete_pending"}
                /\ (j = "expiry" \/ janitor[j].status = "delete_pending")
      BY <1>0, <2>2, ActEffect
    <3>2. Past(a) \/ object \ object' \subseteq {<<a, "tmp">>}
      BY <1>0, <1>1, <3>1 DEF JobWorks
    <3>3. RowFollows(a)'
      BY <1>1, <1>2, <3>2, ActEffect DEF FileInv, RowFollows
    <3>4. KeepsObject(a)'
      BY <3>1 DEF KeepsObject, BeingRemoved
    <3>5. Timely => RowInTime(a)'
      BY <1>0, <1>1, <1>2, <1>3 DEF FileInv, RowInTime, JobInTime, Waiting, HistoryKept, TypeOK
    <3>6. Timely => KeepsFile(a)'
      <4>1. SUFFICES ASSUME Timely, Wanted(a)
                     PROVE  Usable(a)' \/ Taken(a)'
        BY <1>2 DEF KeepsFile
      <4>2. Usable(a) \/ Taken(a)
        BY <1>1, <4>1 DEF FileInv, KeepsFile
      <4>3. upload[a].kind # "run"
        BY <1>1, <4>1 DEF FileInv, RowFollows
      <4>4. object \ object' \subseteq {<<a, "tmp">>}
        BY <1>0, <1>1, <3>1, <4>3 DEF JobWorks
      <4>5. Usable(a) => Usable(a)'
        BY <1>1, <1>2, <4>4 DEF Usable, FileInv, RowFollows
      <4> QED BY <1>6, <4>2, <4>5
    <3> QED BY <3>3, <3>4, <3>5, <3>6 DEF FileInv
  <2> QED BY <2>1, <2>2
<1>9. JobInv(j)'
  <2>1. SUFFICES ASSUME janitor'[j].at # "idle"
                 PROVE  JobWorks(j)' /\ (Timely => JobInTime(j)')
    BY DEF JobInv
  <2>2. janitor'[j].at = "acted" /\ janitor'[j].artifact = a
    BY <1>0, <2>1, ActEffect
  <2>3. \/ janitor'[j].status = "failed"
        \/ /\ janitor'[j].status \in {"deleted", "delete_pending"}
           /\ j = "expiry" \/ janitor[j].status = "delete_pending"
    BY <1>0, <2>1, ActEffect
  <2>4. JobWorks(j)'
    BY <1>0, <1>1, <1>2, <2>2, <2>3 DEF JobWorks
  <2>5. Timely => JobInTime(j)'
    <3>1. SUFFICES ASSUME Timely, Wanted(a) PROVE Taken(a)
      BY <1>0, <1>1, <1>2, <2>2, <2>3 DEF JobInTime, Taken
    <3>2. /\ upload[a].kind # "run" /\ Past(a) /\ (Usable(a) \/ Taken(a))
          /\ janitor[j].status # "pending"
      BY <1>0, <1>1, <3>1 DEF FileInv, RowFollows, KeepsFile, JobInTime
    <3>3. janitor[j].status = "available" /\ <<a, "final">> \notin object
      BY <1>0, <1>1, <2>1, <3>2, ActEffect DEF JobWorks
    <3>4. <<a, "final">> \notin object => ~Usable(a)
      BY <1>1 DEF Usable, FileInv, RowFollows
    <3> QED BY <3>2, <3>3, <3>4
  <2> QED BY <2>4, <2>5
<1>10. \A i \in Jobs \ {j} : JobInv(i)'
  BY <1>2, <1>5, <1>6, OtherJobsStay
<1>11. DeletionInv'
  BY <1>2, <1>3, <1>5, DeletionStays
<1>12. Lighter(a) /\ (Timely => Lasts(a))
  BY <1>1, <1>2, <1>3, <1>4 DEF Lighter, Lasts, Usable, Holds, Charged, FileInv, RowFollows, RowInTime, Waiting
<1>13. Moves(a)
  BY <1>4, <1>12 DEF Moves, OnlyChanges
<1> QED BY <1>3, <1>7, <1>8, <1>9, <1>10, <1>11, <1>13 DEF IInv

\* The row the job has worked on gets its status.
LEMMA CommitRowStep ==
  ASSUME IInv, NEW j \in Jobs, CommitRow(j)
  PROVE  IInv' /\ \E a \in Artifacts : Moves(a)
<1> USE DEF At, Durable, InFlight, Past, Wanted
<1>0. PICK a \in Artifacts : a = janitor[j].artifact
  BY DEF CommitRow, IInv, JobInv, JobWorks
<1> DEFINE s == janitor[j].status
<1>1. /\ janitor[j].at = "acted" /\ ~RowLocked(a) /\ TypeOK /\ FileInv(a)
      /\ JobWorks(j) /\ (Timely => JobInTime(j))
      /\ s \in {"failed", "deleted", "delete_pending"}
      /\ s \in {"deleted", "delete_pending"} => Past(a) /\ upload[a].kind = "run"
      /\ UNCHANGED <<reservation, object, dataset, upload, deletion, faults, crashes, orphaned>>
  BY <1>0 DEF CommitRow, IInv, JobInv, JobWorks
<1>2. /\ row' \in [Artifacts -> RowState]
      /\ row'[a].status = s /\ row'[a].key = row[a].key
      /\ row'[a].stale = row[a].stale /\ row'[a].expired = row[a].expired
      /\ \A b \in Artifacts \ {a} : row'[b] = row[b]
  BY <1>0, <1>1, RowBecomes DEF CommitRow, Statuses
<1>3. /\ janitor' \in [Jobs -> JobState] /\ janitor'[j].at = "idle"
      /\ \A i \in Jobs \ {j} : janitor'[i] = janitor[i]
  BY <1>1, JanitorLeaves DEF CommitRow
<1>4. TypeOK' /\ HistoryKept
  BY <1>1, <1>2, <1>3 DEF TypeOK, HistoryKept
<1>5. \A b \in Artifacts \ {a} : SameFile(b)
  BY <1>1, <1>2 DEF SameFile
<1>6. \A b \in Artifacts : Onward(b)
  BY <1>1, <1>2 DEF Onward
<1>7. /\ \A b \in Artifacts : Taken(b) => Taken(b)'
      /\ \A b \in Artifacts \ {a} : BeingRemoved(b) => BeingRemoved(b)'
  <2>1. \A b \in Artifacts : Taken(b) => Taken(b)'
    BY <1>1 DEF Taken
  <2>2. \A b \in Artifacts \ {a} : BeingRemoved(b) => BeingRemoved(b)'
    BY <1>0, <1>1, <1>3 DEF BeingRemoved
  <2> QED BY <2>1, <2>2
<1>8. \A b \in Artifacts \ {a} : FileInv(b)'
  BY <1>4, <1>5, <1>7, FileStays
<1>9. FileInv(a)'
  <2>1. upload[a].at \in Waiting => s = "failed" /\ InFlight(a)
    BY <1>0, <1>1 DEF Waiting, FileInv, RowFollows, JobWorks
  <2>2. RowFollows(a)'
    BY <1>1, <1>2, <2>1 DEF FileInv, RowFollows
  <2>3. KeepsObject(a)'
    BY <1>1, <1>2 DEF KeepsObject
  <2>4. Timely => RowInTime(a)'
    BY <1>0, <1>1, <1>2 DEF FileInv, RowInTime, JobInTime, Waiting
  <2>5. Timely => KeepsFile(a)'
    BY <1>0, <1>1, <1>7 DEF KeepsFile, JobInTime
  <2> QED BY <2>2, <2>3, <2>4, <2>5 DEF FileInv
<1>10. \A i \in Jobs : JobInv(i)'
  <2>1. JobInv(j)'
    BY <1>3 DEF JobInv
  <2>2. \A i \in Jobs \ {j} : JobInv(i)'
    BY <1>3, <1>6, <1>7, OtherJobsStay
  <2> QED BY <2>1, <2>2
<1>11. DeletionInv'
  BY <1>1, <1>4, <1>6, DeletionStays
<1>12. Lighter(a) /\ (Timely => Lasts(a))
  BY <1>1, <1>2, <1>3, <1>4 DEF Lighter, Lasts, Usable, Holds, Charged, FileInv, RowFollows, RowInTime, Waiting
<1>13. Moves(a)
  BY <1>5, <1>12 DEF Moves, OnlyChanges
<1> QED BY <1>4, <1>8, <1>9, <1>10, <1>11, <1>13 DEF IInv

\* A job that dies between the two leaves a file that was cut.
LEMMA JanitorDiesStep ==
  ASSUME IInv, NEW j \in Jobs, JanitorDies(j)
  PROVE  IInv' /\ \E a \in Artifacts : Moves(a)
<1>0. PICK a \in Artifacts : a = janitor[j].artifact
  BY DEF JanitorDies, IInv, JobInv, JobWorks
<1>1. /\ TypeOK /\ crashes' \in 0..MaxCrashes
      /\ UNCHANGED <<row, reservation, object, dataset, upload, deletion, faults>>
  BY Counting DEF JanitorDies, IInv
<1>2. /\ orphaned' \in [Harms -> SUBSET Artifacts]
      /\ orphaned'["early"] = orphaned["early"] /\ orphaned["cut"] \subseteq orphaned'["cut"]
      /\ janitor[j].at = "acted" => a \in orphaned'["cut"]
  BY <1>0, <1>1, HarmAdded DEF JanitorDies, Harms, TypeOK
<1>3. /\ janitor' \in [Jobs -> JobState] /\ janitor'[j].at = "idle"
      /\ \A i \in Jobs \ {j} : janitor'[i] = janitor[i]
  BY <1>1, JanitorLeaves DEF JanitorDies
<1>4. TypeOK' /\ HistoryKept
  BY <1>1, <1>2, <1>3 DEF TypeOK, HistoryKept
<1>5. \A b \in Artifacts : SameFile(b) /\ Onward(b)
  BY <1>1, SameFileGoesOn DEF SameFile
<1>6. \A b \in Artifacts : Taken(b) => Taken(b)'
  BY <1>1, <1>2 DEF Taken
<1>7. \A b \in Artifacts : BeingRemoved(b) => BeingRemoved(b)' \/ b \in orphaned'["cut"]
  BY <1>0, <1>1, <1>2, <1>3 DEF BeingRemoved
<1>8. \A b \in Artifacts : FileInv(b)'
  BY <1>4, <1>5, <1>6, <1>7, FileStays
<1>9. \A i \in Jobs : JobInv(i)'
  <2>1. JobInv(j)'
    BY <1>3 DEF JobInv
  <2>2. \A i \in Jobs \ {j} : JobInv(i)'
    BY <1>3, <1>5, <1>6, OtherJobsStay
  <2> QED BY <2>1, <2>2
<1>10. DeletionInv'
  BY <1>1, <1>4, <1>5, DeletionStays
<1>11. Lighter(a) /\ (Timely => Lasts(a))
  BY <1>1, <1>2, <1>3, <1>4 DEF Lighter, Lasts, Usable, Holds, At, Durable, Charged, FileInv, RowFollows, RowInTime, Waiting
<1>12. Moves(a)
  BY <1>5, <1>11 DEF Moves, OnlyChanges
<1> QED BY <1>4, <1>8, <1>9, <1>10, <1>12 DEF IInv

-----------------------------------------------------------------------------
(* The invariant and what follows from it.                                 *)

\* Nothing has been uploaded yet.
LEMMA InitInv == Init => IInv
<1> SUFFICES ASSUME Init PROVE IInv
  OBVIOUS
<1>1. TypeOK
  <2>1. row \in [Artifacts -> RowState]
    BY DEF Init, RowState, Statuses
  <2>2. upload \in [Artifacts -> UploadState]
    BY KindAssumption DEF Init, UploadState, Steps
  <2>3. janitor \in [Jobs -> JobState]
    BY DEF Init, NoJob, JobState, Statuses
  <2>4. 0 \in 0..MaxFaults /\ 0 \in 0..MaxCrashes
    BY SizeAssumption
  <2> QED BY <2>1, <2>2, <2>3, <2>4 DEF Init, TypeOK, NoDeletion
<1>2. \A a \in Artifacts : FileInv(a)
  BY DEF Init, FileInv, RowFollows, RowInTime, KeepsObject, KeepsFile,
         InFlight, Durable, Past, Wanted, At, Waiting
<1>3. DeletionInv /\ \A j \in Jobs : JobInv(j)
  BY DEF Init, DeletionInv, NoDeletion, JobInv, NoJob
<1> QED BY <1>1, <1>2, <1>3 DEF IInv

\* A stuttering step changes no file, no deletion and no job.
LEMMA StutterStep ==
  ASSUME IInv, UNCHANGED vars
  PROVE  IInv'
<1> USE DEF vars
<1>1. TypeOK' /\ HistoryKept
  BY DEF IInv, TypeOK, HistoryKept
<1>2. \A b \in Artifacts : SameFile(b) /\ Onward(b)
  BY SameFileGoesOn DEF SameFile
<1>3. \A b \in Artifacts : (BeingRemoved(b) => BeingRemoved(b)') /\ (Taken(b) => Taken(b)')
  BY DEF BeingRemoved, Taken
<1>4. \A b \in Artifacts : FileInv(b)'
  BY <1>1, <1>2, <1>3, FileStays
<1>5. \A j \in Jobs : JobInv(j)'
  BY <1>2, <1>3, JobStays
<1>6. DeletionInv'
  BY <1>1, <1>2, DeletionStays
<1> QED BY <1>1, <1>4, <1>5, <1>6 DEF IInv

\* Every step concerns one file at most, and only Reserve charges a quota.
LEMMA StepCases ==
  ASSUME IInv, [Next]_vars
  PROVE  /\ IInv'
         /\ \/ UNCHANGED vars
            \/ \E a \in Artifacts : Moves(a)
            \/ \E a \in Artifacts : /\ Reserve(a) /\ OnlyChanges(a) /\ (Timely => Lasts(a))
                                    /\ upload'[a].project = upload[a].project
<1>1. ASSUME NEW a \in Artifacts, Upload(a), ~Reserve(a) PROVE IInv' /\ Moves(a)
  BY <1>1, CommitPendingStep, PutStep, MoveStep, CommitPublishedStep,
     PublishFailsStep, ReadDatasetStep, InsertDatasetStep DEF Upload
<1>2. ASSUME NEW a \in Artifacts, UploadDies(a) \/ CheckDeletion(a) \/ Sweep(a) \/ Lapse(a) \/ Expires(a)
      PROVE  IInv' /\ Moves(a)
  BY <1>2, UploadDiesStep, CheckDeletionStep, SweepStep, LapseStep, ExpiresStep
<1>3. ASSUME DeleteObject \/ CommitDeletion \/ DeletionDies
      PROVE  IInv' /\ \E a \in Artifacts : Moves(a)
  BY <1>3, DeleteObjectStep, CommitDeletionStep, DeletionDiesStep
<1>4. ASSUME NEW j \in Jobs, Visit(j) \/ JanitorDies(j)
      PROVE  IInv' /\ \E a \in Artifacts : Moves(a)
  <2>1. ASSUME NEW a \in Artifacts, LoadRow(j, a) PROVE IInv' /\ Moves(a)
    BY <2>1, LoadRowStep
  <2> QED BY <1>4, <2>1, ActStep, CommitRowStep, JanitorDiesStep DEF Visit
<1>5. CASE UNCHANGED vars
  BY <1>5, StutterStep
<1>6. ASSUME NEW a \in Artifacts, Reserve(a)
      PROVE  /\ IInv' /\ OnlyChanges(a) /\ (Timely => Lasts(a))
             /\ upload'[a].project = upload[a].project
  BY <1>6, ReserveStep
<1> QED BY <1>1, <1>2, <1>3, <1>4, <1>5, <1>6 DEF Next

\* What IInv says of files, jobs and deletions holds in every state.
THEOREM Invariance == Spec => []IInv
<1>1. IInv /\ [Next]_vars => IInv'
  BY StepCases
<1> QED BY <1>1, InitInv, PTL DEF Spec

\* Row, object and dataset agree (StoreIsConsistent): publication moves before
\* it commits, deletion removes before it commits, and neither job removes an
\* object that a dataset wants, since files of datasets do not expire and a
\* pending row is only stale when its upload is over.
THEOREM Consistency == Spec => []StoreIsConsistent
<1>1. IInv => StoreIsConsistent
  <2> SUFFICES ASSUME IInv PROVE StoreIsConsistent
    OBVIOUS
  <2>1. AvailableHasObject
    BY DEF IInv, FileInv, KeepsObject, AvailableHasObject
  <2>2. DatasetHasFile
    BY DEF IInv, FileInv, KeepsFile, DatasetHasFile, Wanted, Taken, BeingRemoved, TypeOK
  <2> QED BY <2>1, <2>2 DEF IInv, StoreIsConsistent
<1> QED BY <1>1, Invariance, PTL

\* An upload of a client that is in time fails only when a call of the object
\* store failed: no job and no sweep takes its row or its object meanwhile.
THEOREM Undisturbed == Spec => []UploadUndisturbed
<1>1. IInv => UploadUndisturbed
  BY DEF IInv, FileInv, RowInTime, UploadUndisturbed, At
<1> QED BY <1>1, Invariance, PTL

-----------------------------------------------------------------------------
(* The promise: a file is usable at most once and does not come back.      *)

Lives == [a \in Artifacts |-> Life(a)]

\* A step makes one file appear, one vanish, or changes no life.
LEMMA PromiseStep ==
  ASSUME Timely, IInv, [Next]_vars
  PROVE  [Promise!Next]_Lives
<1>1. CASE UNCHANGED vars
  <2>1. \A a \in Artifacts : Life(a)' = Life(a)
    BY <1>1 DEF vars, Life, Usable
  <2> QED BY <2>1 DEF Lives
<1>2. ASSUME NEW a \in Artifacts, OnlyChanges(a), Lasts(a)
      PROVE  [Promise!Next]_Lives
  <2>1. \A b \in Artifacts \ {a} : Life(b)' = Life(b)
    <3> TAKE b \in Artifacts \ {a}
    <3>1. row'[b] = row[b] /\ row[b].key \in {"tmp", "final"} /\ SameFile(b)
      BY <1>2 DEF OnlyChanges, SameFile, IInv, TypeOK, RowState
    <3>2. Usable(b)' <=> Usable(b)
      BY <3>1 DEF Usable, SameFile
    <3> QED BY <3>1, <3>2 DEF Life
  <2>2. \/ Life(a)' = Life(a)
        \/ Life(a) = "absent" /\ Life(a)' = "usable"
        \/ Life(a) # "gone" /\ Life(a)' = "gone"
    <3>1. Usable(a) => row[a].status \notin {"absent", "pending"}
      BY DEF Usable
    <3>2. Usable(a)' => row'[a].status \notin {"absent", "pending"}
      BY DEF Usable
    <3> QED BY <1>2, <3>1, <3>2 DEF Lasts, Life
  <2>3. CASE Life(a)' = Life(a)
    BY <2>1, <2>3 DEF Lives
  <2>4. CASE Life(a) = "absent" /\ Life(a)' = "usable"
    <3>1. Lives' = [Lives EXCEPT ![a] = "usable"] /\ Lives[a] = "absent"
      BY <2>1, <2>4 DEF Lives
    <3> QED BY <3>1 DEF Promise!Next, Promise!Appear, Lives
  <2>5. CASE Life(a) # "gone" /\ Life(a)' = "gone"
    <3>1. Lives' = [Lives EXCEPT ![a] = "gone"] /\ Lives[a] # "gone"
      BY <2>1, <2>5 DEF Lives
    <3> QED BY <3>1 DEF Promise!Next, Promise!Vanish, Lives
  <2> QED BY <2>2, <2>3, <2>4, <2>5
<1> QED BY <1>1, <1>2, StepCases DEF Moves

\* Uploads that do not outlive their reservation implement ArtifactPromise:
\* nothing takes back a deletion, and no file that reconciliation has failed is
\* published afterwards (create_artifact_from_upload, reconcile_artifacts).
THEOREM PromiseKept ==
  ASSUME Timely
  PROVE  Spec => ImplementsPromise
<1>1. Init => Promise!Init
  BY DEF Init, Promise!Init, Life, Usable
<1>2. IInv /\ [Next]_vars => [Promise!Next]_Lives
  BY PromiseStep
<1> QED BY <1>1, <1>2, Invariance, PTL DEF Spec, ImplementsPromise, Promise!Spec, Lives

-----------------------------------------------------------------------------
(* The quotas.                                                             *)

\* The advisory lock of a project is held for one file at a time.
HoldersApart ==
  \A a, b \in Artifacts : Holds(a) /\ Holds(b) /\ upload[a].project = upload[b].project => a = b

Load      == {a \in Artifacts : Charged(a)}
LoadOf(p) == Load \cap InProject(p)

QuotaInv ==
  /\ HoldersApart
  /\ Timely => /\ \A p \in Projects : /\ Cardinality(LoadOf(p)) <= ProjectQuota
                                      /\ Cardinality(LoadOf(p)) <= OwnerQuota
               /\ Cardinality(Load) <= OwnerQuota + Cardinality(Projects) - 1

\* Sets of files and of projects are finite and have a size.
LEMMA Sizes ==
  /\ \A S \in SUBSET Artifacts : IsFiniteSet(S) /\ Cardinality(S) \in Nat
  /\ \A S \in SUBSET Projects : IsFiniteSet(S) /\ Cardinality(S) \in Nat
  /\ \A S \in SUBSET Artifacts : \A T \in SUBSET S : Cardinality(T) <= Cardinality(S)
  /\ OwnerQuota \in Nat /\ ProjectQuota \in Nat
<1>1. \A S \in SUBSET Artifacts : IsFiniteSet(S) /\ Cardinality(S) \in Nat
  BY FiniteAssumption, FS_Subset, FS_CardinalityType
<1>2. \A S \in SUBSET Projects : IsFiniteSet(S) /\ Cardinality(S) \in Nat
  BY FiniteAssumption, FS_Subset, FS_CardinalityType
<1>3. \A S \in SUBSET Artifacts : \A T \in SUBSET S : Cardinality(T) <= Cardinality(S)
  BY <1>1, FS_Subset
<1> QED BY <1>1, <1>2, <1>3, SizeAssumption

\* An element adds at most one, a union at most both sizes.
LEMMA Growth ==
  /\ \A S \in SUBSET Artifacts : \A a \in Artifacts : Cardinality(S \cup {a}) <= Cardinality(S) + 1
  /\ \A S, T \in SUBSET Artifacts : Cardinality(S \cup T) <= Cardinality(S) + Cardinality(T)
<1>1. ASSUME NEW S \in SUBSET Artifacts, NEW a \in Artifacts
      PROVE  Cardinality(S \cup {a}) <= Cardinality(S) + 1
  <2>1. IsFiniteSet(S) /\ Cardinality(S) \in Nat
    BY Sizes
  <2>2. Cardinality(S \cup {a}) = IF a \in S THEN Cardinality(S) ELSE Cardinality(S) + 1
    BY <2>1, FS_AddElement
  <2> QED BY <2>1, <2>2
<1>2. ASSUME NEW S \in SUBSET Artifacts, NEW T \in SUBSET Artifacts
      PROVE  Cardinality(S \cup T) <= Cardinality(S) + Cardinality(T)
  <2>1. /\ IsFiniteSet(S) /\ Cardinality(S) \in Nat
        /\ IsFiniteSet(T) /\ Cardinality(T) \in Nat
        /\ Cardinality(S \cap T) \in Nat
    BY Sizes
  <2>2. Cardinality(S \cup T) = Cardinality(S) + Cardinality(T) - Cardinality(S \cap T)
    BY <2>1, FS_Union
  <2> QED BY <2>1, <2>2
<1> QED BY <1>1, <1>2

\* What is not charged keeps the quotas.
LEMMA QuotaNotRaised ==
  ASSUME QuotaInv, NEW a \in Artifacts, OnlyChanges(a), Lighter(a)
  PROVE  QuotaInv'
<1>1. \A b \in Artifacts : /\ upload'[b].project = upload[b].project
                           /\ Holds(b)' => Holds(b)
                           /\ Timely /\ Charged(b)' => Charged(b)
  <2> TAKE b \in Artifacts
  <2>1. CASE b = a
    BY <2>1 DEF Lighter
  <2>2. CASE b # a
    BY <2>2 DEF OnlyChanges, SameFile, Holds, Charged, At, Durable
  <2> QED BY <2>1, <2>2
<1>2. HoldersApart'
  BY <1>1 DEF QuotaInv, HoldersApart
<1>3. ASSUME Timely
      PROVE  /\ \A p \in Projects : /\ Cardinality(LoadOf(p)') <= ProjectQuota
                                    /\ Cardinality(LoadOf(p)') <= OwnerQuota
             /\ Cardinality(Load') <= OwnerQuota + Cardinality(Projects) - 1
  <2>1. Load' \subseteq Load /\ Load \subseteq Artifacts
    BY <1>1, <1>3 DEF Load
  <2>2. \A p \in Projects : LoadOf(p)' \subseteq LoadOf(p) /\ LoadOf(p) \subseteq Artifacts
    BY <1>1, <2>1 DEF LoadOf, InProject
  <2>3. Cardinality(Load') \in Nat /\ Cardinality(Load) \in Nat /\ Cardinality(Load') <= Cardinality(Load)
    BY <2>1, Sizes
  <2>4. \A p \in Projects : /\ Cardinality(LoadOf(p)') \in Nat /\ Cardinality(LoadOf(p)) \in Nat
                            /\ Cardinality(LoadOf(p)') <= Cardinality(LoadOf(p))
    BY <2>2, Sizes
  <2>5. Cardinality(Projects) \in Nat
    BY Sizes
  <2> QED BY <1>3, <2>3, <2>4, <2>5, Sizes DEF QuotaInv
<1> QED BY <1>2, <1>3 DEF QuotaInv

\* Files whose transactions hold a lock are in different projects.
LEMMA OneHolderPerProject ==
  ASSUME TypeOK, HoldersApart, NEW S \in SUBSET Projects,
         NEW H \in SUBSET Artifacts, \A b \in H : Holds(b) /\ upload[b].project \in S
  PROVE  Cardinality(H) <= Cardinality(S)
<1> DEFINE f == [b \in H |-> upload[b].project]
<1>1. f \in [H -> S] OBVIOUS
<1>2. \A x, y \in H : f[x] = f[y] => x = y
  BY DEF HoldersApart
<1>3. IsFiniteSet(H) /\ IsFiniteSet(S) /\ Cardinality(H) \in Nat /\ Cardinality(S) \in Nat
  BY Sizes
<1> HIDE DEF f
<1>4. ~(Cardinality(S) < Cardinality(H))
  BY <1>1, <1>2, <1>3, FS_PigeonHole
<1> QED BY <1>3, <1>4

\* A reservation is checked and made under the lock of its project: there it
\* counts everything that is charged.  In the other projects it misses what
\* their lock holders have not committed, one file each.
LEMMA QuotaReserved ==
  ASSUME IInv, QuotaInv, NEW a \in Artifacts, Reserve(a), OnlyChanges(a),
         upload'[a].project = upload[a].project
  PROVE  QuotaInv'
<1> DEFINE p == upload[a].project
           H == {b \in Artifacts : Holds(b)}
           C == Counted
<1>1. /\ upload'[a].project = p /\ p \in Projects
      /\ \A b \in Artifacts : upload'[b].project = upload[b].project
      /\ \A b \in Artifacts \ {a} : (Holds(b)' <=> Holds(b)) /\ (Charged(b)' <=> Charged(b))
  <2>1. p \in Projects
    BY DEF IInv, TypeOK, UploadState
  <2>2. \A b \in Artifacts \ {a} : SameFile(b)
    BY DEF OnlyChanges
  <2> QED BY <2>1, <2>2 DEF SameFile, Holds, Charged, At, Durable
<1>2. \A b \in H : upload[b].project # p
  BY DEF Reserve, ScopeFree, InProject, Holds, At
<1>3. HoldersApart'
  BY <1>1, <1>2 DEF QuotaInv, HoldersApart
<1>4. /\ Cardinality(C) + 1 <= OwnerQuota
      /\ Cardinality(C \cap InProject(p)) + 1 <= ProjectQuota
  BY DEF Reserve
<1>5. /\ Load = C \cup H /\ Load' \subseteq (C \cup H) \cup {a}
      /\ C \subseteq Artifacts /\ H \subseteq Artifacts /\ InProject(p) \subseteq Artifacts
  BY <1>1 DEF Load, Charged, Counted, InProject
<1>6. ASSUME Timely, NEW q \in Projects
      PROVE  Cardinality(LoadOf(q)') <= ProjectQuota /\ Cardinality(LoadOf(q)') <= OwnerQuota
  <2>1. CASE q = p
    <3> DEFINE K == C \cap InProject(p)
    <3>1. LoadOf(q)' \subseteq K \cup {a} /\ K \cup {a} \subseteq Artifacts /\ K \subseteq C
      BY <1>1, <1>2, <1>5, <2>1 DEF LoadOf, InProject
    <3>2. /\ Cardinality(K) \in Nat /\ Cardinality(C) \in Nat /\ Cardinality(LoadOf(q)') \in Nat
          /\ Cardinality(K \cup {a}) \in Nat
          /\ Cardinality(K) <= Cardinality(C)
          /\ Cardinality(LoadOf(q)') <= Cardinality(K \cup {a})
      BY <1>5, <3>1, Sizes
    <3>3. Cardinality(K \cup {a}) <= Cardinality(K) + 1
      BY <1>5, <3>1, Growth
    <3> QED BY <1>4, <3>2, <3>3, Sizes
  <2>2. CASE q # p
    <3>1. LoadOf(q)' \subseteq LoadOf(q) /\ LoadOf(q) \subseteq Artifacts
      BY <1>1, <1>5, <2>2 DEF LoadOf, InProject
    <3>2. /\ Cardinality(LoadOf(q)') \in Nat /\ Cardinality(LoadOf(q)) \in Nat
          /\ Cardinality(LoadOf(q)') <= Cardinality(LoadOf(q))
      BY <3>1, Sizes
    <3> QED BY <1>6, <3>2, Sizes DEF QuotaInv
  <2> QED BY <2>1, <2>2
<1>7. ASSUME Timely PROVE Cardinality(Load') <= OwnerQuota + Cardinality(Projects) - 1
  <2>1. Cardinality(H) <= Cardinality(Projects \ {p})
    BY <1>2, OneHolderPerProject DEF IInv, QuotaInv, TypeOK, UploadState
  <2>2. Cardinality(Projects \ {p}) = Cardinality(Projects) - 1
    BY <1>1, FiniteAssumption, FS_RemoveElement
  <2>3. /\ Cardinality(C) \in Nat /\ Cardinality(H) \in Nat /\ Cardinality(C \cup H) \in Nat
        /\ Cardinality((C \cup H) \cup {a}) \in Nat /\ Cardinality(Load') \in Nat
        /\ Cardinality(Load') <= Cardinality((C \cup H) \cup {a})
        /\ Cardinality(Projects) \in Nat
    BY <1>5, Sizes
  <2>4. Cardinality(C \cup H) <= Cardinality(C) + Cardinality(H)
    BY <1>5, Growth
  <2>5. Cardinality((C \cup H) \cup {a}) <= Cardinality(C \cup H) + 1
    BY <1>5, Growth
  <2> QED BY <1>4, <2>1, <2>2, <2>3, <2>4, <2>5, Sizes
<1> QED BY <1>3, <1>6, <1>7 DEF QuotaInv

\* No project holds more than its quota or its owner's, and the owner no more
\* than one file for each other project above hers (_reserve_quota).
THEOREM Quotas == Spec => []QuotaKept
<1>1. Init => QuotaInv
  <2> SUFFICES ASSUME Init PROVE QuotaInv
    OBVIOUS
  <2>1. \A a \in Artifacts : ~Holds(a) /\ ~Charged(a)
    BY DEF Init, Holds, Charged, At
  <2>2. Load = {} /\ \A p \in Projects : LoadOf(p) = {}
    BY <2>1 DEF Load, LoadOf
  <2>3. Cardinality(Projects) \in Nat /\ Cardinality(Projects) # 0
    BY Sizes, FiniteAssumption, FS_EmptySet
  <2> QED BY <2>1, <2>2, <2>3, FS_EmptySet, Sizes DEF QuotaInv, HoldersApart
<1>2. IInv /\ QuotaInv /\ [Next]_vars => QuotaInv'
  <2> SUFFICES ASSUME IInv, QuotaInv, [Next]_vars PROVE QuotaInv'
    OBVIOUS
  <2>1. CASE UNCHANGED vars
    BY <2>1 DEF vars, QuotaInv, HoldersApart, Load, LoadOf, InProject, Holds, Charged, At, Durable
  <2>2. ASSUME NEW a \in Artifacts, Moves(a) PROVE QuotaInv'
    BY <2>2, QuotaNotRaised DEF Moves
  <2> QED BY <2>1, <2>2, StepCases, QuotaReserved
<1>3. IInv /\ QuotaInv => QuotaKept
  <2> SUFFICES ASSUME QuotaInv, Timely PROVE QuotaKept
    BY DEF QuotaKept
  <2>1. Counted \subseteq Load /\ Load \subseteq Artifacts
    BY DEF Counted, Load, Charged
  <2>2. \A p \in Projects : /\ Counted \cap InProject(p) \subseteq LoadOf(p)
                            /\ LoadOf(p) \subseteq Artifacts
    BY <2>1 DEF LoadOf
  <2>3. Cardinality(Counted) \in Nat /\ Cardinality(Load) \in Nat /\ Cardinality(Counted) <= Cardinality(Load)
    BY <2>1, Sizes
  <2>4. \A p \in Projects : /\ Cardinality(Counted \cap InProject(p)) \in Nat
                            /\ Cardinality(LoadOf(p)) \in Nat
                            /\ Cardinality(Counted \cap InProject(p)) <= Cardinality(LoadOf(p))
    BY <2>2, Sizes
  <2> QED BY <2>3, <2>4, Sizes DEF QuotaInv, QuotaKept
<1> QED BY <1>1, <1>2, <1>3, Invariance, PTL DEF Spec

=============================================================================
