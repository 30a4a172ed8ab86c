----------------------------- MODULE RequestProofs -----------------------------
(***************************************************************************)
(* What requests of users keep true of the tables, for any number of       *)
(* sessions, rows and limits and however the requests overlap.  Each part  *)
(* states the inductive invariant of one component of Requests (AInv,      *)
(* AccessInv, DInv, CInv, ChatInv) and of the locks of a project's owner   *)
(* (LInv): what the tables hold, and what every handler under way has read *)
(* and relies on when it writes.                                           *)
(***************************************************************************)
EXTENDS Requests, SequenceTheorems, FiniteSetTheorems, WellFoundedInduction, TLAPS

-----------------------------------------------------------------------------
(* Runs, workflows and projects: the inductive invariant                   *)

RunRows ==
  [workflow : Workflows \cup {None}, project : Projects \cup {None}, owner : Admission!Users,
   key : RunKeys \cup {None}, of : Workflows \cup {None}, status : {"queued", "succeeded", "failed"}]
WorkflowRows == [project : Projects \cup {None}, owner : Admission!Users, last : Runs \cup {None}]
Columns == UNION {[C -> Projects \cup Runs \cup {None}] : C \in SUBSET {"project", "last"}}
Asking == [user : Admission!Users, workflow : Workflows \cup {None}, project : Projects \cup {None}]

Writes ==
  [kind : {"run"}, row : RunRows] \cup [kind : {"retry"}, run : Runs]
  \cup [kind : {"workflow"}, row : WorkflowRows]
  \cup [kind : {"change"}, workflow : Workflows, set : Columns]
  \cup [kind : {"delete"}, workflow : Workflows]

\* None and Gone are none of the values they stand beside.
Distinct ==
  /\ None \notin RunRows \cup WorkflowRows \cup Asking \cup Writes
  /\ None \notin Workflows \cup Runs \cup RunKeys
  /\ Gone \notin RunRows \cup WorkflowRows /\ None # Gone

AdmissionTypes ==
  /\ workflow \in [Workflows -> WorkflowRows \cup {None, Gone}]
  /\ run \in [Runs -> RunRows \cup {None}]
  /\ projects \in SUBSET Projects
  /\ request \in [Sessions -> Writes \cup {None}]
  /\ asked \in [RunKeys -> Asking \cup {None}] /\ answer \in [RunKeys -> Runs \cup {None}]
  /\ succeeded \in SUBSET Runs /\ overlapped \in BOOLEAN

\* The owner of the runs of a key is that of the request it was used for.
OwnsKey(key, owner) ==
  key # None => asked[key] # None /\ owner = Admission!OwnerIn(asked[key].user, asked[key].project)

\* A workflow that is there, or was, belongs to a user.
Belongs(w, owner) == workflow[w] # None /\ (workflow[w] # Gone => workflow[w].owner = owner)

RunSound(r) ==
  run[r] # None =>
    /\ OwnsKey(run[r].key, run[r].owner)
    /\ run[r].workflow # None => run[r].workflow \in Admission!Rows(workflow) /\ Belongs(run[r].workflow, run[r].owner)
    /\ run[r].project \in Admission!Places
    /\ run[r].project # None => run[r].owner = Owner
    /\ run[r].status = "succeeded" => r \in succeeded

WorkflowSound(w) ==
  w \in Admission!Rows(workflow) =>
    /\ workflow[w].project \in Admission!Places
    /\ workflow[w].project # None => workflow[w].owner = Owner
    /\ workflow[w].last \in succeeded \cup {None}

\* What a request has checked holds until it commits.
WriteSound(q) ==
  /\ q.kind = "run" =>
       /\ OwnsKey(q.row.key, q.row.owner)
       /\ q.row.workflow # None => Belongs(q.row.workflow, q.row.owner)
       /\ q.row.project # None => q.row.owner = Owner
       /\ q.row.status = "queued" /\ q.row.of = q.row.workflow
  /\ q.kind = "retry" => run[q.run] # None
  /\ q.kind = "workflow" =>
       /\ q.row.project # None => q.row.owner = Owner
       /\ q.row.last \in succeeded \cup {None}
  /\ q.kind = "change" =>
       /\ "project" \in DOMAIN q.set =>
            q.set["project"] \in Projects \cup {None} /\ (q.set["project"] # None => Belongs(q.workflow, Owner))
       /\ "last" \in DOMAIN q.set => q.set["last"] \in succeeded \cup {None}
       /\ workflow[q.workflow] # None
  /\ q.kind = "delete" => workflow[q.workflow] # None

RequestSound(s) == request[s] # None => WriteSound(request[s])

\* A key has one run, which is its answer.
KeysSound ==
  /\ \A q, r \in Runs : run[q] # None /\ run[r] # None /\ run[q].key # None /\ run[q].key = run[r].key => q = r
  /\ \A k \in RunKeys : answer[k] # None => run[answer[k]] # None /\ run[answer[k]].key = k

\* One request at a time: what keeps the workflow of a run at work.
InTurn ==
  ~overlapped =>
    /\ \A s, t \in Sessions : request[s] # None /\ request[t] # None => s = t
    /\ \A r \in Runs : run[r] # None /\ run[r].status = "queued" =>
         /\ run[r].of # None => run[r].workflow = run[r].of
         /\ \A s \in Sessions : request[s] # None /\ request[s].kind = "delete" =>
              run[r].workflow # request[s].workflow

AInv ==
  /\ AdmissionTypes /\ KeysSound /\ InTurn
  /\ \A r \in Runs : RunSound(r)
  /\ \A w \in Workflows : WorkflowSound(w)
  /\ \A s \in Sessions : RequestSound(s)

-----------------------------------------------------------------------------
(* Reading the tables *)

LEMMA Read ==
  ASSUME Distinct, AInv
  PROVE  /\ AdmissionTypes /\ KeysSound /\ InTurn
         /\ \A r \in Runs : RunSound(r)
         /\ \A w \in Workflows : WorkflowSound(w)
         /\ \A s \in Sessions : request[s] # None => request[s] \in Writes /\ WriteSound(request[s])
         /\ Admission!Rows(run) = {r \in Runs : run[r] # None}
         /\ \A r \in Admission!Rows(run) : run[r] \in RunRows
         /\ Admission!Rows(workflow) = {w \in Workflows : workflow[w] # None /\ workflow[w] # Gone}
         /\ \A w \in Admission!Rows(workflow) : workflow[w] \in WorkflowRows
         /\ Admission!ActiveRuns = {r \in Runs : run[r] # None /\ run[r].status = "queued"}
<1>1. AdmissionTypes
  BY DEF AInv
<1>2. /\ Admission!Rows(run) = {r \in Runs : run[r] # None}
      /\ Admission!Rows(workflow) = {w \in Workflows : workflow[w] # None /\ workflow[w] # Gone}
  BY <1>1 DEF AdmissionTypes, Admission!Rows, Distinct
<1>3. /\ \A r \in Admission!Rows(run) : run[r] \in RunRows
      /\ \A w \in Admission!Rows(workflow) : workflow[w] \in WorkflowRows
  BY <1>1, <1>2 DEF AdmissionTypes
<1>4. \A s \in Sessions : request[s] # None => request[s] \in Writes /\ WriteSound(request[s])
  BY <1>1 DEF AInv, AdmissionTypes, RequestSound
<1> QED
  BY <1>1, <1>2, <1>3, <1>4 DEF AInv, Admission!ActiveRuns

\* The rows of an in-memory column set are rows.
LEMMA UpdatedIs ==
  ASSUME NEW row \in WorkflowRows, NEW set \in Columns,
         "project" \in DOMAIN set => set["project"] \in Projects \cup {None},
         "last" \in DOMAIN set => set["last"] \in Runs \cup {None}
  PROVE  /\ Admission!Updated(row, set) \in WorkflowRows
         /\ Admission!Updated(row, set).owner = row.owner
         /\ Admission!Updated(row, set).project = IF "project" \in DOMAIN set THEN set["project"] ELSE row.project
         /\ Admission!Updated(row, set).last = IF "last" \in DOMAIN set THEN set["last"] ELSE row.last
<1>1. PICK C \in SUBSET {"project", "last"} : set \in [C -> Projects \cup Runs \cup {None}]
  BY DEF Columns
<1>2. DOMAIN row = {"project", "owner", "last"}
  BY DEF WorkflowRows
<1>3. Admission!Updated(row, set) = [project |-> IF "project" \in DOMAIN set THEN set["project"] ELSE row.project,
                           owner |-> row.owner,
                           last |-> IF "last" \in DOMAIN set THEN set["last"] ELSE row.last]
  BY <1>1, <1>2 DEF Admission!Updated
<1> QED
  BY <1>3 DEF WorkflowRows

-----------------------------------------------------------------------------
(* What no step takes back *)

Onward ==
  /\ \A k \in RunKeys : asked[k] # None => asked'[k] = asked[k]
  /\ \A w \in Workflows : workflow[w] # None =>
       /\ workflow'[w] # None
       /\ workflow'[w] # Gone => workflow[w] # Gone /\ workflow'[w].owner = workflow[w].owner
  /\ \A r \in Runs : run[r] # None => run'[r] # None
  /\ succeeded \subseteq succeeded'

LEMMA WriteKinds ==
  ASSUME NEW q \in Writes
  PROVE  /\ q.kind \in {"run", "retry", "workflow", "change", "delete"}
         /\ q.kind = "run" => q.row \in RunRows
         /\ q.kind = "retry" => q.run \in Runs
         /\ q.kind = "workflow" => q.row \in WorkflowRows
         /\ q.kind = "change" => q.workflow \in Workflows /\ q.set \in Columns
         /\ q.kind = "delete" => q.workflow \in Workflows
BY DEF Writes

LEMMA OwnsKeyOnward ==
  ASSUME Onward, NEW key \in RunKeys \cup {None}, NEW owner, OwnsKey(key, owner)
  PROVE  OwnsKey(key, owner)'
BY DEF Onward, OwnsKey

LEMMA BelongsOnward ==
  ASSUME Onward, NEW w \in Workflows, NEW owner, Belongs(w, owner)
  PROVE  Belongs(w, owner)'
BY DEF Onward, Belongs

\* What a request has checked stays true while others go on.
LEMMA WriteOnward ==
  ASSUME Onward, NEW q \in Writes, WriteSound(q)
  PROVE  WriteSound(q)'
<1>1. CASE q.kind = "run"
  <2>1. q.row.key \in RunKeys \cup {None} /\ q.row.workflow \in Workflows \cup {None}
    BY <1>1, WriteKinds DEF RunRows
  <2>2. OwnsKey(q.row.key, q.row.owner)' /\ (q.row.workflow # None => Belongs(q.row.workflow, q.row.owner)')
    BY <1>1, <2>1, OwnsKeyOnward, BelongsOnward DEF WriteSound
  <2> QED
    BY <1>1, <2>2 DEF WriteSound
<1>2. CASE q.kind = "change"
  <2>1. q.workflow \in Workflows
    BY <1>2, WriteKinds
  <2>2. Belongs(q.workflow, Owner) => Belongs(q.workflow, Owner)'
    BY <2>1, BelongsOnward
  <2> QED
    BY <1>2, <2>1, <2>2 DEF WriteSound, Onward
<1>3. CASE q.kind \in {"retry", "workflow", "delete"}
  BY <1>3, WriteKinds DEF WriteSound, Onward
<1> QED
  BY <1>1, <1>2, <1>3, WriteKinds

\* The requests that stay in flight stay sound.
LEMMA RequestsOnward ==
  ASSUME Distinct, AInv, Onward, \A s \in Sessions : request'[s] \in {request[s], None}
  PROVE  \A s \in Sessions : RequestSound(s)'
<1> SUFFICES ASSUME NEW s \in Sessions, request'[s] # None
             PROVE  WriteSound(request[s])'
  BY DEF RequestSound
<1>1. request'[s] = request[s] /\ request[s] \in Writes /\ WriteSound(request[s])
  BY Read
<1>2. PICK q \in Writes : q = request[s]
  BY <1>1
<1>3. WriteSound(q)'
  BY <1>1, <1>2, WriteOnward
<1>4. q = request'[s]
  BY <1>1, <1>2
<1> QED
  BY <1>3, <1>4 DEF WriteSound, OwnsKey, Belongs

-----------------------------------------------------------------------------
(* A request that goes on to write *)

LEMMA AskStep ==
  ASSUME Distinct, AInv, NEW s \in Sessions, NEW q \in Writes, Admission!Ask(s, q),
         asked' \in [RunKeys -> Asking \cup {None}],
         \A k \in RunKeys : asked[k] # None => asked'[k] = asked[k],
         WriteSound(q)',
         q.kind = "delete" => \A r \in Admission!ActiveRuns : run[r].workflow # q.workflow
  PROVE  AInv' /\ UNCHANGED answer
<1>1. /\ request[s] = None /\ request' = [request EXCEPT ![s] = q]
      /\ overlapped' = (overlapped \/ \E t \in Sessions : request[t] # None)
      /\ UNCHANGED <<workflow, run, projects, answer, succeeded>>
  BY DEF Admission!Ask
<1>2. AdmissionTypes /\ KeysSound /\ InTurn
  BY Read
<1>3. request'[s] = q /\ \A t \in Sessions : t # s => request'[t] = request[t]
  BY <1>1, <1>2 DEF AdmissionTypes
<1>4. AdmissionTypes'
  BY <1>1, <1>2 DEF AdmissionTypes
<1>5. KeysSound'
  BY <1>1, <1>2 DEF KeysSound
<1>6. Onward
  BY <1>1 DEF Onward
<1>7. ASSUME NEW r \in Runs
      PROVE  RunSound(r)'
  <2>1. RunSound(r) /\ (run[r] # None => run[r] \in RunRows)
    BY <1>2, Read DEF AdmissionTypes
  <2>2. run[r] # None => run[r].key \in RunKeys \cup {None} /\ OwnsKey(run[r].key, run[r].owner)
    BY <2>1 DEF RunRows, RunSound
  <2>3. run[r] # None => OwnsKey(run[r].key, run[r].owner)'
    BY <1>1, <1>6, <2>2 DEF OwnsKey, Onward
  <2> QED
    BY <1>1, <2>1, <2>3 DEF RunSound, Admission!Places, Admission!Rows, Belongs
<1>8. \A w \in Workflows : WorkflowSound(w)'
  BY <1>1, Read DEF WorkflowSound, Admission!Rows, Admission!Places
<1>9. ASSUME NEW t \in Sessions, request'[t] # None
      PROVE  WriteSound(request[t])'
  <2>1. CASE t = s
    BY <1>3, <2>1 DEF WriteSound, OwnsKey, Belongs
  <2>2. CASE t # s
    <3>1. request'[t] = request[t] /\ request[t] \in Writes /\ WriteSound(request[t])
      BY <1>3, <1>9, <2>2, Read
    <3>2. PICK p \in Writes : p = request[t]
      BY <3>1
    <3>3. WriteSound(p)' /\ p = request'[t]
      BY <1>6, <3>1, <3>2, WriteOnward
    <3> QED
      BY <3>3 DEF WriteSound, OwnsKey, Belongs
  <2> QED
    BY <2>1, <2>2
<1>10. InTurn'
  <2>1. SUFFICES ASSUME ~overlapped'
                 PROVE  InTurn'
    BY DEF InTurn
  <2>2. ~overlapped /\ \A t \in Sessions : request[t] = None
    BY <1>1, <2>1
  <2>3. \A t \in Sessions : request'[t] # None => t = s
    BY <1>3, <2>2
  <2>4. \A r \in Runs : run[r] # None /\ run[r].status = "queued" /\ q.kind = "delete" =>
          run[r].workflow # q.workflow
    BY Read
  <2> QED
    BY <1>1, <1>2, <1>3, <2>2, <2>3, <2>4 DEF InTurn
<1>11. \A t \in Sessions : RequestSound(t)'
  BY <1>9 DEF RequestSound
<1> QED
  BY <1>1, <1>4, <1>5, <1>7, <1>8, <1>10, <1>11 DEF AInv

-----------------------------------------------------------------------------
(* What each request has checked when it goes on to write *)

\* A key is answered again by the run it has.
LEMMA CreateRunStep ==
  ASSUME Distinct, AInv, NEW s \in Sessions, NEW user \in Admission!Users, NEW w \in Workflows \cup {None},
         NEW place \in Admission!Places, NEW key \in RunKeys \cup {None}, Admission!CreateRun(s, user, w, place, key)
  PROVE  AInv' /\ Admission!AnswersAreFinal
<1> DEFINE asking == [user |-> user, workflow |-> w, project |-> place]
<1>1. /\ key # None => asked[key] \in {None, asking}
      /\ asked' = [k \in RunKeys |-> IF k = key THEN asking ELSE asked[k]]
  BY DEF Admission!CreateRun
<1>2. AdmissionTypes /\ KeysSound /\ InTurn
  BY Read
<1>3. place \in Projects \cup {None}
  BY <1>2 DEF AdmissionTypes, Admission!Places
<1>4. asking \in Asking /\ asking # None
  BY <1>3 DEF Asking, Distinct
<1>5. asked' \in [RunKeys -> Asking \cup {None}] /\ \A k \in RunKeys : asked[k] # None => asked'[k] = asked[k]
  <2> HIDE DEF asking
  <2> QED
    BY <1>1, <1>2, <1>4 DEF AdmissionTypes, Distinct
<1>6. CASE \E r \in Admission!FindIdempotent(user, key) : /\ Admission!Reply(key, r)
                                                /\ UNCHANGED <<workflow, run, projects, request, succeeded, overlapped, sent>>
  <2>1. PICK r \in Admission!FindIdempotent(user, key) :
          Admission!Reply(key, r) /\ UNCHANGED <<workflow, run, projects, request, succeeded, overlapped, sent>>
    BY <1>6
  <2>2. r \in Runs /\ run[r] # None /\ key # None /\ run[r].key = key
    BY <2>1, Read DEF Admission!FindIdempotent
  <2>3. asked[key] # None
    BY <2>2, Read DEF RunSound, OwnsKey
  <2>4. asked' = asked
    <3> HIDE DEF asking
    <3> QED
      BY <1>1, <1>2, <2>3 DEF AdmissionTypes, Distinct
  <2>5. answer' = [k \in RunKeys |-> IF k = key THEN r ELSE answer[k]]
    BY <2>1 DEF Admission!Reply
  <2>6. AdmissionTypes'
    BY <1>2, <2>1, <2>2, <2>4, <2>5 DEF AdmissionTypes
  <2>7. KeysSound' /\ Admission!AnswersAreFinal
    BY <1>2, <2>1, <2>2, <2>5 DEF KeysSound, AdmissionTypes, Admission!AnswersAreFinal
  <2>8. /\ InTurn' /\ \A q \in Runs : RunSound(q)'
        /\ \A v \in Workflows : WorkflowSound(v)'
        /\ \A t \in Sessions : RequestSound(t)'
    BY <2>1, <2>4 DEF AInv, InTurn, RunSound, WorkflowSound, RequestSound, WriteSound, OwnsKey, Belongs, Admission!Places, Admission!Rows
  <2> QED
    BY <2>6, <2>7, <2>8 DEF AInv
<1>7. CASE /\ w # None => w \in Admission!Rows(workflow) /\ Admission!Usable(user, workflow[w]) /\ workflow[w].project = place
           /\ Admission!Ask(s, [kind |-> "run", row |-> Admission!RunRow(user, w, place, key)])
  <2> DEFINE row == Admission!RunRow(user, w, place, key)
             q == [kind |-> "run", row |-> row]
  <2>1. /\ row \in RunRows /\ row.key = key /\ row.workflow = w /\ row.of = w /\ row.project = place
        /\ row.owner = Admission!OwnerIn(user, place) /\ row.status = "queued"
    BY <1>3 DEF Admission!RunRow, RunRows, Admission!OwnerIn, Admission!Users
  <2>2. q \in Writes /\ q.kind = "run" /\ q.row = row
    BY <2>1 DEF Writes
  <2>3. place # None => row.owner = Owner
    BY <2>1 DEF Admission!OwnerIn
  <2>4. key # None => asked'[key] # None /\ row.owner = Admission!OwnerIn(asked'[key].user, asked'[key].project)
    BY <1>1, <1>4, <2>1 DEF Admission!OwnerIn
  <2>5. w # None => workflow[w] # None /\ workflow[w].owner = row.owner
    BY <1>7, <2>1, Read DEF Admission!Usable, Admission!OwnerIn, WorkflowSound
  <2>6. UNCHANGED workflow
    BY <1>7 DEF Admission!Ask
  <2>7. /\ key # None => asked'[key] # None /\ row.owner = Admission!OwnerIn(asked'[key].user, asked'[key].project)
        /\ w # None => workflow'[w] # None /\ workflow'[w].owner = row.owner
    BY <2>4, <2>5, <2>6
  <2> HIDE DEF row, asking
  <2>8. WriteSound(q)'
    BY <2>1, <2>2, <2>3, <2>7 DEF WriteSound, OwnsKey, Belongs
  <2>9. Admission!Ask(s, q)
    BY <1>7 DEF row
  <2> HIDE DEF q
  <2>10. AInv' /\ UNCHANGED answer
    BY <1>5, <2>2, <2>8, <2>9, AskStep
  <2> QED
    BY <2>10 DEF Admission!AnswersAreFinal
<1> QED
  BY <1>6, <1>7 DEF Admission!CreateRun

LEMMA RetryRunStep ==
  ASSUME Distinct, AInv, NEW s \in Sessions, NEW user \in Admission!Users, NEW r \in Runs, Admission!RetryRun(s, user, r)
  PROVE  AInv' /\ UNCHANGED answer
<1> DEFINE q == [kind |-> "retry", run |-> r]
<1>1. q \in Writes /\ q.kind = "retry" /\ q.run = r
  BY DEF Writes
<1>2. Admission!Ask(s, q) /\ UNCHANGED asked
  BY DEF Admission!RetryRun
<1>3. run[r] # None /\ UNCHANGED run
  BY Read DEF Admission!RetryRun, Admission!Ask
<1> HIDE DEF q
<1>4. WriteSound(q)'
  BY <1>1, <1>3 DEF WriteSound
<1>5. asked' \in [RunKeys -> Asking \cup {None}]
  BY <1>2, Read DEF AdmissionTypes
<1> QED
  BY <1>1, <1>2, <1>4, <1>5, AskStep

\* A run taken for a workflow's results has succeeded.
LEMMA ValidIsSucceeded ==
  ASSUME Distinct, AInv, NEW last \in Runs \cup {None}, NEW owner, NEW place, NEW w,
         Admission!ValidLastRun(last, owner, place, w)
  PROVE  last \in succeeded \cup {None}
BY Read DEF Admission!ValidLastRun, RunSound

LEMMA CreateWorkflowStep ==
  ASSUME Distinct, AInv, NEW s \in Sessions, NEW user \in Admission!Users, NEW place \in Admission!Places,
         NEW last \in Runs \cup {None}, Admission!CreateWorkflow(s, user, place, last)
  PROVE  AInv' /\ UNCHANGED answer
<1> DEFINE row == [project |-> place, owner |-> Admission!OwnerIn(user, place), last |-> last]
           q == [kind |-> "workflow", row |-> row]
<1>1. place \in Projects \cup {None}
  BY Read DEF AdmissionTypes, Admission!Places
<1>2. row \in WorkflowRows /\ (row.project # None => row.owner = Owner) /\ row.last = last
  BY <1>1 DEF WorkflowRows, Admission!OwnerIn, Admission!Users
<1>3. last \in succeeded \cup {None}
  <2>1. Admission!ValidLastRun(last, Admission!OwnerIn(user, place), place, None)
    BY DEF Admission!CreateWorkflow
  <2> QED
    BY <2>1, ValidIsSucceeded
<1>4. Admission!Ask(s, q) /\ UNCHANGED asked
  BY DEF Admission!CreateWorkflow
<1>5. UNCHANGED succeeded
  BY <1>4 DEF Admission!Ask
<1> HIDE DEF row
<1>6. q \in Writes /\ q.kind = "workflow" /\ q.row = row
  BY <1>2 DEF Writes
<1> HIDE DEF q
<1>7. WriteSound(q)'
  BY <1>2, <1>3, <1>5, <1>6 DEF WriteSound
<1>8. asked' \in [RunKeys -> Asking \cup {None}]
  BY <1>4, Read DEF AdmissionTypes
<1> QED
  BY <1>4, <1>6, <1>7, <1>8, AskStep

\* A change that names the columns that differ.
LEMMA ChangeStep ==
  ASSUME Distinct, AInv, NEW s \in Sessions, NEW w \in Admission!Rows(workflow), NEW C \in SUBSET {"project", "last"},
         NEW columns \in [C -> Projects \cup Runs \cup {None}],
         "project" \in C => columns["project"] \in Admission!Places /\ (columns["project"] # None => workflow[w].owner = Owner),
         "last" \in C => columns["last"] \in succeeded \cup {None},
         Admission!Ask(s, Admission!Changed(w, columns)), UNCHANGED asked
  PROVE  AInv' /\ UNCHANGED answer
<1>1. w \in Workflows /\ workflow[w] # None /\ AdmissionTypes
  BY Read
<1>2. PICK D \in SUBSET C : D = {d \in C : columns[d] # workflow[w][d]}
  OBVIOUS
<1> DEFINE set == [c \in D |-> columns[c]]
           q == [kind |-> "change", workflow |-> w, set |-> set]
<1>3. Admission!Changed(w, columns) = q
  BY <1>2 DEF Admission!Changed
<1>4. set \in Columns /\ DOMAIN set = D /\ \A c \in D : set[c] = columns[c]
  <2>1. D \in SUBSET {"project", "last"} /\ set \in [D -> Projects \cup Runs \cup {None}]
    OBVIOUS
  <2> QED
    BY <2>1 DEF Columns
<1> HIDE DEF set
<1>5. q \in Writes /\ q.kind = "change" /\ q.workflow = w /\ q.set = set
  BY <1>1, <1>4 DEF Writes
<1>6. Admission!Ask(s, q)
  BY <1>3
<1> HIDE DEF q
<1>7. UNCHANGED <<workflow, succeeded>>
  BY <1>6 DEF Admission!Ask
<1>8. Admission!Places \subseteq Projects \cup {None}
  BY <1>1 DEF AdmissionTypes, Admission!Places
<1>9. /\ "project" \in D => set["project"] \in Projects \cup {None} /\ (set["project"] # None => workflow[w].owner = Owner)
      /\ "last" \in D => set["last"] \in succeeded \cup {None}
  BY <1>4, <1>8
<1>10. WriteSound(q)'
  BY <1>1, <1>4, <1>5, <1>7, <1>9 DEF WriteSound, Belongs
<1>11. asked' \in [RunKeys -> Asking \cup {None}]
  BY <1>1 DEF AdmissionTypes
<1> QED
  BY <1>5, <1>6, <1>10, <1>11, AskStep

LEMMA UpdateWorkflowStep ==
  ASSUME Distinct, AInv, NEW s \in Sessions, NEW user \in Admission!Users, NEW w \in Workflows, NEW place \in Admission!Places,
         NEW last \in Runs \cup {None}, Admission!UpdateWorkflow(s, user, w, place, last)
  PROVE  AInv' /\ UNCHANGED answer
<1> DEFINE columns == [project |-> place, last |-> last]
<1>1. last \in succeeded \cup {None}
  <2>1. Admission!ValidLastRun(last, workflow[w].owner, place, w)
    BY DEF Admission!UpdateWorkflow
  <2>2. PICK owner : owner = workflow[w].owner
    OBVIOUS
  <2> QED
    BY <2>1, <2>2, ValidIsSucceeded
<1>2. place \in Projects \cup {None}
  BY Read DEF AdmissionTypes, Admission!Places
<1>3. /\ columns \in [{"project", "last"} -> Projects \cup Runs \cup {None}]
      /\ columns["project"] = place /\ columns["last"] = last
  BY <1>2
<1>4. /\ w \in Admission!Rows(workflow) /\ (place = None \/ workflow[w].owner = Owner)
      /\ Admission!Ask(s, Admission!Changed(w, columns)) /\ UNCHANGED asked
  BY DEF Admission!UpdateWorkflow
<1> HIDE DEF columns
<1> QED
  BY <1>1, <1>3, <1>4, ChangeStep

LEMMA AutosaveWorkflowStep ==
  ASSUME Distinct, AInv, NEW s \in Sessions, NEW user \in Admission!Users, NEW w \in Workflows, NEW place \in Admission!Places,
         Admission!AutosaveWorkflow(s, user, w, place)
  PROVE  AInv' /\ UNCHANGED answer
<1> DEFINE columns == [project |-> place]
<1>1. place \in Projects \cup {None}
  BY Read DEF AdmissionTypes, Admission!Places
<1>2. columns \in [{"project"} -> Projects \cup Runs \cup {None}] /\ columns["project"] = place
  BY <1>1
<1>3. /\ w \in Admission!Rows(workflow) /\ (place = None \/ workflow[w].owner = Owner)
      /\ Admission!Ask(s, Admission!Changed(w, columns)) /\ UNCHANGED asked
  BY DEF Admission!AutosaveWorkflow
<1> HIDE DEF columns
<1> QED
  BY <1>2, <1>3, ChangeStep

LEMMA DeleteWorkflowStep ==
  ASSUME Distinct, AInv, NEW s \in Sessions, NEW user \in Admission!Users, NEW w \in Workflows, Admission!DeleteWorkflow(s, user, w)
  PROVE  AInv' /\ UNCHANGED answer
<1> DEFINE q == [kind |-> "delete", workflow |-> w]
<1>1. q \in Writes /\ q.kind = "delete" /\ q.workflow = w
  BY DEF Writes
<1>2. Admission!Ask(s, q) /\ UNCHANGED asked
  BY DEF Admission!DeleteWorkflow
<1>3. workflow[w] # None /\ UNCHANGED workflow
  BY Read DEF Admission!DeleteWorkflow, Admission!Ask
\* The rows of a workflow's runs have its owner.
<1>4. \A r \in Admission!ActiveRuns : run[r].workflow # w
  <2> SUFFICES ASSUME NEW r \in Admission!ActiveRuns, run[r].workflow = w
               PROVE  FALSE
    OBVIOUS
  <2>1. r \in Runs /\ run[r] # None /\ w \in Admission!Rows(workflow) /\ w # None
    BY Read DEF Admission!DeleteWorkflow, RunRows, Distinct
  <2>2. run[r].owner = workflow[w].owner
    BY <2>1, Read DEF RunSound, Belongs
  <2> QED
    BY <2>2 DEF Admission!DeleteWorkflow
<1> HIDE DEF q
<1>5. WriteSound(q)'
  BY <1>1, <1>3 DEF WriteSound
<1>6. asked' \in [RunKeys -> Asking \cup {None}]
  BY <1>2, Read DEF AdmissionTypes
<1> QED
  BY <1>1, <1>2, <1>4, <1>5, <1>6, AskStep

-----------------------------------------------------------------------------
(* What a commit writes *)

\* The session that commits has nothing in flight after it.
CommitFrame(s) ==
  /\ request[s] # None /\ request' = [request EXCEPT ![s] = None]
  /\ UNCHANGED <<asked, overlapped>>

LEMMA CommitFrameIs ==
  ASSUME Distinct, AInv, NEW s \in Sessions, CommitFrame(s)
  PROVE  /\ request' \in [Sessions -> Writes \cup {None}] /\ request'[s] = None
         /\ \A t \in Sessions : t # s => request'[t] = request[t]
         /\ \A t \in Sessions : request'[t] \in {request[t], None}
         /\ ~overlapped => \A t \in Sessions : request'[t] = None
<1>1. AdmissionTypes /\ InTurn
  BY Read
<1>2. \A t \in Sessions : request'[t] = IF t = s THEN None ELSE request[t]
  BY <1>1 DEF AdmissionTypes, CommitFrame
<1>3. ~overlapped => \A t \in Sessions : request'[t] = None
  BY <1>1, <1>2 DEF InTurn, CommitFrame
<1> QED
  BY <1>1, <1>2, <1>3 DEF AdmissionTypes, CommitFrame

\* Runs whose rows name what is there, when workflows and projects stay.
LEMMA RunOnward ==
  ASSUME Onward, UNCHANGED projects, NEW r \in Runs, RunSound(r), run[r] \in RunRows \cup {None},
         run'[r] = run[r], Admission!Rows(workflow) \subseteq Admission!Rows(workflow)', Admission!Rows(workflow) \subseteq Workflows
  PROVE  RunSound(r)'
<1>1. SUFFICES ASSUME run[r] # None
               PROVE  RunSound(r)'
  BY DEF RunSound
<1>2. run[r].key \in RunKeys \cup {None} /\ OwnsKey(run[r].key, run[r].owner)
  BY <1>1 DEF RunSound, RunRows
<1>3. PICK key \in RunKeys \cup {None} : key = run[r].key
  BY <1>2
<1>4. PICK owner : owner = run[r].owner
  OBVIOUS
<1>5. OwnsKey(key, owner)
  BY <1>2, <1>3, <1>4
<1>6. OwnsKey(key, owner)'
  BY <1>5, OwnsKeyOnward
<1>7. key = run'[r].key /\ owner = run'[r].owner
  BY <1>3, <1>4
<1>8. OwnsKey(run[r].key, run[r].owner)'
  BY <1>6, <1>7 DEF OwnsKey
<1>9. run[r].workflow # None => run[r].workflow \in Admission!Rows(workflow)' /\ Belongs(run[r].workflow, run[r].owner)'
  BY <1>1 DEF RunSound, Belongs, Onward
<1> QED
  BY <1>1, <1>8, <1>9 DEF RunSound, Admission!Places, Onward

LEMMA InsertRunStep ==
  ASSUME Distinct, AInv, NEW s \in Sessions, CommitFrame(s), request[s].kind = "run",
         Admission!InsertRun(request[s].row)
  PROVE  AInv' /\ Admission!AnswersAreFinal
<1>1. request[s] \in Writes /\ WriteSound(request[s])
  BY Read DEF CommitFrame
<1>2. PICK row \in RunRows : row = request[s].row
  BY <1>1, WriteKinds
<1>3. /\ OwnsKey(row.key, row.owner) /\ row.key \in RunKeys \cup {None} /\ row.workflow \in Workflows \cup {None}
      /\ row.workflow # None => Belongs(row.workflow, row.owner)
      /\ row.project # None => row.owner = Owner
      /\ row.status = "queued" /\ row.of = row.workflow
  BY <1>1, <1>2 DEF WriteSound, RunRows
<1>4. Admission!InsertRun(row)
  BY <1>2
<1>5. UNCHANGED <<workflow, projects, succeeded, asked, overlapped>>
  BY <1>4 DEF Admission!InsertRun, CommitFrame
<1>6. AdmissionTypes /\ KeysSound /\ InTurn /\ None # row
  BY Read DEF Distinct
<1>7. Admission!FindIdempotent(row.owner, row.key) = {r \in Runs : run[r] # None /\ row.key # None /\ run[r].owner = row.owner
                                                          /\ run[r].key = row.key}
  BY Read DEF Admission!FindIdempotent
\* Every run of the key has the owner of the key.
<1>8. ASSUME NEW r \in Runs, run[r] # None, row.key # None, run[r].key = row.key
      PROVE  r \in Admission!FindIdempotent(row.owner, row.key)
  BY <1>3, <1>7, <1>8, Read DEF RunSound, OwnsKey
<1>9. \A t \in Sessions : request'[t] \in {request[t], None}
  BY CommitFrameIs
<1>10. request' \in [Sessions -> Writes \cup {None}] /\ (~overlapped => \A t \in Sessions : request'[t] = None)
  BY CommitFrameIs
<1>11. /\ Admission!Rows(workflow)' = Admission!Rows(workflow) /\ Admission!Rows(workflow) \subseteq Workflows
       /\ \A r \in Runs : run[r] \in RunRows \cup {None} /\ RunSound(r)
       /\ \A w \in Workflows : WorkflowSound(w)
  BY <1>5, <1>6, Read DEF Admission!Rows, AdmissionTypes
<1>12. \A w \in Workflows : WorkflowSound(w)'
  BY <1>5, <1>11 DEF WorkflowSound, Admission!Places, Admission!Rows
<1>13. CASE UNCHANGED run /\ (UNCHANGED answer \/ \E r \in Admission!FindIdempotent(row.owner, row.key) : Admission!Reply(row.key, r))
  <2>1. Onward
    BY <1>5, <1>13 DEF Onward
  <2>2. answer' \in [RunKeys -> Runs \cup {None}] /\ KeysSound' /\ Admission!AnswersAreFinal
    <3>1. CASE UNCHANGED answer
      BY <1>6, <1>13, <3>1 DEF AdmissionTypes, KeysSound, Admission!AnswersAreFinal
    <3>2. CASE \E r \in Admission!FindIdempotent(row.owner, row.key) : Admission!Reply(row.key, r)
      <4>1. PICK r \in Admission!FindIdempotent(row.owner, row.key) : answer' = [k \in RunKeys |-> IF k = row.key THEN r ELSE answer[k]]
        BY <3>2 DEF Admission!Reply
      <4>2. r \in Runs /\ run[r] # None /\ run[r].key = row.key /\ row.key # None
        BY <1>7, <4>1
      <4> QED
        BY <1>6, <1>13, <4>1, <4>2 DEF AdmissionTypes, KeysSound, Admission!AnswersAreFinal
    <3> QED
      BY <1>13, <3>1, <3>2
  <2>3. \A r \in Runs : RunSound(r)'
    BY <1>5, <1>11, <1>13, <2>1, RunOnward
  <2>4. InTurn'
    BY <1>5, <1>6, <1>10, <1>13 DEF InTurn
  <2>5. AdmissionTypes'
    BY <1>5, <1>6, <1>10, <1>13, <2>2 DEF AdmissionTypes
  <2>6. \A t \in Sessions : RequestSound(t)'
    BY <1>9, <2>1, RequestsOnward
  <2> QED
    BY <1>12, <2>2, <2>3, <2>4, <2>5, <2>6 DEF AInv
<1>14. CASE /\ Admission!FindIdempotent(row.owner, row.key) = {}
            /\ (row.workflow = None \/ row.workflow \in Admission!Rows(workflow)) /\ row.project \in Admission!Places
            /\ \E r \in Runs \ Admission!Rows(run) : run' = [run EXCEPT ![r] = row] /\ Admission!Reply(row.key, r)
  <2>1. PICK r \in Runs \ Admission!Rows(run) : /\ run' = [run EXCEPT ![r] = row]
                                      /\ answer' = [k \in RunKeys |-> IF k = row.key THEN r ELSE answer[k]]
    BY <1>14 DEF Admission!Reply
  <2>2. r \in Runs /\ run[r] = None /\ run'[r] = row /\ \A q \in Runs : q # r => run'[q] = run[q]
    BY <1>6, <2>1, Read DEF AdmissionTypes
  <2>3. Onward
    BY <1>5, <1>6, <2>2 DEF Onward
  <2>4. AdmissionTypes'
    BY <1>5, <1>6, <1>10, <2>1, <2>2 DEF AdmissionTypes
  <2>5. \A q \in Runs : run[q] # None /\ row.key # None => run[q].key # row.key
    BY <1>8, <1>14
  <2>6. KeysSound' /\ Admission!AnswersAreFinal
    <3>1. \A p, q \in Runs : run'[p] # None /\ run'[q] # None /\ run'[p].key # None /\ run'[p].key = run'[q].key => p = q
      BY <1>6, <2>2, <2>5 DEF KeysSound
    <3>2. \A k \in RunKeys : answer[k] # None => answer[k] \in Runs /\ run[answer[k]] # None /\ run[answer[k]].key = k
      BY <1>6 DEF KeysSound, AdmissionTypes
    <3>3. ASSUME NEW k \in RunKeys, k = row.key
          PROVE  answer[k] = None /\ answer'[k] = r /\ run'[r] # None /\ run'[r].key = k
      BY <1>6, <2>1, <2>2, <2>5, <3>2, <3>3 DEF Distinct
    <3>4. ASSUME NEW k \in RunKeys, k # row.key
          PROVE  /\ answer'[k] = answer[k]
                 /\ answer'[k] # None => run'[answer'[k]] # None /\ run'[answer'[k]].key = k
      BY <2>1, <2>2, <3>2, <3>4
    <3>5. \A k \in RunKeys : answer'[k] # None => run'[answer'[k]] # None /\ run'[answer'[k]].key = k
      BY <3>3, <3>4
    <3> QED
      BY <3>1, <3>3, <3>4, <3>5 DEF KeysSound, Admission!AnswersAreFinal
  <2>7. ASSUME NEW q \in Runs
        PROVE  RunSound(q)'
    <3>1. CASE q = r
      <4>1. OwnsKey(row.key, row.owner)'
        BY <1>3, <2>3, OwnsKeyOnward
      <4>2. row.workflow # None => row.workflow \in Admission!Rows(workflow)' /\ Belongs(row.workflow, row.owner)'
        BY <1>3, <1>5, <1>11, <1>14 DEF Belongs
      <4>3. run'[q] = row
        BY <2>2, <3>1
      <4> QED
        BY <1>3, <1>5, <1>14, <4>1, <4>2, <4>3 DEF RunSound, Admission!Places, OwnsKey, Belongs
    <3>2. CASE q # r
      BY <1>5, <1>11, <2>2, <2>3, <3>2, RunOnward
    <3> QED
      BY <3>1, <3>2
  <2>8. InTurn'
    BY <1>3, <1>5, <1>6, <1>10, <2>2 DEF InTurn
  <2>9. \A t \in Sessions : RequestSound(t)'
    BY <1>9, <2>3, RequestsOnward
  <2> QED
    BY <1>12, <2>4, <2>6, <2>7, <2>8, <2>9 DEF AInv
<1> QED
  BY <1>4, <1>13, <1>14 DEF Admission!InsertRun

\* A step that changes the status of runs, or takes their workflow or project away.
SameKeys ==
  /\ UNCHANGED answer
  /\ \A r \in Runs : (run'[r] # None <=> run[r] # None) /\ (run[r] # None => run'[r].key = run[r].key)

LEMMA KeysOnward ==
  ASSUME AdmissionTypes, KeysSound, SameKeys, None \notin Runs
  PROVE  KeysSound'
BY DEF KeysSound, SameKeys, AdmissionTypes

LEMMA RetryCommitStep ==
  ASSUME Distinct, AInv, NEW s \in Sessions, CommitFrame(s), request[s].kind = "retry",
         run' = [run EXCEPT ![request[s].run].status = "queued", ![request[s].run].of = run[request[s].run].workflow],
         UNCHANGED <<workflow, projects, answer, succeeded>>
  PROVE  AInv'
<1>1. request[s] \in Writes /\ WriteSound(request[s])
  BY Read DEF CommitFrame
<1>2. PICK r \in Runs : r = request[s].run
  BY <1>1, WriteKinds
<1>3. run[r] # None
  BY <1>1, <1>2 DEF WriteSound
<1>4. AdmissionTypes /\ KeysSound /\ InTurn /\ None \notin Runs
  BY Read DEF Distinct
<1>5. run[r] \in RunRows
  BY <1>3, <1>4 DEF AdmissionTypes
<1>6. run' = [run EXCEPT ![r] = [run[r] EXCEPT !.status = "queued", !.of = run[r].workflow]]
  BY <1>2, <1>4 DEF AdmissionTypes
<1>7. /\ run'[r] = [run[r] EXCEPT !.status = "queued", !.of = run[r].workflow]
      /\ \A q \in Runs : q # r => run'[q] = run[q]
  BY <1>4, <1>6 DEF AdmissionTypes
<1>8. /\ run'[r] \in RunRows /\ run'[r] # None
      /\ run'[r].status = "queued" /\ run'[r].of = run'[r].workflow /\ run'[r].workflow = run[r].workflow
      /\ run'[r].key = run[r].key /\ run'[r].owner = run[r].owner /\ run'[r].project = run[r].project
  <2>1. PICK old \in RunRows : old = run[r]
    BY <1>5
  <2>2. run'[r] = [old EXCEPT !.status = "queued", !.of = old.workflow]
    BY <1>7, <2>1
  <2>3. run'[r] = [workflow |-> old.workflow, project |-> old.project, owner |-> old.owner, key |-> old.key,
                   of |-> old.workflow, status |-> "queued"]
    <3>1. DOMAIN old = {"workflow", "project", "owner", "key", "of", "status"}
      BY DEF RunRows
    <3>2. DOMAIN run'[r] = DOMAIN old /\ \A c \in DOMAIN old :
            run'[r][c] = IF c = "of" THEN old.workflow ELSE IF c = "status" THEN "queued" ELSE old[c]
      BY ONLY <2>2, <3>1
    <3>3. run'[r] = [c \in DOMAIN old |-> run'[r][c]]
      BY ONLY <2>2
    <3> QED
      BY ONLY <3>1, <3>2, <3>3
  <2>4. run'[r] \in RunRows
    BY <2>3 DEF RunRows
  <2> QED
    BY <2>1, <2>3, <2>4 DEF Distinct
<1>9. Onward
  BY <1>4, <1>7, <1>8 DEF Onward, CommitFrame
<1>10. AdmissionTypes'
  <2>1. run' \in [Runs -> RunRows \cup {None}]
    BY <1>4, <1>6, <1>7, <1>8 DEF AdmissionTypes
  <2> QED
    BY <1>4, <2>1, CommitFrameIs DEF AdmissionTypes, CommitFrame
<1>11. KeysSound'
  BY <1>3, <1>4, <1>7, <1>8, KeysOnward DEF SameKeys
<1>12. Admission!Rows(workflow)' = Admission!Rows(workflow) /\ Admission!Rows(workflow) \subseteq Workflows
  BY Read DEF Admission!Rows
<1>13. ASSUME NEW q \in Runs
       PROVE  RunSound(q)'
  <2>1. RunSound(q) /\ run[q] \in RunRows \cup {None}
    BY <1>4, Read DEF AdmissionTypes
  <2>2. CASE q # r
    BY <1>7, <1>9, <1>12, <2>1, <2>2, RunOnward
  <2>3. CASE q = r
    <3>1. UNCHANGED <<asked, workflow, projects>>
      BY DEF CommitFrame
    <3> QED
      BY <1>3, <1>8, <1>12, <2>1, <2>3, <3>1 DEF RunSound, OwnsKey, Belongs, Admission!Places
  <2> QED
    BY <2>2, <2>3
<1>14. \A w \in Workflows : WorkflowSound(w)'
  BY Read DEF WorkflowSound, Admission!Places, Admission!Rows
<1>15. InTurn'
  <2>1. SUFFICES ASSUME ~overlapped'
                 PROVE  InTurn'
    BY DEF InTurn
  <2>2. ~overlapped /\ \A t \in Sessions : request'[t] = None
    BY <2>1, CommitFrameIs DEF CommitFrame
  <2> QED
    BY <1>4, <1>7, <1>8, <2>2 DEF InTurn
<1>16. \A t \in Sessions : request'[t] \in {request[t], None}
  BY CommitFrameIs
<1>17. \A t \in Sessions : RequestSound(t)'
  BY <1>9, <1>16, RequestsOnward
<1> QED
  BY <1>10, <1>11, <1>13, <1>14, <1>15, <1>17 DEF AInv

\* A commit that adds or changes a workflow.
LEMMA WorkflowCommit ==
  ASSUME Distinct, AInv, NEW s \in Sessions, CommitFrame(s), Onward,
         UNCHANGED <<run, projects, answer, succeeded>>,
         workflow' \in [Workflows -> WorkflowRows \cup {None, Gone}],
         Admission!Rows(workflow) \subseteq Admission!Rows(workflow)',
         \A w \in Workflows : WorkflowSound(w)'
  PROVE  AInv'
<1>1. /\ AdmissionTypes /\ KeysSound /\ InTurn
      /\ Admission!Rows(workflow) \subseteq Workflows
      /\ \A r \in Runs : run[r] \in RunRows \cup {None} /\ RunSound(r)
  BY Read DEF AdmissionTypes
<1>2. AdmissionTypes'
  BY <1>1, CommitFrameIs DEF AdmissionTypes, CommitFrame
<1>3. KeysSound'
  BY <1>1 DEF KeysSound
<1>4. InTurn'
  <2>1. SUFFICES ASSUME ~overlapped'
                 PROVE  InTurn'
    BY DEF InTurn
  <2>2. ~overlapped /\ \A t \in Sessions : request'[t] = None
    BY <2>1, CommitFrameIs DEF CommitFrame
  <2> QED
    BY <1>1, <2>2 DEF InTurn
<1>5. \A r \in Runs : RunSound(r)'
  BY <1>1, RunOnward
<1>6. \A t \in Sessions : request'[t] \in {request[t], None}
  BY CommitFrameIs
<1>7. \A t \in Sessions : RequestSound(t)'
  BY <1>6, RequestsOnward
<1> QED
  BY <1>2, <1>3, <1>4, <1>5, <1>7 DEF AInv

LEMMA InsertWorkflowStep ==
  ASSUME Distinct, AInv, NEW s \in Sessions, CommitFrame(s), request[s].kind = "workflow",
         Admission!InsertWorkflow(request[s].row)
  PROVE  AInv'
<1>1. request[s] \in Writes /\ WriteSound(request[s])
  BY Read DEF CommitFrame
<1>2. PICK row \in WorkflowRows : row = request[s].row
  BY <1>1, WriteKinds
<1>3. (row.project # None => row.owner = Owner) /\ row.last \in succeeded \cup {None}
  BY <1>1, <1>2 DEF WriteSound
<1>4. Admission!InsertWorkflow(row) /\ row # None /\ row # Gone /\ None # Gone
  BY <1>2 DEF Distinct
<1>5. UNCHANGED <<run, projects, answer, succeeded, asked>>
  BY <1>4 DEF Admission!InsertWorkflow, CommitFrame
<1>6. AdmissionTypes /\ \A w \in Workflows : WorkflowSound(w)
  BY Read
<1>7. CASE UNCHANGED workflow
  BY <1>5, <1>6, <1>7, WorkflowCommit DEF AdmissionTypes, Onward, WorkflowSound, Admission!Rows, Admission!Places
<1>8. CASE /\ row.project \in Admission!Places
           /\ \E w \in Workflows : workflow[w] = None /\ workflow' = [workflow EXCEPT ![w] = row]
  <2>1. PICK w \in Workflows : workflow[w] = None /\ workflow' = [workflow EXCEPT ![w] = row]
    BY <1>8
  <2>2. workflow'[w] = row /\ \A v \in Workflows : v # w => workflow'[v] = workflow[v]
    BY <1>6, <2>1 DEF AdmissionTypes
  <2>3. workflow' \in [Workflows -> WorkflowRows \cup {None, Gone}]
    BY <1>6, <2>1, <2>2 DEF AdmissionTypes
  <2>4. Onward
    BY <1>5, <2>1, <2>2 DEF Onward
  <2>5. DOMAIN workflow = Workflows /\ DOMAIN workflow' = Workflows
    BY <1>6, <2>3 DEF AdmissionTypes
  <2>6. Admission!Rows(workflow) \subseteq Admission!Rows(workflow)'
    BY <1>4, <2>1, <2>2, <2>5 DEF Admission!Rows
  <2>7. \A v \in Workflows : WorkflowSound(v)'
    BY <1>3, <1>5, <1>6, <1>8, <2>2, <2>5 DEF WorkflowSound, Admission!Rows, Admission!Places
  <2> QED
    BY <1>5, <2>3, <2>4, <2>6, <2>7, WorkflowCommit
<1> QED
  BY <1>4, <1>7, <1>8 DEF Admission!InsertWorkflow

LEMMA WriteWorkflowStep ==
  ASSUME Distinct, AInv, NEW s \in Sessions, CommitFrame(s), request[s].kind = "change",
         Admission!WriteWorkflow(request[s].workflow, request[s].set)
  PROVE  AInv'
<1>1. request[s] \in Writes /\ WriteSound(request[s])
  BY Read DEF CommitFrame
<1>2. PICK w \in Workflows, set \in Columns : w = request[s].workflow /\ set = request[s].set
  BY <1>1, WriteKinds
<1>3. /\ "project" \in DOMAIN set =>
           set["project"] \in Projects \cup {None} /\ (set["project"] # None => Belongs(w, Owner))
      /\ "last" \in DOMAIN set => set["last"] \in succeeded \cup {None}
  BY <1>1, <1>2 DEF WriteSound
<1>4. Admission!WriteWorkflow(w, set)
  BY <1>2
<1>5. UNCHANGED <<run, projects, answer, succeeded, asked>>
  BY <1>4 DEF Admission!WriteWorkflow, CommitFrame
<1>6. /\ AdmissionTypes /\ \A v \in Workflows : WorkflowSound(v)
      /\ Admission!Rows(workflow) = {v \in Workflows : workflow[v] # None /\ workflow[v] # Gone}
      /\ \A v \in Admission!Rows(workflow) : workflow[v] \in WorkflowRows
  BY Read
<1>7. CASE UNCHANGED workflow
  BY <1>5, <1>6, <1>7, WorkflowCommit DEF AdmissionTypes, Onward, WorkflowSound, Admission!Rows, Admission!Places
<1>8. CASE /\ w \in Admission!Rows(workflow) /\ Admission!Updated(workflow[w], set).project \in Admission!Places
           /\ workflow' = [workflow EXCEPT ![w] = Admission!Updated(workflow[w], set)]
  <2>1. PICK old \in WorkflowRows : old = workflow[w]
    BY <1>6, <1>8
  <2>2. "last" \in DOMAIN set => set["last"] \in Runs \cup {None}
    BY <1>3, <1>6 DEF AdmissionTypes
  <2>3. PICK new : new = Admission!Updated(old, set)
    OBVIOUS
  <2>4. /\ new \in WorkflowRows /\ new.owner = old.owner
        /\ new.project = IF "project" \in DOMAIN set THEN set["project"] ELSE old.project
        /\ new.last = IF "last" \in DOMAIN set THEN set["last"] ELSE old.last
    BY <1>3, <2>2, <2>3, UpdatedIs
  <2>5. workflow' = [workflow EXCEPT ![w] = new] /\ new.project \in Admission!Places /\ w \in Admission!Rows(workflow)
    BY <1>8, <2>1, <2>3
  <2>6. workflow'[w] = new /\ new # None /\ new # Gone /\ \A v \in Workflows : v # w => workflow'[v] = workflow[v]
    BY <1>6, <2>4, <2>5 DEF AdmissionTypes, Distinct
  <2>7. workflow' \in [Workflows -> WorkflowRows \cup {None, Gone}]
    BY <1>6, <2>4, <2>5, <2>6 DEF AdmissionTypes
  <2>8. workflow[w] # None /\ workflow[w] # Gone /\ WorkflowSound(w)
    BY <1>6, <2>5
  <2>9. Onward
    BY <1>5, <2>1, <2>4, <2>6, <2>8 DEF Onward
  <2>10. DOMAIN workflow = Workflows /\ DOMAIN workflow' = Workflows
    BY <1>6, <2>7 DEF AdmissionTypes
  <2>11. Admission!Rows(workflow) \subseteq Admission!Rows(workflow)'
    BY <2>6, <2>10 DEF Admission!Rows
  <2>12. (new.project # None => new.owner = Owner) /\ new.last \in succeeded \cup {None}
    <3>1. (old.project # None => old.owner = Owner) /\ old.last \in succeeded \cup {None}
      BY <2>1, <2>5, <2>8 DEF WorkflowSound
    <3> QED
      BY <1>3, <2>1, <2>4, <2>8, <3>1 DEF Belongs
  <2>13. \A v \in Workflows : WorkflowSound(v)'
    BY <1>5, <1>6, <2>5, <2>6, <2>10, <2>12 DEF WorkflowSound, Admission!Rows, Admission!Places
  <2> QED
    BY <1>5, <2>7, <2>9, <2>11, <2>13, WorkflowCommit
<1> QED
  BY <1>4, <1>7, <1>8 DEF Admission!WriteWorkflow

\* The rows that refer to a workflow or a project that goes refer to none.
RunsDetached(column, gone) ==
  /\ run' \in [Runs -> RunRows \cup {None}]
  /\ \A r \in Runs :
       /\ run'[r] # None <=> run[r] # None
       /\ run[r] # None =>
            /\ run'[r].key = run[r].key /\ run'[r].owner = run[r].owner
            /\ run'[r].of = run[r].of /\ run'[r].status = run[r].status
            /\ \A c \in {"workflow", "project"} :
                 run'[r][c] = IF c = column /\ run[r][c] \in gone THEN None ELSE run[r][c]

LEMMA DetachedRuns ==
  ASSUME AdmissionTypes, Distinct, NEW column \in {"workflow", "project"}, NEW gone,
         run' = Admission!Detached(run, column, gone), Admission!Rows(run) = {r \in Runs : run[r] # None}
  PROVE  RunsDetached(column, gone)
<1>1. DOMAIN run = Runs
  BY DEF AdmissionTypes
<1>2. run' = [r \in Runs |-> IF run[r] # None /\ run[r][column] \in gone
                             THEN [run[r] EXCEPT ![column] = None] ELSE run[r]]
  BY <1>1 DEF Admission!Detached
<1>3. ASSUME NEW r \in Runs, run[r] # None
      PROVE  /\ run'[r] \in RunRows /\ run'[r] # None
             /\ run'[r].key = run[r].key /\ run'[r].owner = run[r].owner
             /\ run'[r].of = run[r].of /\ run'[r].status = run[r].status
             /\ \A c \in {"workflow", "project"} :
                  run'[r][c] = IF c = column /\ run[r][c] \in gone THEN None ELSE run[r][c]
  <2>1. PICK old \in RunRows : old = run[r]
    BY <1>3 DEF AdmissionTypes
  <2>2. run'[r] = IF old[column] \in gone THEN [old EXCEPT ![column] = None] ELSE old
    BY <1>2, <1>3, <2>1
  <2>3. ASSUME NEW new, new = [old EXCEPT ![column] = None]
        PROVE  /\ new \in RunRows
               /\ new.key = old.key /\ new.owner = old.owner /\ new.of = old.of /\ new.status = old.status
               /\ \A c \in {"workflow", "project"} : new[c] = IF c = column THEN None ELSE old[c]
    <3>1. CASE column = "workflow"
      BY <2>3, <3>1 DEF RunRows
    <3>2. CASE column = "project"
      BY <2>3, <3>2 DEF RunRows
    <3> QED
      BY <3>1, <3>2
  <2>4. CASE old[column] \in gone
    BY <2>1, <2>2, <2>3, <2>4 DEF Distinct
  <2>5. CASE old[column] \notin gone
    BY <2>1, <2>2, <2>5 DEF Distinct
  <2> QED
    BY <2>4, <2>5
<1>4. \A r \in Runs : run[r] = None => run'[r] = None
  BY <1>2
<1> QED
  BY <1>2, <1>3, <1>4 DEF RunsDetached

LEMMA DetachedWorkflows ==
  ASSUME AdmissionTypes, Distinct, NEW gone, workflow' = Admission!Detached(workflow, "project", gone),
         Admission!Rows(workflow) = {w \in Workflows : workflow[w] # None /\ workflow[w] # Gone}
  PROVE  /\ workflow' \in [Workflows -> WorkflowRows \cup {None, Gone}]
         /\ \A w \in Workflows :
              IF w \in Admission!Rows(workflow)
              THEN /\ workflow'[w] # None /\ workflow'[w] # Gone
                   /\ workflow'[w].owner = workflow[w].owner /\ workflow'[w].last = workflow[w].last
                   /\ workflow'[w].project = IF workflow[w].project \in gone THEN None ELSE workflow[w].project
              ELSE workflow'[w] = workflow[w]
         /\ Admission!Rows(workflow)' = Admission!Rows(workflow)
<1>1. DOMAIN workflow = Workflows
  BY DEF AdmissionTypes
<1>2. workflow' = [w \in Workflows |-> IF w \in Admission!Rows(workflow) /\ workflow[w].project \in gone
                                       THEN [workflow[w] EXCEPT !.project = None] ELSE workflow[w]]
  BY <1>1 DEF Admission!Detached
<1>3. ASSUME NEW w \in Admission!Rows(workflow)
      PROVE  /\ workflow'[w] \in WorkflowRows /\ workflow'[w] # None /\ workflow'[w] # Gone
             /\ workflow'[w].owner = workflow[w].owner /\ workflow'[w].last = workflow[w].last
             /\ workflow'[w].project = IF workflow[w].project \in gone THEN None ELSE workflow[w].project
  <2>1. PICK old \in WorkflowRows : old = workflow[w] /\ w \in Workflows
    BY <1>3 DEF AdmissionTypes
  <2>2. workflow'[w] = IF old.project \in gone THEN [old EXCEPT !.project = None] ELSE old
    BY <1>2, <1>3, <2>1
  <2>3. ASSUME NEW new, new = [old EXCEPT !.project = None]
        PROVE  new \in WorkflowRows /\ new.owner = old.owner /\ new.last = old.last /\ new.project = None
    BY <2>3 DEF WorkflowRows
  <2>4. CASE old.project \in gone
    BY <2>1, <2>2, <2>3, <2>4 DEF Distinct
  <2>5. CASE old.project \notin gone
    BY <2>1, <2>2, <2>5 DEF Distinct
  <2> QED
    BY <2>4, <2>5
<1>4. \A w \in Workflows : w \notin Admission!Rows(workflow) => workflow'[w] = workflow[w] /\ workflow'[w] \in {None, Gone}
  BY <1>2
<1>5. workflow' \in [Workflows -> WorkflowRows \cup {None, Gone}]
  BY <1>2, <1>3, <1>4
<1>6. DOMAIN workflow' = Workflows
  BY <1>5
<1>7. Admission!Rows(workflow)' = Admission!Rows(workflow)
  BY <1>3, <1>4, <1>6 DEF Admission!Rows
<1> QED
  BY <1>3, <1>4, <1>5, <1>7

\* The workflow of a run at work is not one that is deleted while requests are handled in turn.
LEMMA RemoveWorkflowStep ==
  ASSUME Distinct, AInv, NEW s \in Sessions, CommitFrame(s), request[s].kind = "delete",
         Admission!RemoveWorkflow(request[s].workflow)
  PROVE  AInv'
<1>1. request[s] \in Writes /\ WriteSound(request[s])
  BY Read DEF CommitFrame
<1>2. PICK w \in Workflows : w = request[s].workflow
  BY <1>1, WriteKinds
<1>3. workflow[w] # None
  BY <1>1, <1>2 DEF WriteSound
<1>4. Admission!RemoveWorkflow(w)
  BY <1>2
<1>5. workflow' = [workflow EXCEPT ![w] = Gone] /\ run' = Admission!Detached(run, "workflow", {w})
      /\ UNCHANGED <<projects, answer, succeeded, asked>>
  BY <1>4 DEF Admission!RemoveWorkflow, CommitFrame
<1>6. /\ AdmissionTypes /\ KeysSound /\ InTurn
      /\ \A v \in Workflows : WorkflowSound(v)
      /\ Admission!Rows(run) = {r \in Runs : run[r] # None}
      /\ Admission!Rows(workflow) = {v \in Workflows : workflow[v] # None /\ workflow[v] # Gone}
  BY Read
<1>7. /\ run' \in [Runs -> RunRows \cup {None}]
      /\ \A r \in Runs :
           /\ run'[r] # None <=> run[r] # None
           /\ run[r] # None =>
                /\ run'[r].key = run[r].key /\ run'[r].owner = run[r].owner
                /\ run'[r].of = run[r].of /\ run'[r].status = run[r].status
                /\ run'[r].workflow = IF run[r].workflow = w THEN None ELSE run[r].workflow
                /\ run'[r].project = run[r].project
  <2>1. "workflow" \in {"workflow", "project"}
    OBVIOUS
  <2>2. RunsDetached("workflow", {w})
    BY <1>5, <1>6, <2>1, DetachedRuns
  <2> QED
    BY <2>2 DEF RunsDetached
<1>8. workflow'[w] = Gone /\ \A v \in Workflows : v # w => workflow'[v] = workflow[v]
  BY <1>5, <1>6 DEF AdmissionTypes
<1>9. workflow' \in [Workflows -> WorkflowRows \cup {None, Gone}]
  BY <1>5, <1>6 DEF AdmissionTypes
<1>10. Onward
  BY <1>3, <1>5, <1>7, <1>8 DEF Onward, Distinct
<1>11. DOMAIN workflow' = Workflows /\ Admission!Rows(workflow)' = Admission!Rows(workflow) \ {w}
  <2>1. DOMAIN workflow' = Workflows
    BY <1>9
  <2>2. Admission!Rows(workflow)' = {v \in Workflows : workflow'[v] # None /\ workflow'[v] # Gone}
    BY <2>1 DEF Admission!Rows
  <2> QED
    BY <1>6, <1>8, <2>1, <2>2
<1>12. AdmissionTypes'
  BY <1>5, <1>6, <1>7, <1>9, CommitFrameIs DEF AdmissionTypes, CommitFrame
<1>13. KeysSound'
  BY <1>5, <1>6, <1>7, KeysOnward DEF SameKeys, Distinct
<1>14. ASSUME NEW r \in Runs
       PROVE  RunSound(r)'
  <2>1. SUFFICES ASSUME run[r] # None
                 PROVE  RunSound(r)'
    BY <1>7 DEF RunSound
  <2>2. RunSound(r)
    BY Read
  <2>3. OwnsKey(run[r].key, run[r].owner)'
    BY <1>5, <1>7, <2>1, <2>2 DEF RunSound, OwnsKey
  <2>4. run'[r].workflow # None => /\ run'[r].workflow = run[r].workflow
                                   /\ run'[r].workflow \in Admission!Rows(workflow)'
    BY <1>7, <1>11, <2>1, <2>2 DEF RunSound
  <2>5. run'[r].workflow # None => workflow'[run'[r].workflow] = workflow[run[r].workflow]
    BY <1>6, <1>7, <1>8, <1>11, <2>1, <2>2 DEF RunSound
  <2>6. run'[r].workflow # None => Belongs(run[r].workflow, run[r].owner)'
    BY <1>7, <2>1, <2>2, <2>4, <2>5 DEF RunSound, Belongs
  <2> QED
    BY <1>5, <1>7, <2>1, <2>2, <2>3, <2>4, <2>6 DEF RunSound, Admission!Places
<1>15. \A v \in Workflows : WorkflowSound(v)'
  BY <1>5, <1>6, <1>8, <1>11 DEF WorkflowSound, Admission!Places
<1>16. InTurn'
  <2>1. SUFFICES ASSUME ~overlapped'
                 PROVE  InTurn'
    BY DEF InTurn
  <2>2. ~overlapped /\ \A t \in Sessions : request'[t] = None
    BY <2>1, CommitFrameIs DEF CommitFrame
  <2>3. \A r \in Runs : run[r] # None /\ run[r].status = "queued" => run[r].workflow # w
    BY <1>2, <1>6, <2>2 DEF InTurn, CommitFrame
  <2> QED
    BY <1>6, <1>7, <2>2, <2>3 DEF InTurn
<1>17. \A t \in Sessions : request'[t] \in {request[t], None}
  BY CommitFrameIs
<1>18. \A t \in Sessions : RequestSound(t)'
  BY <1>10, <1>17, RequestsOnward
<1> QED
  BY <1>12, <1>13, <1>14, <1>15, <1>16, <1>18 DEF AInv

-----------------------------------------------------------------------------
(* A worker that ends a run, and a project that goes *)

LEMMA DeleteProjectStep ==
  ASSUME Distinct, AInv, NEW p \in Projects, Admission!DeleteProject(p)
  PROVE  AInv' /\ UNCHANGED answer
<1>1. /\ projects' = projects \ {p} /\ run' = Admission!Detached(run, "project", {p})
      /\ workflow' = Admission!Detached(workflow, "project", {p})
      /\ UNCHANGED <<request, asked, answer, succeeded, overlapped, sent>>
  BY DEF Admission!DeleteProject
<1>2. /\ AdmissionTypes /\ KeysSound /\ InTurn
      /\ \A v \in Workflows : WorkflowSound(v)
      /\ Admission!Rows(run) = {r \in Runs : run[r] # None}
      /\ Admission!Rows(workflow) = {v \in Workflows : workflow[v] # None /\ workflow[v] # Gone}
  BY Read
<1>3. /\ run' \in [Runs -> RunRows \cup {None}]
      /\ \A r \in Runs :
           /\ run'[r] # None <=> run[r] # None
           /\ run[r] # None =>
                /\ run'[r].key = run[r].key /\ run'[r].owner = run[r].owner
                /\ run'[r].of = run[r].of /\ run'[r].status = run[r].status
                /\ run'[r].workflow = run[r].workflow
                /\ run'[r].project = IF run[r].project = p THEN None ELSE run[r].project
  <2>1. "project" \in {"workflow", "project"}
    OBVIOUS
  <2>2. RunsDetached("project", {p})
    BY <1>1, <1>2, <2>1, DetachedRuns
  <2> QED
    BY <2>2 DEF RunsDetached
<1>4. /\ workflow' \in [Workflows -> WorkflowRows \cup {None, Gone}]
      /\ \A w \in Workflows :
           IF w \in Admission!Rows(workflow)
           THEN /\ workflow'[w] # None /\ workflow'[w] # Gone
                /\ workflow'[w].owner = workflow[w].owner /\ workflow'[w].last = workflow[w].last
                /\ workflow'[w].project = IF workflow[w].project \in {p} THEN None ELSE workflow[w].project
           ELSE workflow'[w] = workflow[w]
      /\ Admission!Rows(workflow)' = Admission!Rows(workflow)
  BY <1>1, <1>2, DetachedWorkflows
<1>5. Onward
  BY <1>1, <1>2, <1>3, <1>4 DEF Onward
<1>6. AdmissionTypes'
  BY <1>1, <1>2, <1>3, <1>4 DEF AdmissionTypes
<1>7. KeysSound'
  BY <1>1, <1>2, <1>3, KeysOnward DEF SameKeys, Distinct
<1>8. ASSUME NEW r \in Runs
      PROVE  RunSound(r)'
  <2>1. SUFFICES ASSUME run[r] # None
                 PROVE  RunSound(r)'
    BY <1>3 DEF RunSound
  <2>2. RunSound(r)
    BY Read
  <2>3. OwnsKey(run[r].key, run[r].owner)'
    BY <1>1, <1>3, <2>1, <2>2 DEF RunSound, OwnsKey
  <2>4. run'[r].workflow # None => run'[r].workflow \in Admission!Rows(workflow)' /\ Belongs(run[r].workflow, run[r].owner)'
    BY <1>2, <1>3, <1>4, <2>1, <2>2 DEF RunSound, Belongs
  <2>5. run'[r].project \in Admission!Places' /\ (run'[r].project # None => run'[r].owner = Owner)
    BY <1>1, <1>3, <2>1, <2>2 DEF RunSound, Admission!Places
  <2> QED
    BY <1>1, <1>3, <2>1, <2>2, <2>3, <2>4, <2>5 DEF RunSound
<1>9. \A w \in Workflows : WorkflowSound(w)'
  BY <1>1, <1>2, <1>4 DEF WorkflowSound, Admission!Places
<1>10. InTurn'
  <2>1. SUFFICES ASSUME ~overlapped
                 PROVE  InTurn'
    BY <1>1 DEF InTurn
  <2>2. \A r \in Runs : run'[r] # None /\ run'[r].status = "queued" =>
          /\ run[r] # None /\ run[r].status = "queued"
          /\ run'[r].of = run[r].of /\ run'[r].workflow = run[r].workflow
    BY <1>3
  <2> QED
    BY <1>1, <1>2, <2>1, <2>2 DEF InTurn
<1>11. \A t \in Sessions : request'[t] \in {request[t], None}
  BY <1>1
<1>12. \A t \in Sessions : RequestSound(t)'
  BY <1>5, <1>11, RequestsOnward
<1> QED
  BY <1>1, <1>6, <1>7, <1>8, <1>9, <1>10, <1>12 DEF AInv

LEMMA FinishRunStep ==
  ASSUME Distinct, AInv, NEW r \in Runs, NEW status \in {"succeeded", "failed"}, Admission!FinishRun(r, status)
  PROVE  AInv' /\ UNCHANGED answer
<1>1. /\ r \in Admission!ActiveRuns /\ run' = [run EXCEPT ![r].status = status]
      /\ UNCHANGED <<projects, request, asked, answer, overlapped, sent>>
  BY DEF Admission!FinishRun
<1>2. /\ AdmissionTypes /\ KeysSound /\ InTurn
      /\ \A v \in Workflows : WorkflowSound(v)
      /\ Admission!Rows(workflow) = {v \in Workflows : workflow[v] # None /\ workflow[v] # Gone}
      /\ run[r] # None
  BY <1>1, Read
<1>3. PICK old \in RunRows : old = run[r]
  BY <1>2 DEF AdmissionTypes
<1>4. PICK new : new = [old EXCEPT !.status = status]
  OBVIOUS
<1>5. new \in RunRows /\ new.status = status /\ new.key = old.key /\ new.owner = old.owner /\ new.of = old.of
      /\ new.workflow = old.workflow /\ new.project = old.project
  BY <1>4 DEF RunRows
<1>6. run' = [run EXCEPT ![r] = new]
  BY <1>1, <1>2, <1>3, <1>4 DEF AdmissionTypes
<1>7. run'[r] = new /\ new # None /\ \A q \in Runs : q # r => run'[q] = run[q]
  BY <1>2, <1>5, <1>6 DEF AdmissionTypes, Distinct
<1>8. run' \in [Runs -> RunRows \cup {None}]
  BY <1>2, <1>5, <1>6 DEF AdmissionTypes
<1>9. /\ succeeded' = IF status = "succeeded" THEN succeeded \cup {r} ELSE succeeded
      /\ status = "succeeded" =>
           workflow' = [w \in Workflows |-> IF w = old.workflow THEN [workflow[w] EXCEPT !.last = r] ELSE workflow[w]]
      /\ status # "succeeded" => UNCHANGED workflow
  BY <1>3 DEF Admission!FinishRun
<1>10. old.workflow # None => old.workflow \in Admission!Rows(workflow)
  BY <1>2, <1>3, Read DEF RunSound
<1>11. ASSUME NEW w \in Workflows
       PROVE  IF w \in Admission!Rows(workflow)
              THEN /\ workflow'[w] \in WorkflowRows /\ workflow'[w] # None /\ workflow'[w] # Gone
                   /\ workflow'[w].owner = workflow[w].owner /\ workflow'[w].project = workflow[w].project
                   /\ \/ workflow'[w].last = workflow[w].last
                      \/ workflow'[w].last = r /\ r \in succeeded'
              ELSE workflow'[w] = workflow[w]
  <2>1. CASE w \in Admission!Rows(workflow) /\ status = "succeeded" /\ w = old.workflow
    <3>1. PICK row \in WorkflowRows : row = workflow[w]
      BY <2>1, Read
    <3>2. workflow'[w] = [row EXCEPT !.last = r] /\ r \in succeeded'
      BY <1>9, <2>1, <3>1
    <3>3. workflow'[w] \in WorkflowRows /\ workflow'[w].owner = row.owner /\ workflow'[w].project = row.project
          /\ workflow'[w].last = r
      BY <3>2 DEF WorkflowRows
    <3> QED
      BY <2>1, <3>1, <3>2, <3>3 DEF Distinct
  <2>2. CASE ~(w \in Admission!Rows(workflow) /\ status = "succeeded" /\ w = old.workflow)
    <3>1. workflow'[w] = workflow[w]
      BY <1>9, <1>10, <2>2 DEF Distinct
    <3> QED
      BY <1>2, <3>1, Read
  <2> QED
    BY <2>1, <2>2
<1>12. workflow' \in [Workflows -> WorkflowRows \cup {None, Gone}]
  <2>1. \A w \in Workflows : workflow'[w] \in WorkflowRows \cup {None, Gone}
    BY <1>2, <1>11
  <2> QED
    BY <1>2, <1>9, <2>1 DEF AdmissionTypes
<1>13. Admission!Rows(workflow)' = Admission!Rows(workflow)
  <2>1. DOMAIN workflow' = Workflows
    BY <1>12
  <2>2. Admission!Rows(workflow)' = {w \in Workflows : workflow'[w] # None /\ workflow'[w] # Gone}
    BY <2>1 DEF Admission!Rows
  <2> QED
    BY <1>2, <1>11, <2>2
<1>14. Onward
  BY <1>1, <1>2, <1>7, <1>9, <1>11 DEF Onward
<1>15. AdmissionTypes'
  BY <1>1, <1>2, <1>8, <1>9, <1>12 DEF AdmissionTypes
<1>16. KeysSound'
  BY <1>1, <1>2, <1>3, <1>5, <1>7, KeysOnward DEF SameKeys, Distinct
<1>17. ASSUME NEW q \in Runs
       PROVE  RunSound(q)'
  <2>1. RunSound(q) /\ run[q] \in RunRows \cup {None} /\ Admission!Rows(workflow) \subseteq Workflows
    BY <1>2, Read DEF AdmissionTypes
  <2>2. CASE q # r
    BY <1>1, <1>7, <1>13, <1>14, <2>1, <2>2, RunOnward
  <2>3. CASE q = r
    <3>1. OwnsKey(run[q].key, run[q].owner)'
      BY <1>1, <1>2, <1>3, <1>5, <1>7, <2>1, <2>3 DEF RunSound, OwnsKey
    <3>2. new.workflow # None => new.workflow \in Admission!Rows(workflow)' /\ Belongs(run[q].workflow, run[q].owner)'
      BY <1>2, <1>3, <1>5, <1>7, <1>10, <1>11, <1>13, <2>1, <2>3 DEF RunSound, Belongs
    <3>3. /\ new.project \in Admission!Places' /\ (new.project # None => new.owner = Owner)
          /\ new.status = "succeeded" => r \in succeeded'
      BY <1>1, <1>2, <1>3, <1>5, <1>9, <2>1, <2>3 DEF RunSound, Admission!Places
    <3> QED
      BY <1>7, <2>3, <3>1, <3>2, <3>3 DEF RunSound
  <2> QED
    BY <2>2, <2>3
<1>18. \A w \in Workflows : WorkflowSound(w)'
  BY <1>1, <1>2, <1>9, <1>11, <1>13 DEF WorkflowSound, Admission!Places
<1>19. InTurn'
  BY <1>1, <1>2, <1>5, <1>7 DEF InTurn
<1>20. \A t \in Sessions : request'[t] \in {request[t], None}
  BY <1>1
<1>21. \A t \in Sessions : RequestSound(t)'
  BY <1>14, <1>20, RequestsOnward
<1> QED
  BY <1>1, <1>15, <1>16, <1>17, <1>18, <1>19, <1>21 DEF AInv

-----------------------------------------------------------------------------
(* The theorems *)

LEMMA AdmissionInit ==
  ASSUME Distinct, Admission!Init
  PROVE  AInv
<1>1. AdmissionTypes
  BY DEF Admission!Init, AdmissionTypes
<1>2. KeysSound /\ InTurn
  BY DEF Admission!Init, KeysSound, InTurn
<1>3. /\ \A r \in Runs : RunSound(r)
      /\ \A s \in Sessions : RequestSound(s)
  BY DEF Admission!Init, RunSound, RequestSound
<1>4. \A w \in Workflows : WorkflowSound(w)
  BY DEF Admission!Init, WorkflowSound, Admission!Rows
<1> QED
  BY <1>1, <1>2, <1>3, <1>4 DEF AInv

LEMMA CommitStep ==
  ASSUME Distinct, AInv, NEW s \in Sessions, Admission!Commit(s)
  PROVE  AInv' /\ Admission!AnswersAreFinal
<1>1. CommitFrame(s)
  BY DEF Admission!Commit, CommitFrame
<1>2. request[s] \in Writes
  BY <1>1, Read DEF CommitFrame
<1>3. CASE request[s].kind = "run" /\ Admission!InsertRun(request[s].row)
  BY <1>1, <1>3, InsertRunStep
<1>4. CASE /\ request[s].kind = "retry"
           /\ run' = [run EXCEPT ![request[s].run].status = "queued",
                                 ![request[s].run].of = run[request[s].run].workflow]
           /\ UNCHANGED <<workflow, projects, answer, succeeded>>
  BY <1>1, <1>4, RetryCommitStep DEF Admission!AnswersAreFinal
<1>5. CASE request[s].kind = "workflow" /\ Admission!InsertWorkflow(request[s].row)
  BY <1>1, <1>5, InsertWorkflowStep DEF Admission!AnswersAreFinal, Admission!InsertWorkflow
<1>6. CASE request[s].kind = "change" /\ Admission!WriteWorkflow(request[s].workflow, request[s].set)
  BY <1>1, <1>6, WriteWorkflowStep DEF Admission!AnswersAreFinal, Admission!WriteWorkflow
<1>7. CASE request[s].kind = "delete" /\ Admission!RemoveWorkflow(request[s].workflow)
  BY <1>1, <1>7, RemoveWorkflowStep DEF Admission!AnswersAreFinal, Admission!RemoveWorkflow
<1> QED
  BY <1>3, <1>4, <1>5, <1>6, <1>7 DEF Admission!Commit

LEMMA AsksStep ==
  ASSUME Distinct, AInv, NEW s \in Sessions, NEW user \in Admission!Users, Admission!Asks(s, user)
  PROVE  AInv' /\ Admission!AnswersAreFinal
<1>1. CASE \E w \in Workflows \cup {None}, p \in Admission!Places, k \in RunKeys \cup {None} : Admission!CreateRun(s, user, w, p, k)
  BY <1>1, CreateRunStep
<1>2. CASE \E r \in Runs : Admission!RetryRun(s, user, r)
  BY <1>2, RetryRunStep DEF Admission!AnswersAreFinal
<1>3. CASE \E p \in Admission!Places, r \in Runs \cup {None} : Admission!CreateWorkflow(s, user, p, r)
  BY <1>3, CreateWorkflowStep DEF Admission!AnswersAreFinal
<1>4. CASE \E p \in Admission!Places, r \in Runs \cup {None}, w \in Workflows : Admission!UpdateWorkflow(s, user, w, p, r)
  BY <1>4, UpdateWorkflowStep DEF Admission!AnswersAreFinal
<1>5. CASE \E w \in Workflows : Admission!DeleteWorkflow(s, user, w)
  BY <1>5, DeleteWorkflowStep DEF Admission!AnswersAreFinal
<1>6. CASE \E w \in Workflows, p \in Admission!Places : Admission!AutosaveWorkflow(s, user, w, p)
  BY <1>6, AutosaveWorkflowStep DEF Admission!AnswersAreFinal
<1> QED
  BY <1>1, <1>2, <1>3, <1>4, <1>5, <1>6 DEF Admission!Asks

LEMMA AdmissionStep ==
  ASSUME Distinct, AInv, [Admission!Next]_(Admission!vars)
  PROVE  AInv' /\ Admission!AnswersAreFinal
<1>1. CASE Admission!Next
  <2>1. CASE \E s \in Sessions, user \in Admission!Users : request[s] = None /\ Admission!Asks(s, user)
    BY <2>1, AsksStep
  <2>2. CASE \E s \in Sessions : Admission!Commit(s)
    BY <2>2, CommitStep
  <2>3. CASE \E r \in Runs, status \in {"succeeded", "failed"} : Admission!FinishRun(r, status)
    BY <2>3, FinishRunStep DEF Admission!AnswersAreFinal
  <2>4. CASE \E p \in Projects : Admission!DeleteProject(p)
    BY <2>4, DeleteProjectStep DEF Admission!AnswersAreFinal
  <2> QED
    BY <1>1, <2>1, <2>2, <2>3, <2>4 DEF Admission!Next
<1>2. CASE UNCHANGED Admission!vars
  BY <1>2 DEF Admission!vars, AInv, AdmissionTypes, KeysSound, InTurn, RunSound, WorkflowSound, RequestSound, WriteSound,
              OwnsKey, Belongs, Admission!Places, Admission!Rows, Admission!AnswersAreFinal
<1> QED
  BY <1>1, <1>2

\* What requests have checked, the rows and the answers of the keys stay
\* consistent through every interleaving of requests, workers and deletions.
THEOREM AdmissionInvariance ==
  ASSUME Distinct
  PROVE  Admission!Spec => []AInv
<1>1. Admission!Init => AInv
  BY AdmissionInit
<1>2. AInv /\ [Admission!Next]_(Admission!vars) => AInv'
  BY AdmissionStep
<1> QED
  BY <1>1, <1>2, PTL DEF Admission!Spec

\* A workflow shows the results of a run that succeeded, a run at work keeps
\* its workflow while requests are handled in turn, and references name rows
\* that exist (create_run, delete_workflow, update_workflow, the foreign keys).
THEOREM AdmissionIsKept ==
  ASSUME Distinct
  PROVE  Admission!Spec => []Admission!AdmissionHolds
<1>1. ASSUME AInv
      PROVE  Admission!AdmissionHolds
  <2>1. Admission!LastRunHasResults
    BY <1>1, Read DEF Admission!LastRunHasResults, WorkflowSound
  <2>2. Admission!ActiveRunKeepsWorkflow
    BY <1>1, Read DEF Admission!ActiveRunKeepsWorkflow, InTurn
  <2>3. Admission!ReferencesHold
    BY <1>1, Read DEF Admission!ReferencesHold, RunSound, WorkflowSound
  <2> QED
    BY <2>1, <2>2, <2>3 DEF Admission!AdmissionHolds
<1> QED
  BY <1>1, AdmissionInvariance, PTL

\* A key keeps the run it was answered with, however often and however close
\* together it is sent, and whoever of the project sends it (create_run,
\* find_idempotent_run, the unique key of a run).
THEOREM KeysKeepAnswers ==
  ASSUME Distinct
  PROVE  Admission!Spec => [][Admission!AnswersAreFinal]_(Admission!vars)
<1>1. AInv /\ [Admission!Next]_(Admission!vars) => [Admission!AnswersAreFinal]_(Admission!vars)
  BY AdmissionStep
<1> QED
  BY <1>1, AdmissionInvariance, PTL DEF Admission!Spec
-----------------------------------------------------------------------------
(* Accounts, sessions and members: the inductive invariant *)

AllRoles == Roles \cup {"admin"}
UserIds == Nat \X Names
AccountRows == [id : UserIds, role : AllRoles, active : BOOLEAN, ver : Nat]
Grants == [user : UserIds, access : {"view", "edit"}]
MemberRows == [user : UserIds, at : Nat, access : {"view", "edit"}, new : BOOLEAN]
ProjectRows == [at : Nat, owner : Names, type : {"personal", "team"}, members : SUBSET MemberRows]
Tokens == [name : Names, id : UserIds, ver : Nat]

\* The configured admin has a name, and no row is None.
AccessParameters == Root \in Names /\ None \notin AccountRows

ColumnsFit(set) ==
  /\ "role" \in DOMAIN set => set["role"] \in AllRoles
  /\ "active" \in DOMAIN set => set["active"] \in BOOLEAN
  /\ "ver" \in DOMAIN set => set["ver"] \in Nat
  /\ "id" \notin DOMAIN set

WriteTypes(w) ==
  /\ w.kind = "user" => w.id \in UserIds /\ ColumnsFit(w.set)
  /\ w.kind = "newUser" => w.name \in Names /\ w.role \in Roles
  /\ w.kind = "noUser" => w.id \in UserIds
  /\ w.kind = "newProject" =>
       w.owner \in Names /\ w.type \in {"personal", "team"} /\ w.insert \in SUBSET Grants
  /\ w.kind = "project" =>
       /\ "type" \in DOMAIN w.set => w.set["type"] \in {"personal", "team"}
       /\ {"at", "owner", "members"} \cap DOMAIN w.set = {}
       /\ w.change \in SUBSET MemberRows /\ w.insert \in SUBSET Grants

AccessTypes ==
  /\ account \in [Names -> AccountRows \cup {None}]
  /\ \A n \in Names : account[n] # None => account[n].id[2] = n
  /\ project \in ProjectRows \cup {None}
  /\ project # None => Access!KeysHold(project.members)
  /\ token \in [Sessions -> Tokens \cup {None}]
  /\ \A s \in Sessions : token[s] # None => token[s].id[2] = token[s].name
  /\ DOMAIN request = Sessions
  /\ \A s \in Sessions : request[s] # None => WriteTypes(request[s])
  /\ commits \in Nat /\ out \in SUBSET Sessions
  /\ overlapped \in BOOLEAN /\ reborn \in BOOLEAN

Administers(n) == account[n] # None /\ account[n].role = "admin" /\ account[n].active

\* The type of the project once the write is done.
TypeAfter(w) == IF "type" \in DOMAIN w.set THEN w.set["type"] ELSE project.type

\* What a request has checked still holds while no other is in flight.
AccessChecked(w) ==
  /\ w.kind = "user" =>
       /\ \E m \in Names :
            /\ Administers(m)
            /\ m = w.id[2] => /\ "role" \in DOMAIN w.set => w.set["role"] = "admin"
                              /\ "active" \in DOMAIN w.set => w.set["active"]
       /\ project # None /\ "role" \in DOMAIN w.set => w.set["role"] # "guest" \/ project.owner # w.id[2]
  /\ w.kind = "noUser" =>
       /\ \E m \in Names : Administers(m) /\ m # w.id[2]
       /\ project # None => project.owner # w.id[2]
  /\ w.kind = "newProject" =>
       /\ account[w.owner] # None /\ account[w.owner].role # "guest"
       /\ w.insert # {} => w.type = "team"
       /\ \A i \in w.insert : i.user[2] # w.owner
  /\ w.kind = "project" /\ project # None =>
       /\ w.insert # {} \/ w.change # {} => TypeAfter(w) = "team"
       /\ (\E row \in project.members : Access!RowKey(row) \notin w.drop) => TypeAfter(w) = "team"
       /\ \A i \in w.insert : i.user[2] # project.owner

\* The version a request writes is newer than that of every token.
VersionRises(w) ==
  w.kind = "user" /\ "ver" \in DOMAIN w.set =>
    \A n \in Access!NameOf(w.id) : account[n].ver < w.set["ver"]

AccessInTurn ==
  ~overlapped =>
    /\ \A s, t \in Sessions : request[s] # None /\ request[t] # None => s = t
    /\ \A s \in Sessions : request[s] # None => AccessChecked(request[s])
    /\ \E m \in Names : Administers(m)
    /\ project # None =>
         /\ account[project.owner] # None /\ account[project.owner].role # "guest"
         /\ project.members # {} => project.type = "team"
         /\ \A row \in project.members : row.user[2] # project.owner

\* Until a name is given again, a token is of the account that has its name,
\* and a session that was signed out holds an older version or none is there.
TokensAge ==
  ~overlapped /\ ~reborn =>
    /\ \A s \in Sessions : request[s] # None => VersionRises(request[s])
    /\ \A s \in Sessions :
         token[s] # None /\ account[token[s].name] # None =>
           /\ account[token[s].name].id = token[s].id
           /\ token[s].ver <= account[token[s].name].ver
           /\ s \in out => token[s].ver < account[token[s].name].ver

AccessInv == AccessTypes /\ AccessInTurn /\ TokensAge

-----------------------------------------------------------------------------
(* Who is behind an id *)

LEMMA OneName ==
  ASSUME AccessTypes
  PROVE  /\ \A id, n : n \in Access!NameOf(id) => n \in Names /\ account[n] # None /\ account[n].id = id /\ n = id[2]
         /\ \A n \in Names : account[n] # None => n \in Access!NameOf(account[n].id)
         /\ \A id : Access!NameOf(id) \subseteq {id[2]}
BY DEF AccessTypes, Access!NameOf

LEMMA OneCaller ==
  ASSUME AccessTypes, NEW s \in Sessions
  PROVE  /\ \A m \in Access!Callers(s) : m \in Names /\ account[m] # None /\ account[m] \in AccountRows
                                  /\ account[m].active
         /\ \A m, n \in Access!Callers(s) : m = n
<1>1. CASE token[s] = None
  BY <1>1 DEF Access!Callers
<1>2. CASE token[s] # None
  <2>1. token[s] \in Tokens
    BY <1>2 DEF AccessTypes
  <2>2. Access!Holder(token[s]) \subseteq {m \in Names : account[m] # None}
    BY <2>1, OneName DEF Access!Holder, Tokens
  <2>3. \A m, n \in Access!Holder(token[s]) : m = n
    BY OneName DEF Access!Holder
  <2> QED BY <1>2, <2>2, <2>3 DEF Access!Callers, AccessTypes
<1> QED BY <1>1, <1>2

\* What a row is once columns of it are written.
LEMMA UpdatedAccount ==
  ASSUME NEW row \in AccountRows, NEW set, ColumnsFit(set)
  PROVE  /\ Access!Updated(row, set) \in AccountRows
         /\ Access!Updated(row, set).id = row.id
         /\ Access!Updated(row, set).role = IF "role" \in DOMAIN set THEN set["role"] ELSE row.role
         /\ Access!Updated(row, set).active = IF "active" \in DOMAIN set THEN set["active"] ELSE row.active
         /\ Access!Updated(row, set).ver = IF "ver" \in DOMAIN set THEN set["ver"] ELSE row.ver
<1>1. row = [id |-> row.id, role |-> row.role, active |-> row.active, ver |-> row.ver]
      /\ row.id \in UserIds /\ row.role \in AllRoles /\ row.active \in BOOLEAN /\ row.ver \in Nat
  BY DEF AccountRows
<1>2. DOMAIN row = {"id", "role", "active", "ver"}
  BY <1>1
<1>3. Access!Updated(row, set) =
        [id |-> IF "id" \in DOMAIN set THEN set["id"] ELSE row.id,
         role |-> IF "role" \in DOMAIN set THEN set["role"] ELSE row.role,
         active |-> IF "active" \in DOMAIN set THEN set["active"] ELSE row.active,
         ver |-> IF "ver" \in DOMAIN set THEN set["ver"] ELSE row.ver]
  BY <1>1, <1>2 DEF Access!Updated
<1> QED BY <1>1, <1>3 DEF ColumnsFit, AccountRows

LEMMA UpdatedProject ==
  ASSUME NEW row \in ProjectRows, NEW set, {"at", "owner", "members"} \cap DOMAIN set = {},
         "type" \in DOMAIN set => set["type"] \in {"personal", "team"}
  PROVE  /\ Access!Updated(row, set) \in ProjectRows
         /\ Access!Updated(row, set).at = row.at /\ Access!Updated(row, set).owner = row.owner
         /\ Access!Updated(row, set).members = row.members
         /\ Access!Updated(row, set).type = IF "type" \in DOMAIN set THEN set["type"] ELSE row.type
<1>1. row = [at |-> row.at, owner |-> row.owner, type |-> row.type, members |-> row.members]
      /\ row.at \in Nat /\ row.owner \in Names /\ row.type \in {"personal", "team"}
      /\ row.members \in SUBSET MemberRows
  BY DEF ProjectRows
<1>2. DOMAIN row = {"at", "owner", "type", "members"}
  BY <1>1
<1>3. Access!Updated(row, set) =
        [at |-> row.at, owner |-> row.owner, members |-> row.members,
         type |-> IF "type" \in DOMAIN set THEN set["type"] ELSE row.type]
  <2>1. "at" \notin DOMAIN set /\ "owner" \notin DOMAIN set /\ "members" \notin DOMAIN set
    OBVIOUS
  <2> QED BY <1>1, <1>2, <2>1 DEF Access!Updated
<1> QED BY <1>1, <1>3 DEF ProjectRows

-----------------------------------------------------------------------------
LEMMA AccessInit == ASSUME AccessParameters, Access!Init PROVE AccessInv
<1>1. PICK given \in [Names -> Roles] :
        account = [n \in Names |-> Access!Account(0, n, IF n = Root THEN "admin" ELSE given[n])]
  BY DEF Access!Init
<1>2. \A n \in Names : /\ account[n] = [id |-> <<0, n>>, role |-> IF n = Root THEN "admin" ELSE given[n],
                                        active |-> TRUE, ver |-> 1]
                       /\ account[n] \in AccountRows /\ account[n].id[2] = n
                       /\ account[n].active /\ (n = Root => account[n].role = "admin")
  BY <1>1 DEF Access!Account, AccountRows, UserIds, AllRoles
<1>3. account \in [Names -> AccountRows \cup {None}]
  BY <1>1, <1>2
<1>4. AccessTypes
  BY <1>2, <1>3 DEF AccessTypes, Access!Init
<1>5. Administers(Root)
  <2>1. Root \in Names
    BY DEF AccessParameters
  <2>2. account[Root].role = "admin" /\ account[Root].active /\ account[Root] \in AccountRows
    BY <1>2, <2>1
  <2> QED BY <2>2 DEF Administers, AccessParameters
<1> QED
  BY <1>4, <1>5 DEF AccessInv, AccessInTurn, TokensAge, Access!Init, AccessParameters

\* A request is asked with what it has checked.
LEMMA AccessAsked ==
  ASSUME AccessInv, NEW s \in Sessions, NEW w, Access!Ask(s, w), WriteTypes(w),
         ~overlapped => AccessChecked(w), ~overlapped /\ ~reborn => VersionRises(w)
  PROVE  AccessInv'
<1>1. /\ request[s] = None /\ request' = [request EXCEPT ![s] = w]
      /\ overlapped' = (overlapped \/ \E t \in Sessions : request[t] # None)
      /\ UNCHANGED <<account, project, token, commits, out, reborn>>
  BY DEF Access!Ask
<1>2. DOMAIN request' = Sessions /\ request'[s] = w
      /\ \A t \in Sessions \ {s} : request'[t] = request[t]
  BY <1>1 DEF AccessInv, AccessTypes
<1>3. AccessTypes'
  <2>1. \A t \in Sessions : request'[t] # None => WriteTypes(request'[t])
    BY <1>2 DEF AccessInv, AccessTypes
  <2> QED BY <1>1, <1>2, <2>1 DEF AccessInv, AccessTypes, WriteTypes, Access!KeysHold, Access!NameOf
<1>4. ~overlapped' => ~overlapped /\ \A t \in Sessions \ {s} : request'[t] = None
  BY <1>1, <1>2 DEF AccessInv, AccessTypes
<1>5. AccessInTurn'
  <2> SUFFICES ASSUME ~overlapped' PROVE AccessInTurn'
    BY DEF AccessInTurn
  <2>1. \A t \in Sessions : request'[t] # None => AccessChecked(request[t])' 
    BY <1>1, <1>2, <1>4 DEF AccessChecked, Administers, TypeAfter
  <2> QED BY <1>1, <1>2, <1>4, <2>1 DEF AccessInv, AccessInTurn, Administers
<1>6. TokensAge'
  <2>1. ~overlapped' /\ ~reborn' => \A t \in Sessions : request'[t] # None => VersionRises(request[t])'
    BY <1>1, <1>2, <1>4 DEF VersionRises, Access!NameOf
  <2> QED BY <1>1, <1>4, <2>1 DEF AccessInv, TokensAge
<1> QED BY <1>3, <1>5, <1>6 DEF AccessInv

\* What a caller knows: an active account, and an admin of its own.
LEMMA CallerIs ==
  ASSUME AccessInv, NEW s \in Sessions, NEW n \in Access!Callers(s)
  PROVE  n \in Names /\ account[n] # None /\ account[n] \in AccountRows /\ account[n].active
BY OneCaller DEF AccessInv

\* What an update of an account writes of it.
LEMMA UserWriteIs ==
  ASSUME AccessInv, NEW n \in Names, account[n] # None, NEW columns, ColumnsFit(columns)
  PROVE  LET w == Access!UserWrite(n, columns) IN
         /\ w.kind = "user" /\ w.id = account[n].id /\ w.id[2] = n
         /\ WriteTypes(w)
         /\ \A c \in DOMAIN w.set : c \in DOMAIN columns /\ w.set[c] = columns[c]
         /\ \A c \in DOMAIN columns : c \notin DOMAIN w.set => columns[c] = account[n][c]
<1> DEFINE w == Access!UserWrite(n, columns)
           D == {d \in DOMAIN columns : columns[d] # account[n][d]}
<1>1. account[n] \in AccountRows /\ account[n].id[2] = n /\ account[n].id \in UserIds
  BY DEF AccessInv, AccessTypes, AccountRows
<1>3. w = [kind |-> "user", id |-> account[n].id, set |-> [c \in D |-> columns[c]]]
  BY DEF Access!UserWrite
<1>7. DOMAIN w.set = D /\ \A c \in D : w.set[c] = columns[c]
  BY <1>3
<1>4. /\ w.kind = "user" /\ w.id = account[n].id /\ w.id[2] = n
  BY <1>1, <1>3
<1>5. ColumnsFit(w.set)
  BY <1>7 DEF ColumnsFit
<1>6. WriteTypes(w)
  BY <1>1, <1>4, <1>5 DEF WriteTypes
<1>8. \A c \in DOMAIN columns : c \notin D => columns[c] = account[n][c]
  OBVIOUS
<1> HIDE DEF w, D
<1>9. /\ \A c \in DOMAIN w.set : c \in DOMAIN columns /\ w.set[c] = columns[c]
      /\ \A c \in DOMAIN columns : c \notin DOMAIN w.set => columns[c] = account[n][c]
  BY <1>7, <1>8 DEF D
<1> QED BY <1>4, <1>6, <1>9 DEF w

\* An account is updated by an admin, who is another one or stays an active
\* admin; or, for its version only, by anybody.
LEMMA UserAsked ==
  ASSUME AccessInv, NEW s \in Sessions, NEW n \in Names, account[n] # None,
         NEW columns, ColumnsFit(columns), Access!Ask(s, Access!UserWrite(n, columns)),
         ~overlapped =>
           \/ "role" \notin DOMAIN columns /\ "active" \notin DOMAIN columns
           \/ \E m \in Names :
                /\ Administers(m)
                /\ m = n => /\ "role" \in DOMAIN columns => columns["role"] = "admin"
                            /\ "active" \in DOMAIN columns => columns["active"],
         "role" \in DOMAIN columns => columns["role"] # "guest" \/ ~Access!Owns(n),
         "ver" \in DOMAIN columns => columns["ver"] = account[n].ver + 1
  PROVE  AccessInv'
<1>1. PICK w : w = Access!UserWrite(n, columns)
  OBVIOUS
<1>2. /\ w.kind = "user" /\ w.id = account[n].id /\ w.id[2] = n
      /\ WriteTypes(w)
      /\ \A c \in DOMAIN w.set : c \in DOMAIN columns /\ w.set[c] = columns[c]
      /\ \A c \in DOMAIN columns : c \notin DOMAIN w.set => columns[c] = account[n][c]
  BY <1>1, UserWriteIs
<1>3. ASSUME ~overlapped PROVE AccessChecked(w)
  <2>1. \E m \in Names : /\ Administers(m)
                         /\ m = w.id[2] => /\ "role" \in DOMAIN w.set => w.set["role"] = "admin"
                                           /\ "active" \in DOMAIN w.set => w.set["active"]
    BY <1>2, <1>3 DEF AccessInv, AccessInTurn
  <2>2. project # None /\ "role" \in DOMAIN w.set => w.set["role"] # "guest" \/ project.owner # w.id[2]
    BY <1>2 DEF Access!Owns
  <2> QED BY <1>2, <2>1, <2>2 DEF AccessChecked
<1>4. VersionRises(w)
  <2>1. account[n] \in AccountRows /\ account[n].ver \in Nat
    BY DEF AccessInv, AccessTypes, AccountRows
  <2>2. "ver" \in DOMAIN columns => "ver" \in DOMAIN w.set /\ w.set["ver"] = account[n].ver + 1
    BY <1>2, <2>1
  <2>3. Access!NameOf(w.id) \subseteq {n}
    BY <1>2, OneName DEF AccessInv
  <2> QED BY <1>2, <2>1, <2>2, <2>3 DEF VersionRises
<1>5. Access!Ask(s, w)
  BY <1>1
<1> QED BY <1>2, <1>3, <1>4, <1>5, AccessAsked

LEMMA LeaveStep ==
  ASSUME AccessInv, NEW s \in Sessions, Access!Leave(s)
  PROVE  AccessInv'
<1>1. PICK n \in Access!Callers(s) : Access!Ask(s, Access!UserWrite(n, Access!NextVersion(n)))
  BY DEF Access!Leave
<1>2. n \in Names /\ account[n] # None /\ account[n].ver \in Nat
  BY CallerIs DEF AccountRows
<1>3. PICK columns : columns = Access!NextVersion(n)
  OBVIOUS
<1>4. DOMAIN columns = {"ver"} /\ columns["ver"] = account[n].ver + 1
  BY <1>3 DEF Access!NextVersion
<1>5. ColumnsFit(columns)
  BY <1>2, <1>4 DEF ColumnsFit
<1>6. Access!Ask(s, Access!UserWrite(n, columns))
  BY <1>1, <1>3
<1> QED BY <1>2, <1>4, <1>5, <1>6, UserAsked

LEMMA PasswordStep ==
  ASSUME AccessInv, NEW s \in Sessions, NEW n \in Names, Access!SetPassword(s, n)
  PROVE  AccessInv'
<1>1. account[n] # None /\ Access!Ask(s, Access!UserWrite(n, Access!NextVersion(n)))
  BY DEF Access!SetPassword
<1>2. account[n].ver \in Nat
  BY <1>1 DEF AccessInv, AccessTypes, AccountRows
<1>3. PICK columns : columns = Access!NextVersion(n)
  OBVIOUS
<1>4. DOMAIN columns = {"ver"} /\ columns["ver"] = account[n].ver + 1
  BY <1>3 DEF Access!NextVersion
<1>5. ColumnsFit(columns)
  BY <1>2, <1>4 DEF ColumnsFit
<1>6. Access!Ask(s, Access!UserWrite(n, columns))
  BY <1>1, <1>3
<1> QED BY <1>1, <1>4, <1>5, <1>6, UserAsked

\* The admin who asks.
LEMMA AdminAsks ==
  ASSUME AccessInv, NEW s \in Sessions, Access!IsAdmin(s)
  PROVE  \E m \in Access!Callers(s) : m \in Names /\ Administers(m)
BY CallerIs DEF Access!IsAdmin, Administers

LEMMA RoleStep ==
  ASSUME AccessInv, NEW s \in Sessions, NEW n \in Names, NEW role \in Roles, Access!SetRole(s, n, role)
  PROVE  AccessInv'
<1>1. /\ Access!IsAdmin(s) /\ account[n] # None
      /\ n \in Access!Callers(s) => role = "admin"
      /\ role = "guest" => ~Access!Owns(n)
      /\ Access!Ask(s, Access!UserWrite(n, [role |-> role]))
  BY DEF Access!SetRole
<1>2. PICK m \in Access!Callers(s) : m \in Names /\ Administers(m)
  BY <1>1, AdminAsks
<1>3. PICK columns : columns = [role |-> role]
  OBVIOUS
<1>4. DOMAIN columns = {"role"} /\ columns["role"] = role
  BY <1>3
<1>5. ColumnsFit(columns)
  BY <1>4 DEF ColumnsFit, AllRoles
<1>6. Access!Ask(s, Access!UserWrite(n, columns))
  BY <1>1, <1>3
<1> QED BY <1>1, <1>2, <1>4, <1>5, <1>6, UserAsked

LEMMA ActiveStep ==
  ASSUME AccessInv, NEW s \in Sessions, NEW n \in Names, NEW active \in BOOLEAN, Access!SetActive(s, n, active)
  PROVE  AccessInv'
<1>1. /\ Access!IsAdmin(s) /\ account[n] # None
      /\ n \in Access!Callers(s) => active
      /\ Access!Ask(s, Access!UserWrite(n, [active |-> active, ver |-> account[n].ver + 1]))
  BY DEF Access!SetActive
<1>2. PICK m \in Access!Callers(s) : m \in Names /\ Administers(m)
  BY <1>1, AdminAsks
<1>3. account[n].ver \in Nat
  BY <1>1 DEF AccessInv, AccessTypes, AccountRows
<1>4. PICK columns : columns = [active |-> active, ver |-> account[n].ver + 1]
  OBVIOUS
<1>5. DOMAIN columns = {"active", "ver"} /\ columns["active"] = active /\ columns["ver"] = account[n].ver + 1
  BY <1>4
<1>6. ColumnsFit(columns)
  BY <1>3, <1>5 DEF ColumnsFit
<1>7. Access!Ask(s, Access!UserWrite(n, columns))
  BY <1>1, <1>4
<1> QED BY <1>1, <1>2, <1>5, <1>6, <1>7, UserAsked
LEMMA NewUserStep ==
  ASSUME AccessInv, NEW s \in Sessions, NEW n \in Names, NEW role \in Roles, Access!CreateUser(s, n, role)
  PROVE  AccessInv'
<1>1. PICK w : w = [kind |-> "newUser", name |-> n, role |-> role]
  OBVIOUS
<1>2. Access!Ask(s, w)
  BY <1>1 DEF Access!CreateUser
<1>3. WriteTypes(w) /\ AccessChecked(w) /\ VersionRises(w)
  BY <1>1 DEF WriteTypes, AccessChecked, VersionRises
<1> QED BY <1>2, <1>3, AccessAsked

LEMMA NoUserStep ==
  ASSUME AccessInv, NEW s \in Sessions, NEW n \in Names, Access!DeleteUser(s, n)
  PROVE  AccessInv'
<1>1. PICK w : w = [kind |-> "noUser", id |-> account[n].id]
  OBVIOUS
<1>2. Access!Ask(s, w) /\ Access!IsAdmin(s) /\ account[n] # None /\ n \notin Access!Callers(s) /\ ~Access!Owns(n)
  BY <1>1 DEF Access!DeleteUser
<1>3. account[n].id \in UserIds /\ account[n].id[2] = n
  BY <1>2 DEF AccessInv, AccessTypes, AccountRows
<1>4. \E m \in Names : Administers(m) /\ m # n
  BY <1>2, AdminAsks
<1>5. WriteTypes(w) /\ VersionRises(w)
  BY <1>1, <1>3 DEF WriteTypes, VersionRises
<1>6. AccessChecked(w)
  BY <1>1, <1>2, <1>3, <1>4 DEF AccessChecked, Access!Owns
<1> QED BY <1>2, <1>5, <1>6, AccessAsked

\* The rows of the members a payload may name.
LEMMA InsertedIs ==
  ASSUME AccessInv, NEW owner, NEW type \in {"personal", "team"}, NEW chosen \in Access!Choices, NEW known,
         Access!Assignable(owner, type, chosen)
  PROVE  /\ Access!Inserted(chosen, known) \in SUBSET Grants
         /\ Access!Inserted(chosen, known) # {} => type = "team"
         /\ \A i \in Access!Inserted(chosen, known) : i.user[2] # owner
<1>1. PICK S \in SUBSET Names : chosen \in [S -> {"view", "edit"}]
  BY DEF Access!Choices
<1>2. \A n \in S : /\ account[n] # None /\ account[n] \in AccountRows /\ account[n].id \in UserIds
                   /\ account[n].id[2] = n /\ n # owner /\ chosen[n] \in {"view", "edit"}
  BY <1>1 DEF Access!Assignable, AccessInv, AccessTypes, AccountRows
<1>3. ASSUME NEW i \in Access!Inserted(chosen, known)
      PROVE  i \in Grants /\ i.user[2] # owner /\ type = "team"
  <2>1. PICK n \in S : i = [user |-> account[n].id, access |-> chosen[n]]
    BY <1>1, <1>3 DEF Access!Inserted
  <2>2. i \in Grants /\ i.user[2] # owner
    BY <1>2, <2>1 DEF Grants
  <2>3. chosen # <<>>
    BY <1>1
  <2> QED BY <2>2, <2>3 DEF Access!Assignable
<1> QED BY <1>3

LEMMA NewProjectStep ==
  ASSUME AccessInv, NEW s \in Sessions, NEW type \in {"personal", "team"}, NEW chosen \in Access!Choices,
         Access!CreateProject(s, type, chosen)
  PROVE  AccessInv'
<1>1. PICK n \in Access!Callers(s) :
        /\ account[n].role # "guest" /\ Access!Assignable(n, type, chosen)
        /\ Access!Ask(s, [kind |-> "newProject", owner |-> n, type |-> type, insert |-> Access!Inserted(chosen, {})])
  BY DEF Access!CreateProject
<1>2. PICK w : w = [kind |-> "newProject", owner |-> n, type |-> type, insert |-> Access!Inserted(chosen, {})]
  OBVIOUS
<1>3. Access!Ask(s, w)
  BY <1>1, <1>2
<1>4. n \in Names /\ account[n] # None
  BY CallerIs
<1>5. /\ w.kind = "newProject" /\ w.owner = n /\ w.type = type /\ w.insert \in SUBSET Grants
      /\ w.insert # {} => type = "team"
      /\ \A i \in w.insert : i.user[2] # n
  BY <1>1, <1>2, InsertedIs
<1>6. WriteTypes(w)
  BY <1>4, <1>5 DEF WriteTypes
<1>7. AccessChecked(w) /\ VersionRises(w)
  BY <1>1, <1>4, <1>5 DEF AccessChecked, VersionRises
<1> QED BY <1>3, <1>6, <1>7, AccessAsked

LEMMA ChangeProjectStep ==
  ASSUME AccessInv, NEW s \in Sessions, NEW type \in {"personal", "team"}, NEW chosen \in Access!Choices,
         Access!UpdateProject(s, type, chosen)
  PROVE  AccessInv'
<1> DEFINE named(row) == {m \in DOMAIN chosen : account[m].id = row.user}
           kept == {row \in project.members : named(row) # {}}
           access(row) == chosen[CHOOSE m \in named(row) : TRUE]
           change == {[row EXCEPT !.access = access(row), !.new = TRUE] :
                        row \in {r \in kept : access(r) # r.access}}
           drop == {Access!RowKey(row) : row \in project.members \ kept}
           known == {row.user : row \in kept}
<1>1. PICK n \in Access!Callers(s) :
        /\ Access!CanManage(n) /\ Access!Assignable(project.owner, type, chosen)
        /\ Access!Ask(s, Access!ProjectWrite(IF type = project.type THEN <<>> ELSE [type |-> type],
                               drop, change, Access!Inserted(chosen, known)))
  BY DEF Access!UpdateProject
<1>2. project # None /\ project \in ProjectRows
  BY <1>1 DEF Access!CanManage, AccessInv, AccessTypes
<1>3. PICK S \in SUBSET Names : chosen \in [S -> {"view", "edit"}]
  BY DEF Access!Choices
<1>4. project.members \subseteq MemberRows /\ project.type \in {"personal", "team"}
  BY <1>2 DEF ProjectRows
<1>5. \A row \in kept : row \in MemberRows /\ access(row) \in {"view", "edit"} /\ type = "team"
  <2> SUFFICES ASSUME NEW row \in kept PROVE row \in MemberRows /\ access(row) \in {"view", "edit"} /\ type = "team"
    OBVIOUS
  <2>1. named(row) # {} /\ named(row) \subseteq S
    BY <1>3
  <2>2. (CHOOSE m \in named(row) : TRUE) \in S
    BY <2>1
  <2>3. chosen # <<>>
    BY <1>3, <2>1
  <2> QED BY <1>1, <1>3, <1>4, <2>2, <2>3 DEF Access!Assignable
<1>6. change \in SUBSET MemberRows /\ (change # {} => type = "team")
  <2> SUFFICES ASSUME NEW c \in change PROVE c \in MemberRows /\ type = "team"
    OBVIOUS
  <2>1. PICK row \in kept : c = [row EXCEPT !.access = access(row), !.new = TRUE]
    OBVIOUS
  <2>2. PICK to \in {"view", "edit"} : to = access(row)
    BY <1>5
  <2>3. c = [row EXCEPT !.access = to, !.new = TRUE] /\ row \in MemberRows
    BY <1>5, <2>1, <2>2
  <2> QED BY <1>5, <2>3 DEF MemberRows
<1>7. \A row \in project.members : Access!RowKey(row) \notin drop => type = "team"
  BY <1>5
<1>8. PICK w : w = Access!ProjectWrite(IF type = project.type THEN <<>> ELSE [type |-> type],
                                drop, change, Access!Inserted(chosen, known))
  OBVIOUS
<1>9. PICK set : set = IF type = project.type THEN <<>> ELSE [type |-> type]
  OBVIOUS
<1>10. /\ "type" \in DOMAIN set => set["type"] = type
       /\ {"at", "owner", "members"} \cap DOMAIN set = {}
       /\ "type" \notin DOMAIN set => type = project.type
  <2>1. CASE type = project.type
    <3>1. DOMAIN set = {}
      BY <1>9, <2>1
    <3> QED BY <2>1, <3>1
  <2>2. CASE type # project.type
    <3>1. DOMAIN set = {"type"} /\ set["type"] = type
      BY <1>9, <2>2
    <3> QED BY <3>1
  <2> QED BY <2>1, <2>2
<1> HIDE DEF change, drop, known
<1>11. PICK insert : insert = Access!Inserted(chosen, known)
  OBVIOUS
<1>12. /\ insert \in SUBSET Grants /\ (insert # {} => type = "team")
       /\ \A i \in insert : i.user[2] # project.owner
  BY <1>1, <1>11, InsertedIs
<1>13. /\ w.kind = "project" /\ w.set = set /\ w.drop = drop /\ w.change = change /\ w.insert = insert
       /\ Access!Ask(s, w)
  BY <1>1, <1>8, <1>9, <1>11 DEF Access!ProjectWrite
<1>14. WriteTypes(w)
  BY <1>6, <1>10, <1>12, <1>13 DEF WriteTypes
<1>15. TypeAfter(w) = type
  BY <1>10, <1>13 DEF TypeAfter
<1>16. AccessChecked(w) /\ VersionRises(w)
  BY <1>6, <1>7, <1>12, <1>13, <1>15 DEF AccessChecked, VersionRises
<1> QED BY <1>13, <1>14, <1>16, AccessAsked

LEMMA AcknowledgeStep ==
  ASSUME AccessInv, NEW s \in Sessions, Access!Acknowledge(s)
  PROVE  AccessInv'
<1>1. PICK n \in Access!Callers(s) :
        /\ project # None
        /\ \E row \in Access!Assignment(account[n].id) :
             Access!Ask(s, Access!ProjectWrite(<<>>, {}, {[row EXCEPT !.new = FALSE]}, {}))
  BY DEF Access!Acknowledge
<1>2. PICK row \in project.members : Access!Ask(s, Access!ProjectWrite(<<>>, {}, {[row EXCEPT !.new = FALSE]}, {}))
  BY <1>1 DEF Access!Assignment
<1>3. project \in ProjectRows /\ row \in MemberRows
  BY <1>1, <1>2 DEF AccessInv, AccessTypes, ProjectRows
<1>4. [row EXCEPT !.new = FALSE] \in MemberRows
  BY <1>3 DEF MemberRows
<1>5. PICK w : w = Access!ProjectWrite(<<>>, {}, {[row EXCEPT !.new = FALSE]}, {})
  OBVIOUS
<1>6. /\ w.kind = "project" /\ DOMAIN w.set = {} /\ w.drop = {} /\ w.insert = {}
      /\ w.change \in SUBSET MemberRows /\ Access!Ask(s, w)
  BY <1>2, <1>4, <1>5 DEF Access!ProjectWrite
<1>7. WriteTypes(w) /\ VersionRises(w)
  BY <1>6 DEF WriteTypes, VersionRises
<1>8. TypeAfter(w) = project.type
  BY <1>6 DEF TypeAfter
<1>9. ~overlapped => AccessChecked(w)
  BY <1>1, <1>2, <1>6, <1>8 DEF AccessChecked, AccessInv, AccessInTurn
<1> QED BY <1>6, <1>7, <1>9, AccessAsked

LEMMA NoProjectStep ==
  ASSUME AccessInv, NEW s \in Sessions, Access!DeleteProject(s)
  PROVE  AccessInv'
<1>1. PICK w : w = [kind |-> "noProject", at |-> project.at]
  OBVIOUS
<1>2. Access!Ask(s, w)
  BY <1>1 DEF Access!DeleteProject
<1>3. WriteTypes(w) /\ AccessChecked(w) /\ VersionRises(w)
  BY <1>1 DEF WriteTypes, AccessChecked, VersionRises
<1> QED BY <1>2, <1>3, AccessAsked

LEMMA LoginStep ==
  ASSUME AccessInv, NEW s \in Sessions, NEW n \in Names, Access!Login(s, n)
  PROVE  AccessInv'
<1>1. /\ account[n] # None
      /\ token' = [token EXCEPT ![s] = [name |-> n, id |-> account[n].id, ver |-> account[n].ver]]
      /\ out' = out \ {s}
      /\ UNCHANGED <<account, project, request, commits, overlapped, reborn>>
  BY DEF Access!Login
<1>2. account[n].id \in UserIds /\ account[n].id[2] = n /\ account[n].ver \in Nat
  BY <1>1 DEF AccessInv, AccessTypes, AccountRows
<1>3. PICK t \in Tokens : /\ t.name = n /\ t.id = account[n].id /\ t.ver = account[n].ver
                          /\ token' = [token EXCEPT ![s] = t]
  <2>1. PICK t : t = [name |-> n, id |-> account[n].id, ver |-> account[n].ver]
    OBVIOUS
  <2>2. t \in Tokens
    BY <1>2, <2>1 DEF Tokens
  <2> QED BY <1>1, <2>1, <2>2
<1>4. token' \in [Sessions -> Tokens \cup {None}] /\ token'[s] = t
      /\ \A q \in Sessions \ {s} : token'[q] = token[q]
  BY <1>3 DEF AccessInv, AccessTypes
<1>5. AccessTypes'
  <2>1. \A q \in Sessions : token'[q] # None => token'[q].id[2] = token'[q].name
    BY <1>2, <1>3, <1>4 DEF AccessInv, AccessTypes
  <2>2. UNCHANGED <<account, project, request, commits, overlapped, reborn>> /\ out' \in SUBSET Sessions
    BY <1>1 DEF AccessInv, AccessTypes
  <2> QED BY <1>4, <2>1, <2>2 DEF AccessInv, AccessTypes, Access!KeysHold, Access!NameOf
<1>6. AccessInTurn'
  <2>1. UNCHANGED <<account, project, request, overlapped>>
    BY <1>1
  <2> QED BY <2>1 DEF AccessInv, AccessInTurn, AccessChecked, Administers, TypeAfter
<1>7. TokensAge'
  <2> SUFFICES ASSUME ~overlapped, ~reborn PROVE TokensAge'
    BY <1>1 DEF TokensAge
  <2>1. \A q \in Sessions : request'[q] # None => VersionRises(request[q])'
    BY <1>1 DEF AccessInv, TokensAge, VersionRises, Access!NameOf
  <2>2. ASSUME NEW q \in Sessions, token'[q] # None, account[token'[q].name] # None
        PROVE  /\ account[token'[q].name].id = token'[q].id
               /\ token'[q].ver <= account[token'[q].name].ver
               /\ q \in out' => token'[q].ver < account[token'[q].name].ver
    <3>1. CASE q = s
      BY <1>1, <1>2, <1>3, <1>4, <3>1
    <3>2. CASE q # s
      BY <1>1, <1>4, <2>2, <3>2 DEF AccessInv, TokensAge
    <3> QED BY <3>1, <3>2
  <2> QED BY <1>1, <2>1, <2>2 DEF TokensAge
<1> QED BY <1>5, <1>6, <1>7 DEF AccessInv

-----------------------------------------------------------------------------
(* The commits *)

\* What the commit of the only request leaves: its caller is idle, and no other
\* request is there to have checked anything.
LEMMA Committed ==
  ASSUME AccessInv, NEW s \in Sessions, request[s] # None, Access!Done(s)
  PROVE  /\ DOMAIN request' = Sessions
         /\ request'[s] = None /\ (\A t \in Sessions \ {s} : request'[t] = request[t])
         /\ \A t \in Sessions : request'[t] # None => request'[t] = request[t] /\ WriteTypes(request'[t])
         /\ WriteTypes(request[s])
         /\ ~overlapped => /\ AccessChecked(request[s]) /\ (\A t \in Sessions : request'[t] = None)
                           /\ ~reborn => VersionRises(request[s])
         /\ UNCHANGED <<token, overlapped>>
<1>1. request' = [request EXCEPT ![s] = None] /\ UNCHANGED <<token, overlapped>>
  BY DEF Access!Done
<1>2. DOMAIN request' = Sessions /\ request'[s] = None /\ (\A t \in Sessions \ {s} : request'[t] = request[t])
  BY <1>1 DEF AccessInv, AccessTypes
<1>3. \A t \in Sessions : request'[t] # None => request'[t] = request[t] /\ WriteTypes(request'[t])
  BY <1>2 DEF AccessInv, AccessTypes
<1>4. WriteTypes(request[s])
  BY DEF AccessInv, AccessTypes
<1>5. ~overlapped => AccessChecked(request[s]) /\ \A t \in Sessions : request'[t] = None
  BY <1>2 DEF AccessInv, AccessInTurn
<1>6. ~overlapped /\ ~reborn => VersionRises(request[s])
  BY DEF AccessInv, TokensAge
<1> QED BY <1>1, <1>2, <1>3, <1>4, <1>5, <1>6

LEMMA CommitUserStep ==
  ASSUME AccessParameters, AccessInv, NEW s \in Sessions, request[s] # None, Access!Done(s),
         request[s].kind = "user", Access!CommitUser(request[s]), commits' = commits + 1
  PROVE  AccessInv'
<1>1. PICK w : w = request[s]
  OBVIOUS
<1>2. PICK n \in Access!NameOf(w.id) :
        /\ account' = [account EXCEPT ![n] = Access!Updated(@, w.set)]
        /\ IF "ver" \in DOMAIN w.set THEN Access!SignOut(w.id) ELSE UNCHANGED out
        /\ UNCHANGED <<project, reborn>>
  BY <1>1 DEF Access!CommitUser
<1>3. /\ n \in Names /\ account[n] # None /\ account[n].id = w.id /\ n = w.id[2]
      /\ account[n] \in AccountRows
  BY OneName DEF AccessInv, AccessTypes
<1>4. w.kind = "user" /\ WriteTypes(w) /\ ColumnsFit(w.set)
  BY <1>1, Committed DEF WriteTypes
<1>5. PICK to : to = Access!Updated(account[n], w.set)
  OBVIOUS
<1>6. /\ to \in AccountRows /\ to.id = account[n].id /\ to # None
      /\ to.role = IF "role" \in DOMAIN w.set THEN w.set["role"] ELSE account[n].role
      /\ to.active = IF "active" \in DOMAIN w.set THEN w.set["active"] ELSE account[n].active
      /\ to.ver = IF "ver" \in DOMAIN w.set THEN w.set["ver"] ELSE account[n].ver
  BY <1>3, <1>4, <1>5, UpdatedAccount DEF AccessParameters
<1>7. /\ account' \in [Names -> AccountRows \cup {None}]
      /\ account'[n] = to /\ \A m \in Names \ {n} : account'[m] = account[m]
  BY <1>2, <1>3, <1>5, <1>6 DEF AccessInv, AccessTypes
<1>8. \A id : Access!NameOf(id)' = Access!NameOf(id)
  BY <1>3, <1>6, <1>7 DEF Access!NameOf
<1>9. out' \in SUBSET Sessions /\ out \subseteq out'
      /\ \A q \in out' : q \in out \/ ("ver" \in DOMAIN w.set /\ token[q] # None /\ token[q].id = w.id)
  BY <1>2 DEF Access!SignOut, AccessInv, AccessTypes
<1>10. AccessTypes'
  <2>1. \A m \in Names : account'[m] # None => account'[m].id[2] = m
    BY <1>3, <1>6, <1>7 DEF AccessInv, AccessTypes
  <2>2. project # None => Access!KeysHold(project.members)'
    BY <1>2, <1>8 DEF AccessInv, AccessTypes, Access!KeysHold
  <2> QED BY <1>2, <1>7, <1>9, <2>1, <2>2, Committed DEF AccessInv, AccessTypes
<1>11. AccessInTurn'
  <2> SUFFICES ASSUME ~overlapped PROVE AccessInTurn'
    BY Committed DEF AccessInTurn
  <2>1. AccessChecked(w) /\ (\A t \in Sessions : request'[t] = None) /\ UNCHANGED overlapped
    BY <1>1, Committed
  <2>2. PICK m \in Names :
          /\ Administers(m)
          /\ m = w.id[2] => /\ "role" \in DOMAIN w.set => w.set["role"] = "admin"
                            /\ "active" \in DOMAIN w.set => w.set["active"]
    BY <1>4, <2>1 DEF AccessChecked
  <2>3. Administers(m)'
    <3>1. Administers(m)
      BY <2>2
    <3>2. account[m].role = "admin" /\ account[m] # None
      BY <3>1 DEF Administers
    <3>3. account[m].active
      BY <3>1 DEF Administers
    <3>4. CASE m = n
      <4>1. account'[m] = to
        BY <1>7, <3>4
      <4>2. to.role = "admin"
        <5>1. CASE "role" \in DOMAIN w.set
          BY <1>3, <1>6, <2>2, <3>4, <5>1
        <5>2. CASE "role" \notin DOMAIN w.set
          BY <1>6, <3>2, <3>4, <5>2
        <5> QED BY <5>1, <5>2
      <4>3. to.active
        <5>1. CASE "active" \in DOMAIN w.set
          <6>1. w.set["active"]
            BY <1>3, <2>2, <3>4, <5>1
          <6>2. to.active = w.set["active"]
            BY <1>6, <5>1
          <6> QED BY <6>1, <6>2
        <5>2. CASE "active" \notin DOMAIN w.set
          <6>1. to.active = account[n].active
            BY <1>6, <5>2
          <6> QED BY <3>3, <3>4, <6>1
        <5> QED BY <5>1, <5>2
      <4>4. account'[m] # None /\ account'[m].role = "admin"
        BY <1>6, <4>1, <4>2
      <4>5. account'[m].active
        BY <4>1, <4>3
      <4> QED BY <4>4, <4>5 DEF Administers
    <3>5. CASE m # n
      <4>1. account'[m] = account[m]
        BY <1>7, <3>5
      <4> QED BY <3>1, <4>1 DEF Administers
    <3> QED BY <3>4, <3>5
  <2>4. project # None => account'[project.owner] # None /\ account'[project.owner].role # "guest"
    <3>1. project # None => project.owner \in Names
      BY DEF AccessInv, AccessTypes, ProjectRows
    <3> QED BY <1>3, <1>4, <1>6, <1>7, <2>1, <3>1 DEF AccessChecked, AccessInv, AccessInTurn
  <2> QED BY <1>2, <2>1, <2>3, <2>4 DEF AccessInv, AccessInTurn
<1>12. TokensAge'
  <2> SUFFICES ASSUME ~overlapped, ~reborn PROVE TokensAge'
    BY <1>2, Committed DEF TokensAge
  <2>1. VersionRises(w) /\ (\A t \in Sessions : request'[t] = None) /\ UNCHANGED token
    BY <1>1, Committed
  <2>2. account[n].ver \in Nat /\ to.ver \in Nat /\ ("ver" \in DOMAIN w.set => account[n].ver < to.ver)
        /\ ("ver" \notin DOMAIN w.set => to.ver = account[n].ver)
    BY <1>2, <1>3, <1>4, <1>6, <2>1 DEF VersionRises, AccountRows
  <2>3. ASSUME NEW q \in Sessions, token[q] # None, account'[token[q].name] # None
        PROVE  /\ account'[token[q].name].id = token[q].id
               /\ token[q].ver <= account'[token[q].name].ver
               /\ q \in out' => token[q].ver < account'[token[q].name].ver
    <3>1. token[q] \in Tokens /\ token[q].name \in Names /\ token[q].ver \in Nat
          /\ token[q].id[2] = token[q].name
      BY <2>3 DEF AccessInv, AccessTypes, Tokens
    <3>2. account[token[q].name] # None
      BY <1>3, <1>7, <2>3, <3>1
    <3>3. /\ account[token[q].name].id = token[q].id
          /\ token[q].ver <= account[token[q].name].ver
          /\ q \in out => token[q].ver < account[token[q].name].ver
      BY <2>3, <3>2 DEF AccessInv, TokensAge
    <3>4. CASE token[q].name = n
      BY <1>3, <1>6, <1>7, <1>9, <2>2, <3>1, <3>3, <3>4
    <3>5. CASE token[q].name # n
      BY <1>3, <1>7, <1>9, <3>1, <3>3, <3>5
    <3> QED BY <3>4, <3>5
  <2> QED BY <2>1, <2>3 DEF TokensAge
<1> QED BY <1>10, <1>11, <1>12 DEF AccessInv

LEMMA CommitNewUserStep ==
  ASSUME AccessParameters, AccessInv, NEW s \in Sessions, request[s] # None, Access!Done(s),
         request[s].kind = "newUser", Access!CommitNewUser(request[s]), commits' = commits + 1
  PROVE  AccessInv'
<1>1. PICK w : w = request[s]
  OBVIOUS
<1>2. /\ w.name \in Names /\ w.role \in Roles
  BY <1>1, Committed DEF WriteTypes
<1>3. PICK n \in Names : n = w.name
  BY <1>2
<1>4. PICK to : to = Access!Account(commits + 1, n, w.role)
  OBVIOUS
<1>5. /\ account[n] = None /\ account' = [account EXCEPT ![n] = to]
      /\ reborn' = (reborn \/ \E q \in Sessions : token[q] # None /\ token[q].name = n)
      /\ UNCHANGED <<project, out>>
  BY <1>1, <1>3, <1>4 DEF Access!CommitNewUser
<1>6. /\ to \in AccountRows /\ to # None /\ to.id[2] = n
      /\ to = [id |-> <<commits + 1, n>>, role |-> w.role, active |-> TRUE, ver |-> 1]
  <2>1. commits \in Nat /\ None \notin AccountRows
    BY DEF AccessParameters, AccessInv, AccessTypes
  <2>2. to = [id |-> <<commits + 1, n>>, role |-> w.role, active |-> TRUE, ver |-> 1]
    BY <1>4 DEF Access!Account
  <2>3. <<commits + 1, n>> \in UserIds
    BY <2>1 DEF UserIds
  <2>4. to \in AccountRows
    BY <1>2, <2>2, <2>3 DEF AccountRows, AllRoles
  <2> QED BY <2>1, <2>2, <2>4
<1>7. /\ account' \in [Names -> AccountRows \cup {None}]
      /\ account'[n] = to /\ \A m \in Names \ {n} : account'[m] = account[m]
  BY <1>5, <1>6 DEF AccessInv, AccessTypes
<1>8. \A id : Access!NameOf(id) # {} => Access!NameOf(id)' # {}
  BY <1>5, <1>7 DEF Access!NameOf
<1>9. AccessTypes'
  <2>1. \A m \in Names : account'[m] # None => account'[m].id[2] = m
    BY <1>6, <1>7 DEF AccessInv, AccessTypes
  <2>2. project # None => Access!KeysHold(project.members)'
    BY <1>5, <1>8 DEF AccessInv, AccessTypes, Access!KeysHold
  <2>3. reborn' \in BOOLEAN
    BY <1>5 DEF AccessInv, AccessTypes
  <2> QED BY <1>5, <1>7, <2>1, <2>2, <2>3, Committed DEF AccessInv, AccessTypes
<1>10. AccessInTurn'
  <2> SUFFICES ASSUME ~overlapped PROVE AccessInTurn'
    BY Committed DEF AccessInTurn
  <2>1. (\A t \in Sessions : request'[t] = None) /\ UNCHANGED overlapped
    BY Committed
  <2>2. PICK m \in Names : Administers(m)
    BY DEF AccessInv, AccessInTurn
  <2>3. m # n
    BY <1>5, <2>2 DEF Administers
  <2>4. Administers(m)'
    BY <1>7, <2>2, <2>3 DEF Administers
  <2>5. project # None => project.owner # n /\ project.owner \in Names
    BY <1>5 DEF AccessInv, AccessInTurn, AccessTypes, ProjectRows
  <2> QED BY <1>5, <1>7, <2>1, <2>4, <2>5 DEF AccessInv, AccessInTurn
<1>11. TokensAge'
  <2> SUFFICES ASSUME ~overlapped, ~reborn' PROVE TokensAge'
    BY Committed DEF TokensAge
  <2>1. (\A t \in Sessions : request'[t] = None) /\ UNCHANGED token
    BY Committed
  <2>2. ~reborn /\ \A q \in Sessions : token[q] # None => token[q].name # n
    BY <1>5
  <2>3. \A q \in Sessions : token[q] # None => token[q].name \in Names
    BY DEF AccessInv, AccessTypes, Tokens
  <2> QED BY <1>5, <1>7, <2>1, <2>2, <2>3 DEF AccessInv, TokensAge
<1> QED BY <1>9, <1>10, <1>11 DEF AccessInv

LEMMA CommitNoUserStep ==
  ASSUME AccessParameters, AccessInv, NEW s \in Sessions, request[s] # None, Access!Done(s),
         request[s].kind = "noUser", Access!CommitNoUser(request[s]), commits' = commits + 1
  PROVE  AccessInv'
<1>1. PICK w : w = request[s]
  OBVIOUS
<1>2. /\ account' = [n \in Names |-> IF n \in Access!NameOf(w.id) THEN None ELSE account[n]]
      /\ project' = IF project = None THEN None
                    ELSE [project EXCEPT !.members = {row \in @ : row.user # w.id}]
      /\ Access!SignOut(w.id)
      /\ UNCHANGED reborn
  BY <1>1 DEF Access!CommitNoUser
<1>3. /\ account' \in [Names -> AccountRows \cup {None}]
      /\ \A n \in Names : account'[n] # None => account'[n] = account[n]
      /\ \A n \in Names : account[n] # None /\ account[n].id # w.id => account'[n] = account[n]
      /\ \A n \in Names : n # w.id[2] => account'[n] = account[n]
  BY <1>2, OneName DEF AccessInv, AccessTypes, Access!NameOf
<1>4. project # None =>
        /\ project' \in ProjectRows /\ project'.owner = project.owner /\ project'.type = project.type
        /\ project'.members = {row \in project.members : row.user # w.id}
  BY <1>2 DEF AccessInv, AccessTypes, ProjectRows
<1>5. project = None => project' = None
  BY <1>2
<1>6. out' \in SUBSET Sessions
      /\ \A q \in out' : q \in out \/ (token[q] # None /\ token[q].id = w.id)
  BY <1>2 DEF Access!SignOut, AccessInv, AccessTypes
<1>7. AccessTypes'
  <2>1. \A m \in Names : account'[m] # None => account'[m].id[2] = m
    BY <1>3 DEF AccessInv, AccessTypes
  <2>2. project' # None => Access!KeysHold(project.members)'
    <3> SUFFICES ASSUME project' # None PROVE Access!KeysHold(project.members)'
      OBVIOUS
    <3>1. project # None /\ Access!KeysHold(project.members)
      BY <1>5 DEF AccessInv, AccessTypes
    <3>2. ASSUME NEW row \in project'.members PROVE Access!NameOf(row.user)' # {}
      <4>1. row \in project.members /\ row.user # w.id
        BY <1>4, <3>1
      <4>2. PICK n \in Access!NameOf(row.user) : TRUE
        BY <3>1, <4>1 DEF Access!KeysHold
      <4>3. n \in Names /\ account[n] # None /\ account[n].id = row.user
        BY DEF Access!NameOf
      <4> QED BY <1>3, <4>1, <4>3 DEF Access!NameOf
    <3>3. \A r, q \in project'.members : r.user = q.user => r = q
      BY <1>4, <3>1 DEF Access!KeysHold
    <3> QED BY <3>2, <3>3 DEF Access!KeysHold
  <2>3. project' \in ProjectRows \cup {None}
    BY <1>4, <1>5
  <2> QED BY <1>2, <1>3, <1>6, <2>1, <2>2, <2>3, Committed DEF AccessInv, AccessTypes
<1>8. AccessInTurn'
  <2> SUFFICES ASSUME ~overlapped PROVE AccessInTurn'
    BY Committed DEF AccessInTurn
  <2>1. AccessChecked(w) /\ w.kind = "noUser" /\ (\A t \in Sessions : request'[t] = None)
        /\ UNCHANGED overlapped
    BY <1>1, Committed
  <2>2. PICK m \in Names : Administers(m) /\ m # w.id[2]
    BY <2>1 DEF AccessChecked
  <2>3. Administers(m)'
    BY <1>3, <2>2 DEF Administers
  <2>4. project # None => project.owner \in Names /\ project.owner # w.id[2]
    BY <2>1 DEF AccessChecked, AccessInv, AccessTypes, ProjectRows
  <2> QED BY <1>3, <1>4, <1>5, <2>1, <2>3, <2>4 DEF AccessInv, AccessInTurn
<1>9. TokensAge'
  <2> SUFFICES ASSUME ~overlapped, ~reborn PROVE TokensAge'
    BY <1>2, Committed DEF TokensAge
  <2>1. (\A t \in Sessions : request'[t] = None) /\ UNCHANGED token
    BY Committed
  <2>2. ASSUME NEW q \in Sessions, token[q] # None, account'[token[q].name] # None
        PROVE  /\ account'[token[q].name].id = token[q].id
               /\ token[q].ver <= account'[token[q].name].ver
               /\ q \in out' => token[q].ver < account'[token[q].name].ver
    <3>1. token[q].name \in Names
      BY <2>2 DEF AccessInv, AccessTypes, Tokens
    <3>2. account'[token[q].name] = account[token[q].name]
      BY <1>3, <2>2, <3>1
    <3>3. account[token[q].name].id = token[q].id
      BY <2>2, <3>2 DEF AccessInv, TokensAge
    <3>4. token[q].id # w.id
      BY <1>2, <2>2, <3>1, <3>2, <3>3 DEF Access!NameOf
    <3> QED BY <1>6, <2>2, <3>2, <3>4 DEF AccessInv, TokensAge
  <2> QED BY <2>1, <2>2 DEF TokensAge
<1> QED BY <1>7, <1>8, <1>9 DEF AccessInv

\* What a write of the project changes: no account, no token, no version.
LEMMA ProjectWritten ==
  ASSUME AccessInv, NEW s \in Sessions, request[s] # None, Access!Done(s), commits' = commits + 1,
         UNCHANGED <<account, out, reborn>>,
         project' \in ProjectRows \cup {None},
         project' # None => Access!KeysHold(project'.members),
         ~overlapped /\ project' # None =>
           /\ account[project'.owner] # None /\ account[project'.owner].role # "guest"
           /\ project'.members # {} => project'.type = "team"
           /\ \A row \in project'.members : row.user[2] # project'.owner
  PROVE  AccessInv'
<1>1. AccessTypes'
  <2>1. \A id : Access!NameOf(id)' = Access!NameOf(id)
    BY DEF Access!NameOf
  <2>2. project' # None => Access!KeysHold(project.members)'
    BY <2>1 DEF Access!KeysHold
  <2>3. /\ account' \in [Names -> AccountRows \cup {None}]
        /\ \A n \in Names : account'[n] # None => account'[n].id[2] = n
        /\ commits' \in Nat /\ out' \in SUBSET Sessions /\ reborn' \in BOOLEAN
    BY DEF AccessInv, AccessTypes
  <2>4. /\ token' \in [Sessions -> Tokens \cup {None}] /\ overlapped' \in BOOLEAN
        /\ \A q \in Sessions : token'[q] # None => token'[q].id[2] = token'[q].name
    BY Committed DEF AccessInv, AccessTypes
  <2> QED BY <2>2, <2>3, <2>4, Committed DEF AccessTypes
<1>2. AccessInTurn'
  <2> SUFFICES ASSUME ~overlapped PROVE AccessInTurn'
    BY Committed DEF AccessInTurn
  <2>1. (\A t \in Sessions : request'[t] = None) /\ UNCHANGED overlapped
    BY Committed
  <2> QED BY <2>1 DEF AccessInv, AccessInTurn, Administers
<1>3. TokensAge'
  <2> SUFFICES ASSUME ~overlapped, ~reborn PROVE TokensAge'
    BY Committed DEF TokensAge
  <2>1. (\A t \in Sessions : request'[t] = None) /\ UNCHANGED token
    BY Committed
  <2> QED BY <2>1 DEF AccessInv, TokensAge
<1> QED BY <1>1, <1>2, <1>3 DEF AccessInv

\* The rows an insert adds.
LEMMA NewRowsAre ==
  ASSUME AccessInv, NEW insert \in SUBSET Grants
  PROVE  /\ Access!NewRows(insert) \in SUBSET MemberRows
         /\ Access!NewRows(insert) # {} => insert # {}
         /\ \A row \in Access!NewRows(insert) : \E i \in insert : row.user = i.user
<1>1. ASSUME NEW row \in Access!NewRows(insert)
      PROVE  row \in MemberRows /\ \E i \in insert : row.user = i.user
  <2>1. PICK i \in insert : row = [user |-> i.user, at |-> commits + 1, access |-> i.access, new |-> TRUE]
    BY DEF Access!NewRows
  <2>2. commits \in Nat /\ i.user \in UserIds /\ i.access \in {"view", "edit"}
    BY DEF Grants, AccessInv, AccessTypes
  <2> QED BY <2>1, <2>2 DEF MemberRows
<1> QED BY <1>1

LEMMA CommitNewProjectStep ==
  ASSUME AccessParameters, AccessInv, NEW s \in Sessions, request[s] # None, Access!Done(s),
         request[s].kind = "newProject", Access!CommitNewProject(request[s]), commits' = commits + 1
  PROVE  AccessInv'
<1>1. PICK w : w = request[s]
  OBVIOUS
<1>2. w.kind = "newProject" /\ w.owner \in Names /\ w.type \in {"personal", "team"} /\ w.insert \in SUBSET Grants
  BY <1>1, Committed DEF WriteTypes
<1>3. PICK rows : rows = Access!NewRows(w.insert)
  OBVIOUS
<1>4. /\ Access!KeysHold(rows)
      /\ project' = [at |-> commits + 1, owner |-> w.owner, type |-> w.type, members |-> rows]
      /\ UNCHANGED <<account, out, reborn>>
  BY <1>1, <1>3 DEF Access!CommitNewProject
<1>5. /\ rows \in SUBSET MemberRows
      /\ rows # {} => w.insert # {}
      /\ \A row \in rows : \E i \in w.insert : row.user = i.user
  BY <1>2, <1>3, NewRowsAre
<1>6. project' \in ProjectRows /\ project'.owner = w.owner /\ project'.type = w.type /\ project'.members = rows
  BY <1>2, <1>4, <1>5 DEF ProjectRows, AccessInv, AccessTypes
<1>7. ASSUME ~overlapped
      PROVE  /\ account[w.owner] # None /\ account[w.owner].role # "guest"
             /\ w.insert # {} => w.type = "team"
             /\ \A i \in w.insert : i.user[2] # w.owner
  <2>1. AccessChecked(w)
    BY <1>1, <1>7, Committed
  <2> QED BY <1>2, <2>1 DEF AccessChecked
<1>8. ~overlapped => /\ rows # {} => w.type = "team"
                     /\ \A row \in rows : row.user[2] # w.owner
  BY <1>5, <1>7
<1> QED BY <1>4, <1>6, <1>7, <1>8, ProjectWritten

LEMMA CommitProjectStep ==
  ASSUME AccessParameters, AccessInv, NEW s \in Sessions, request[s] # None, Access!Done(s),
         request[s].kind = "project", Access!CommitProject(request[s]), commits' = commits + 1
  PROVE  AccessInv'
<1>1. PICK w : w = request[s]
  OBVIOUS
<1>2. /\ w.kind = "project" /\ w.change \in SUBSET MemberRows /\ w.insert \in SUBSET Grants
      /\ "type" \in DOMAIN w.set => w.set["type"] \in {"personal", "team"}
      /\ {"at", "owner", "members"} \cap DOMAIN w.set = {}
  BY <1>1, Committed DEF WriteTypes
<1> DEFINE touched == w.drop \cup {Access!RowKey(row) : row \in w.change}
           rest == {row \in project.members : Access!RowKey(row) \notin touched}
<1>3. PICK rows : rows = Access!NewRows(w.insert)
  OBVIOUS
<1>4. PICK members : members = rest \cup w.change \cup rows
  OBVIOUS
<1>5. /\ project # None
      /\ {Access!RowKey(row) : row \in w.change} \subseteq {Access!RowKey(row) : row \in project.members}
      /\ Access!KeysHold(members)
      /\ project' = Access!Updated([project EXCEPT !.members = members], w.set)
      /\ UNCHANGED <<account, out, reborn>>
  BY <1>1, <1>3, <1>4 DEF Access!CommitProject
<1>6. /\ rows \in SUBSET MemberRows
      /\ rows # {} => w.insert # {}
      /\ \A row \in rows : \E i \in w.insert : row.user = i.user
  BY <1>2, <1>3, NewRowsAre
<1>7. project \in ProjectRows
  BY <1>5 DEF AccessInv, AccessTypes
<1>8. rest \subseteq project.members /\ members \in SUBSET MemberRows
  BY <1>2, <1>4, <1>6, <1>7 DEF ProjectRows
<1>9. PICK base : base = [project EXCEPT !.members = members]
  OBVIOUS
<1>10. base \in ProjectRows /\ base.members = members /\ base.owner = project.owner /\ base.type = project.type
  BY <1>7, <1>8, <1>9 DEF ProjectRows
<1>11. /\ project' \in ProjectRows /\ project'.owner = project.owner /\ project'.members = members
       /\ project'.type = TypeAfter(w)
  BY <1>2, <1>5, <1>9, <1>10, UpdatedProject DEF TypeAfter
<1>12. ASSUME ~overlapped
       PROVE  /\ w.insert # {} \/ w.change # {} => TypeAfter(w) = "team"
              /\ (\E row \in project.members : Access!RowKey(row) \notin w.drop) => TypeAfter(w) = "team"
              /\ \A i \in w.insert : i.user[2] # project.owner
              /\ account[project.owner] # None /\ account[project.owner].role # "guest"
              /\ \A row \in project.members : row.user[2] # project.owner
  <2>1. AccessChecked(w)
    BY <1>1, <1>12, Committed
  <2> QED BY <1>2, <1>5, <1>12, <2>1 DEF AccessChecked, AccessInv, AccessInTurn
<1>13. ASSUME ~overlapped, NEW row \in members
       PROVE  TypeAfter(w) = "team" /\ row.user[2] # project.owner
  <2>1. CASE row \in rest
    BY <1>8, <1>12, <1>13, <2>1
  <2>2. CASE row \in w.change
    <3>1. PICK r \in project.members : Access!RowKey(r) = Access!RowKey(row)
      BY <1>5, <2>2
    <3>2. r.user = row.user
      BY <3>1 DEF Access!RowKey
    <3> QED BY <1>12, <1>13, <2>2, <3>2
  <2>3. CASE row \in rows
    BY <1>6, <1>12, <1>13, <2>3
  <2> QED BY <1>4, <1>13, <2>1, <2>2, <2>3
<1>14. ~overlapped =>
         /\ account[project.owner] # None /\ account[project.owner].role # "guest"
         /\ members # {} => TypeAfter(w) = "team"
         /\ \A row \in members : row.user[2] # project.owner
  BY <1>12, <1>13
<1> QED BY <1>5, <1>11, <1>14, ProjectWritten

LEMMA AccessCommitStep ==
  ASSUME AccessParameters, AccessInv, NEW s \in Sessions, Access!Commit(s)
  PROVE  AccessInv'
<1>1. request[s] # None /\ Access!Apply(request[s]) /\ commits' = commits + 1 /\ Access!Done(s)
  BY DEF Access!Commit
<1>2. CASE request[s].kind = "user" /\ Access!CommitUser(request[s])
  BY <1>1, <1>2, CommitUserStep
<1>3. CASE request[s].kind = "newUser" /\ Access!CommitNewUser(request[s])
  BY <1>1, <1>3, CommitNewUserStep
<1>4. CASE request[s].kind = "noUser" /\ Access!CommitNoUser(request[s])
  BY <1>1, <1>4, CommitNoUserStep
<1>5. CASE request[s].kind = "newProject" /\ Access!CommitNewProject(request[s])
  BY <1>1, <1>5, CommitNewProjectStep
<1>6. CASE request[s].kind = "project" /\ Access!CommitProject(request[s])
  BY <1>1, <1>6, CommitProjectStep
<1>7. CASE request[s].kind = "noProject" /\ Access!CommitNoProject(request[s])
  <2>1. project' = None /\ UNCHANGED <<account, out, reborn>>
    BY <1>7 DEF Access!CommitNoProject
  <2> QED BY <1>1, <2>1, ProjectWritten
<1> QED BY <1>1, <1>2, <1>3, <1>4, <1>5, <1>6, <1>7 DEF Access!Apply

\* Nothing but the request changes.
LEMMA RollbackStep ==
  ASSUME AccessInv, NEW s \in Sessions, request[s] # None, Access!Done(s),
         UNCHANGED <<account, project, commits, out, reborn>>
  PROVE  AccessInv'
<1>1. AccessTypes'
  BY Committed DEF AccessInv, AccessTypes, Access!KeysHold, Access!NameOf
<1>2. AccessInTurn'
  BY Committed DEF AccessInv, AccessInTurn, Administers
<1>3. TokensAge'
  BY Committed DEF AccessInv, TokensAge
<1> QED BY <1>1, <1>2, <1>3 DEF AccessInv

LEMMA BootstrapStep ==
  ASSUME AccessParameters, AccessInv, Access!Bootstrap
  PROVE  AccessInv'
<1>1. PICK to \in AccountRows :
        /\ account' = [account EXCEPT ![Root] = to]
        /\ to.role = "admin" /\ to.active /\ to.id[2] = Root
        /\ account[Root] # None => to.id = account[Root].id /\ to.ver = account[Root].ver
        /\ account[Root] = None => reborn'
        /\ reborn' \in BOOLEAN /\ (reborn => reborn')
  <2>1. Root \in Names /\ commits \in Nat
    BY DEF AccessParameters, AccessInv, AccessTypes
  <2>2. CASE account[Root] = None
    <3>1. account' = [account EXCEPT ![Root] = Access!Account(commits + 1, Root, "admin")] /\ reborn' = TRUE
      BY <2>2 DEF Access!Bootstrap
    <3>2. PICK to : to = Access!Account(commits + 1, Root, "admin")
      OBVIOUS
    <3>3. to = [id |-> <<commits + 1, Root>>, role |-> "admin", active |-> TRUE, ver |-> 1]
      BY <3>2 DEF Access!Account
    <3>4. to \in AccountRows
      <4>1. <<commits + 1, Root>> \in UserIds
        BY <2>1 DEF UserIds
      <4>2. "admin" \in AllRoles /\ TRUE \in BOOLEAN /\ 1 \in Nat
        BY DEF AllRoles
      <4> QED BY <3>3, <4>1, <4>2 DEF AccountRows
    <3>5. to.role = "admin" /\ to.active /\ to.id[2] = Root
      BY <3>3
    <3> QED BY <2>2, <3>1, <3>2, <3>4, <3>5
  <2>3. CASE account[Root] # None
    <3>1. PICK row : row = account[Root]
      OBVIOUS
    <3>2. row \in AccountRows /\ row.id[2] = Root
      BY <2>1, <2>3, <3>1 DEF AccessInv, AccessTypes
    <3>3. PICK to : to = [row EXCEPT !.role = "admin", !.active = TRUE]
      OBVIOUS
    <3>4. to \in AccountRows /\ to.role = "admin" /\ to.active /\ to.id = row.id /\ to.ver = row.ver
      BY <3>2, <3>3 DEF AccountRows, AllRoles
    <3>5. account' = [account EXCEPT ![Root].role = "admin", ![Root].active = TRUE] /\ UNCHANGED reborn
      BY <2>3 DEF Access!Bootstrap
    <3>6. account' = [account EXCEPT ![Root] = to]
      BY <2>1, <3>1, <3>3, <3>5 DEF AccessInv, AccessTypes
    <3> QED BY <2>3, <3>1, <3>2, <3>4, <3>5, <3>6 DEF AccessInv, AccessTypes
  <2> QED BY <2>2, <2>3
<1>2. commits' = commits + 1 /\ UNCHANGED <<project, token, request, out, overlapped>>
  BY DEF Access!Bootstrap
<1>3. to # None /\ Root \in Names
  BY DEF AccessParameters
<1>4. /\ account' \in [Names -> AccountRows \cup {None}]
      /\ account'[Root] = to /\ \A m \in Names \ {Root} : account'[m] = account[m]
  BY <1>1, <1>3 DEF AccessInv, AccessTypes
<1>5. \A id : Access!NameOf(id) # {} => Access!NameOf(id)' # {}
  BY <1>1, <1>3, <1>4 DEF Access!NameOf
<1>6. AccessTypes'
  <2>1. \A m \in Names : account'[m] # None => account'[m].id[2] = m
    BY <1>1, <1>4 DEF AccessInv, AccessTypes
  <2>2. project # None => Access!KeysHold(project.members)'
    BY <1>2, <1>5 DEF AccessInv, AccessTypes, Access!KeysHold
  <2> QED BY <1>1, <1>2, <1>4, <2>1, <2>2 DEF AccessInv, AccessTypes
<1>7. AccessInTurn'
  <2> SUFFICES ASSUME ~overlapped PROVE AccessInTurn'
    BY <1>2 DEF AccessInTurn
  <2>1. \A m \in Names : Administers(m) => Administers(m)'
    BY <1>1, <1>3, <1>4 DEF Administers
  <2>2. \A m \in Names : account[m] # None /\ account[m].role # "guest" =>
                            account'[m] # None /\ account'[m].role # "guest"
    BY <1>1, <1>3, <1>4
  <2>3. project # None => project.owner \in Names
    BY DEF AccessInv, AccessTypes, ProjectRows
  <2>4. ASSUME NEW t \in Sessions, request[t] # None PROVE AccessChecked(request[t])'
    <3>1. AccessChecked(request[t]) /\ WriteTypes(request[t])
      BY <2>4 DEF AccessInv, AccessTypes, AccessInTurn
    <3>2. PICK w : w = request[t]
      OBVIOUS
    <3>3. w.kind = "newProject" => w.owner \in Names
      BY <3>1, <3>2 DEF WriteTypes
    <3>4. AccessChecked(w)'
      BY <1>2, <2>1, <2>2, <3>1, <3>2, <3>3 DEF AccessChecked, TypeAfter
    <3> QED BY <1>2, <3>2, <3>4
  <2> QED BY <1>2, <2>1, <2>2, <2>3, <2>4 DEF AccessInv, AccessInTurn
<1>8. TokensAge'
  <2> SUFFICES ASSUME ~overlapped, ~reborn' PROVE TokensAge'
    BY <1>2 DEF TokensAge
  <2>1. account[Root] # None /\ ~reborn /\ to.id = account[Root].id /\ to.ver = account[Root].ver
    BY <1>1
  <2>2. \A m \in Names :
          /\ (account'[m] # None) <=> (account[m] # None)
          /\ account[m] # None => account'[m].id = account[m].id /\ account'[m].ver = account[m].ver
    BY <1>3, <1>4, <2>1
  <2>3. \A id : Access!NameOf(id)' = Access!NameOf(id) /\ Access!NameOf(id) \subseteq Names
    BY <2>2 DEF Access!NameOf
  <2>4. \A q \in Sessions : token[q] # None => token[q].name \in Names
    BY DEF AccessInv, AccessTypes, Tokens
  <2>5. ASSUME NEW q \in Sessions, request[q] # None PROVE VersionRises(request[q])'
    <3>1. VersionRises(request[q])
      BY <2>1, <2>5 DEF AccessInv, TokensAge
    <3>2. \A n \in Access!NameOf(request[q].id) : account'[n].ver = account[n].ver
      BY <2>2 DEF Access!NameOf
    <3> QED BY <1>2, <2>3, <3>1, <3>2 DEF VersionRises
  <2>6. ASSUME NEW q \in Sessions, token[q] # None, account'[token[q].name] # None
        PROVE  /\ account'[token[q].name].id = token[q].id
               /\ token[q].ver <= account'[token[q].name].ver
               /\ q \in out => token[q].ver < account'[token[q].name].ver
    <3>1. token[q].name \in Names
      BY <2>4, <2>6
    <3>2. PICK m \in Names : m = token[q].name
      BY <3>1
    <3>3. /\ account[m] # None /\ account'[m].id = account[m].id /\ account'[m].ver = account[m].ver
      BY <2>2, <2>6, <3>2
    <3> QED BY <2>1, <2>6, <3>2, <3>3 DEF AccessInv, TokensAge
  <2> QED BY <1>2, <2>5, <2>6 DEF TokensAge
<1> QED BY <1>6, <1>7, <1>8 DEF AccessInv

LEMMA AccessStep == ASSUME AccessParameters, AccessInv, [Access!Next]_(Access!vars) PROVE AccessInv'
<1>1. ASSUME NEW s \in Sessions, Access!Asks(s) PROVE AccessInv'
  <2>1. ASSUME NEW n \in Names, Access!SetPassword(s, n) \/ Access!DeleteUser(s, n) PROVE AccessInv'
    BY <2>1, PasswordStep, NoUserStep
  <2>2. ASSUME NEW n \in Names, NEW role \in Roles, Access!CreateUser(s, n, role) \/ Access!SetRole(s, n, role)
        PROVE  AccessInv'
    BY <2>2, NewUserStep, RoleStep
  <2>3. ASSUME NEW n \in Names, NEW active \in BOOLEAN, Access!SetActive(s, n, active) PROVE AccessInv'
    BY <2>3, ActiveStep
  <2>4. ASSUME NEW type \in {"personal", "team"}, NEW chosen \in Access!Choices,
               Access!CreateProject(s, type, chosen) \/ Access!UpdateProject(s, type, chosen)
        PROVE  AccessInv'
    BY <2>4, NewProjectStep, ChangeProjectStep
  <2>5. CASE Access!Leave(s) \/ Access!Acknowledge(s) \/ Access!DeleteProject(s)
    BY <2>5, LeaveStep, AcknowledgeStep, NoProjectStep
  <2> QED BY <1>1, <2>1, <2>2, <2>3, <2>4, <2>5 DEF Access!Asks
<1>2. ASSUME NEW s \in Sessions, NEW n \in Names, Access!Login(s, n) PROVE AccessInv'
  BY <1>2, LoginStep
<1>3. ASSUME NEW s \in Sessions, Access!Commit(s) PROVE AccessInv'
  BY <1>3, AccessCommitStep
<1>4. ASSUME NEW s \in Sessions, Access!Rollback(s) PROVE AccessInv'
  BY <1>4, RollbackStep DEF Access!Rollback
<1>5. CASE Access!Bootstrap
  BY <1>5, BootstrapStep
<1>6. CASE UNCHANGED Access!vars
  <2>1. AccessTypes'
    BY <1>6 DEF Access!vars, AccessInv, AccessTypes, Access!KeysHold, Access!NameOf
  <2>2. AccessInTurn'
    BY <1>6 DEF Access!vars, AccessInv, AccessInTurn, AccessChecked, Administers, TypeAfter
  <2>3. TokensAge'
    BY <1>6 DEF Access!vars, AccessInv, TokensAge, VersionRises, Access!NameOf
  <2> QED BY <2>1, <2>2, <2>3 DEF AccessInv
<1> QED BY <1>1, <1>2, <1>3, <1>4, <1>5, <1>6 DEF Access!Next

\* Accounts, sessions, members and what requests in flight have checked keep
\* the invariant (auth/service, admin/routes, projects/service).
THEOREM AccessInvariance == ASSUME AccessParameters PROVE Access!Spec => []AccessInv
<1>1. Access!Init => AccessInv
  BY AccessInit
<1>2. AccessInv /\ [Access!Next]_(Access!vars) => AccessInv'
  BY AccessStep
<1> QED BY <1>1, <1>2, PTL DEF Access!Spec

-----------------------------------------------------------------------------
(* What the invariant says *)

LEMMA ListedIsOpen == ASSUME AccessInv PROVE Access!ListShowsWhatOpens
<1> SUFFICES ASSUME project # None, NEW n \in Names, account[n] # None
             PROVE  Access!Listed(n) <=> Access!Permission(n) # "none"
  BY DEF Access!ListShowsWhatOpens
<1>1. PICK a : a = account[n]
  OBVIOUS
<1>2. \A row \in Access!Assignment(a.id) : row.access \in {"view", "edit"}
  BY DEF Access!Assignment, AccessInv, AccessTypes, ProjectRows, MemberRows
<1>3. CASE project.owner = n
  BY <1>3 DEF Access!Permission, Access!Listed
<1>4. CASE project.owner # n /\ a.role = "admin"
  BY <1>1, <1>4 DEF Access!Permission, Access!Listed
<1>5. CASE project.owner # n /\ a.role # "admin" /\ Access!Assignment(a.id) # {}
  <2>1. PICK to : to = (CHOOSE row \in Access!Assignment(a.id) : TRUE)
    OBVIOUS
  <2>2. to \in Access!Assignment(a.id)
    BY <1>5, <2>1
  <2>3. Access!Permission(n) = IF a.role = "guest" THEN "view" ELSE to.access
    BY <1>1, <1>5, <2>1 DEF Access!Permission
  <2>4. Access!Permission(n) # "none"
    BY <1>2, <2>2, <2>3
  <2> QED BY <1>1, <1>5, <2>4 DEF Access!Listed
<1>6. CASE project.owner # n /\ a.role # "admin" /\ Access!Assignment(a.id) = {}
  <2>1. Access!Permission(n) = IF a.role = "manager" THEN "view" ELSE "none"
    BY <1>1, <1>6 DEF Access!Permission
  <2> QED BY <1>1, <1>6, <2>1 DEF Access!Listed
<1> QED BY <1>3, <1>4, <1>5, <1>6

LEMMA OutIsOut == ASSUME AccessInv PROVE Access!SignedOutStaysOut
<1> SUFFICES ASSUME ~overlapped, ~reborn, NEW s \in Sessions, s \in out, NEW n \in Access!Callers(s) PROVE FALSE
  BY DEF Access!SignedOutStaysOut, AccessInv, AccessTypes
<1>1. token[s] # None /\ n \in Access!Holder(token[s]) /\ account[n].ver = token[s].ver
  BY DEF Access!Callers
<1>2. token[s] \in Tokens /\ token[s].id[2] = token[s].name
  BY <1>1 DEF AccessInv, AccessTypes
<1>3. n = token[s].name /\ account[n] # None
  BY <1>1, <1>2, OneName DEF Access!Holder, AccessInv
<1>4. token[s].ver < account[n].ver /\ token[s].ver \in Nat
  BY <1>1, <1>2, <1>3 DEF AccessInv, TokensAge, Tokens
<1> QED BY <1>1, <1>4

LEMMA MembersAreFit == ASSUME AccessInv PROVE Access!MembersFit
<1> SUFFICES ASSUME project # None
             PROVE  /\ Access!KeysHold(project.members)
                    /\ ~overlapped => /\ project.members # {} => project.type = "team"
                                      /\ \A row \in project.members : Access!NameOf(row.user) # {project.owner}
  BY DEF Access!MembersFit
<1>1. Access!KeysHold(project.members)
  BY DEF AccessInv, AccessTypes
<1>2. ASSUME ~overlapped, NEW row \in project.members PROVE Access!NameOf(row.user) # {project.owner}
  <2>1. row.user[2] # project.owner
    BY <1>2 DEF AccessInv, AccessInTurn
  <2>2. Access!NameOf(row.user) \subseteq {row.user[2]}
    BY OneName DEF AccessInv
  <2> QED BY <2>1, <2>2
<1> QED BY <1>1, <1>2 DEF AccessInv, AccessInTurn

\* Owners can work, an admin remains, what is listed opens, members fit and a
\* session that was signed out stays out, for any accounts, roles and sessions
\* (admin/routes, projects/service and permissions, core/auth).
THEOREM AccessIsKept == ASSUME AccessParameters PROVE Access!Spec => []Access!AccessHolds
<1>1. ASSUME AccessInv PROVE Access!AccessHolds
  <2>1. Access!OwnersCanWork /\ Access!AnAdminRemains
    BY <1>1 DEF AccessInv, AccessInTurn, Access!OwnersCanWork, Access!AnAdminRemains, Administers
  <2> QED BY <1>1, <2>1, ListedIsOpen, OutIsOut, MembersAreFit DEF Access!AccessHolds
<1>2. AccessInv => Access!AccessHolds
  BY <1>1
<1> QED BY <1>2, AccessInvariance, PTL
-----------------------------------------------------------------------------
(* One workflow and its versions *)

\* What every theorem assumes of the constants.
DocumentParameters == /\ None \notin Sessions \cup Document!VersionRow
                      /\ VersionLimit \in Nat /\ MaxNumber \in Nat /\ MaxRevision \in Nat \ {0}

-----------------------------------------------------------------------------
(* The inductive invariant.                                                *)

Pending(e) == request[e].at # "idle"

\* What a handler remembers, and the lock it holds while it inserts.
DocumentRequestSound(e) ==
  LET q == request[e] IN
  /\ q.at = "write" => q.loaded \in Document!Row /\ q.wanted \in Document!Row
  /\ q.at = "reply" /\ q.op = "autosave" => q.wanted \in Document!Row
  /\ q.at \in {"lock", "insert"} => q.loaded \in Document!Row
  /\ q.at = "insert" => /\ lockedBy = e
                        /\ q.number \in Document!Numbers /\ version[q.number] = None

\* The lock is held from the count of the versions to the insert, so that a
\* place that has been counted free stays free.
LockSound == /\ lockedBy # None => request[lockedBy].at = "insert"
             /\ Cardinality(Document!Versions) <= VersionLimit
             /\ lockedBy # None => Cardinality(Document!Versions) < VersionLimit

\* What a handler has read is the row still, when no other may write.
RequestCurrent(e) ==
  LET q == request[e] IN
  /\ q.at = "write" =>
       /\ q.loaded = workflow /\ q.wanted.revision = workflow.revision + 1
       /\ q.op = "autosave" => \/ q.wanted.graph = workflow.graph
                               \/ editor[e].graph = workflow.graph
  /\ q.at = "reply" /\ q.op = "autosave" => q.wanted.graph = workflow.graph
  /\ q.at \in {"lock", "insert"} => q.loaded = workflow

\* No revision that an editor or a version remembers lies ahead of the row.
Remembered(revision, graph) ==
  /\ revision <= workflow.revision
  /\ revision = workflow.revision => graph = workflow.graph

DocumentInTurn ==
  ~overlapped =>
    /\ \A e, f \in Sessions : Pending(e) /\ Pending(f) => e = f
    /\ \A e \in Sessions : RequestCurrent(e)
    /\ \A e \in Sessions : Remembered(editor[e].revision, editor[e].graph)
    /\ \A k \in Document!Versions : Remembered(version[k].source_revision, version[k].graph)
    /\ \A j, k \in Document!Versions : version[j].source_revision = version[k].source_revision
                                => version[j].graph = version[k].graph

DInv == /\ Document!TypeOK
        /\ \A e \in Sessions : DocumentRequestSound(e)
        /\ LockSound
        /\ DocumentInTurn

-----------------------------------------------------------------------------
(* Helpers of the module.                                                  *)

\* A commit writes a row, column by column.
LEMMA DocumentColumns ==
  ASSUME NEW row \in Document!Row, NEW loaded \in Document!Row, NEW wanted \in Document!Row
  PROVE  LET new == [f \in DOMAIN row |-> Document!Written(loaded[f], wanted[f], row[f])] IN
         /\ new \in Document!Row
         /\ new.graph = Document!Written(loaded.graph, wanted.graph, row.graph)
         /\ new.name = Document!Written(loaded.name, wanted.name, row.name)
         /\ new.revision = Document!Written(loaded.revision, wanted.revision, row.revision)
<1>1. DOMAIN row = {"graph", "name", "revision"}
  BY DEF Document!Row
<1> DEFINE new == [f \in {"graph", "name", "revision"} |-> Document!Written(loaded[f], wanted[f], row[f])]
<1>2. /\ new.graph = Document!Written(loaded.graph, wanted.graph, row.graph)
      /\ new.name = Document!Written(loaded.name, wanted.name, row.name)
      /\ new.revision = Document!Written(loaded.revision, wanted.revision, row.revision)
  OBVIOUS
<1>3. /\ new.graph \in Graphs /\ new.name \in VersionNames /\ new.revision \in 1..MaxRevision
  BY <1>2 DEF Document!Row, Document!Written
<1>4. new = [graph |-> new.graph, name |-> new.name, revision |-> new.revision]
  OBVIOUS
<1>5. new \in Document!Row
  BY <1>3, <1>4 DEF Document!Row
<1> QED BY <1>1, <1>2, <1>5

\* max() + 1 is a number that no version has.
LEMMA Highest ==
  ASSUME DocumentParameters
  PROVE  /\ Document!HighestNumber \in 0..MaxNumber
         /\ \A j \in Document!Versions : j <= Document!HighestNumber
<1> DEFINE T == {n \in Nat : MaxNumber - n \in Document!Versions \cup {0}}
<1>1. MaxNumber \in T
  BY DEF DocumentParameters
<1>2. PICK n \in T : \A m \in T : ~(<<m, n>> \in OpToRel(<, Nat))
  <2> HIDE DEF T
  <2>1. T \subseteq Nat
    BY DEF T
  <2> QED BY <1>1, <2>1, NatLessThanWellFounded, WFMin
<1>3. \A m \in T : m >= n
  <2>1. \A m \in Nat : m < n => <<m, n>> \in OpToRel(<, Nat)
    <3> HIDE DEF T
    <3>1. n \in Nat
      BY DEF T
    <3> QED BY <3>1, ZenonT(30) DEF OpToRel
  <2>2. \A m \in T : ~(m < n)
    BY <1>2, <2>1
  <2> QED BY <2>2
<1>4. MaxNumber - n \in 0..MaxNumber
  BY DEF DocumentParameters, Document!Versions, Document!Numbers
<1>5. ASSUME NEW j \in Document!Versions PROVE j <= MaxNumber - n
  <2>1. j \in 1..MaxNumber
    BY DEF Document!Versions, Document!Numbers
  <2>2. MaxNumber - j \in T
    BY <2>1 DEF DocumentParameters
  <2> QED BY <1>3, <2>1, <2>2 DEF DocumentParameters
<1>6. \E k \in 0..MaxNumber : k \in Document!Versions \cup {0} /\ \A j \in Document!Versions : j <= k
  BY <1>4, <1>5
<1> QED BY <1>6 DEF Document!HighestNumber

\* The instance counts as this module does.
LEMMA DocumentCounts ==
  \A S : Document!Cardinality(S) = Cardinality(S)
BY DEF Document!Cardinality, Cardinality

\* Sets of versions are finite.
LEMMA Finite ==
  ASSUME DocumentParameters, NEW S \in SUBSET Document!Numbers
  PROVE  IsFiniteSet(S) /\ Cardinality(S) \in Nat
<1>1. IsFiniteSet(Document!Numbers)
  BY FS_Interval DEF DocumentParameters, Document!Numbers
<1>2. IsFiniteSet(S)
  BY <1>1, FS_Subset
<1> QED BY <1>2, FS_CardinalityType
-----------------------------------------------------------------------------
(* Handlers that stand still.                                              *)

\* A handler keeps what it remembers while its request, its lock and the place
\* of its version stay.
LEMMA SoundStays ==
  ASSUME NEW f \in Sessions, DocumentRequestSound(f), request'[f] = request[f],
         request[f].at = "insert" =>
           lockedBy' = lockedBy /\ version'[request[f].number] = version[request[f].number]
  PROVE  DocumentRequestSound(f)'
BY DEF DocumentRequestSound

\* What a handler has read is the row still while both stay.
LEMMA CurrentStays ==
  ASSUME NEW f \in Sessions, RequestCurrent(f), request'[f] = request[f],
         editor'[f] = editor[f], workflow' = workflow
  PROVE  RequestCurrent(f)'
BY DEF RequestCurrent

\* A step that leaves the editors, the row and the versions alone moves no
\* revision that one of them remembers.
LEMMA RememberedStays ==
  ASSUME Document!TypeOK, UNCHANGED <<workflow, version, editor>>,
         \A f \in Sessions : Remembered(editor[f].revision, editor[f].graph),
         \A k \in Document!Versions : Remembered(version[k].source_revision, version[k].graph),
         \A j, k \in Document!Versions : version[j].source_revision = version[k].source_revision
                                  => version[j].graph = version[k].graph
  PROVE  /\ (\A f \in Sessions : Remembered(editor[f].revision, editor[f].graph))'
         /\ (\A k \in Document!Versions : Remembered(version[k].source_revision, version[k].graph))'
         /\ (\A j, k \in Document!Versions : version[j].source_revision = version[k].source_revision
                                  => version[j].graph = version[k].graph)'
<1>1. Document!Versions' = Document!Versions
  BY DEF Document!Versions
<1> QED BY <1>1 DEF Remembered

-----------------------------------------------------------------------------
(* One lemma for each kind of step.                                        *)

\* A handler that has read the row, alone in flight or overlapping another.
LEMMA Begun ==
  ASSUME DocumentParameters, DInv, NEW e \in Sessions, NEW q \in Document!RequestState, Document!Free(e),
         request' = [request EXCEPT ![e] = q], overlapped' = Document!Overlap,
         UNCHANGED <<workflow, version, editor, lockedBy>>,
         q.at \in {"write", "lock"}, q.loaded = workflow,
         q.at = "write" => /\ q.wanted \in Document!Row /\ q.wanted.revision = workflow.revision + 1
                           /\ q.op = "autosave" /\ ~overlapped =>
                                \/ q.wanted.graph = workflow.graph
                                \/ editor[e].graph = workflow.graph
  PROVE  DInv'
<1>1. /\ request'[e] = q
      /\ \A f \in Sessions \ {e} : request'[f] = request[f]
      /\ request' \in [Sessions -> Document!RequestState]
  BY DEF DInv, Document!TypeOK
<1>2. Document!TypeOK'
  BY <1>1 DEF DInv, Document!TypeOK, Document!Overlap
<1>3. ASSUME NEW f \in Sessions PROVE DocumentRequestSound(f)'
  <2>1. CASE f = e
    BY <1>1, <2>1 DEF DocumentRequestSound, DInv, Document!TypeOK
  <2>2. CASE f # e
    BY <1>1, <2>2, SoundStays DEF DInv
  <2> QED BY <2>1, <2>2
<1>4. LockSound'
  <2>1. Document!Versions' = Document!Versions
    BY DEF Document!Versions
  <2>2. lockedBy # None => lockedBy # e /\ request'[lockedBy] = request[lockedBy]
    BY <1>1 DEF DInv, Document!TypeOK, LockSound, Document!Free
  <2> QED BY <2>1, <2>2 DEF DInv, LockSound
<1>5. DocumentInTurn'
  <2> SUFFICES ASSUME ~overlapped' PROVE DocumentInTurn'
    BY DEF DocumentInTurn
  <2>1. ~overlapped /\ \A f \in Sessions : ~Pending(f)
    BY DEF Document!Overlap, Document!InFlight, Pending
  <2>2. \A f \in Sessions \ {e} : ~Pending(f)'
    BY <1>1, <2>1 DEF Pending
  <2>3. (\A f, g \in Sessions : Pending(f) /\ Pending(g) => f = g)'
    BY <2>2
  <2>4. ASSUME NEW f \in Sessions PROVE RequestCurrent(f)'
    <3>1. CASE f = e
      BY <1>1, <2>1, <3>1 DEF RequestCurrent
    <3>2. CASE f # e
      BY <2>2, <3>2 DEF RequestCurrent, Pending
    <3> QED BY <3>1, <3>2
  <2>5. /\ (\A f \in Sessions : Remembered(editor[f].revision, editor[f].graph))'
        /\ (\A k \in Document!Versions : Remembered(version[k].source_revision, version[k].graph))'
        /\ (\A j, k \in Document!Versions : version[j].source_revision = version[k].source_revision
                                     => version[j].graph = version[k].graph)'
    BY <2>1, RememberedStays DEF DInv, DocumentInTurn
  <2> QED BY <2>3, <2>4, <2>5 DEF DocumentInTurn
<1> QED BY <1>2, <1>3, <1>4, <1>5 DEF DInv

\* A handler that means to change the row.
LEMMA Prepared ==
  ASSUME DocumentParameters, DInv, NEW e \in Sessions, Document!Free(e), NEW wanted \in Document!Row,
         NEW op \in {"autosave", "update", "assistant", "rename", "restore"},
         Document!Prepare(e, op, wanted), wanted.revision = workflow.revision + 1,
         op = "autosave" /\ ~overlapped =>
           wanted.graph = workflow.graph \/ editor[e].graph = workflow.graph
  PROVE  DInv'
<1>1. PICK row : row = workflow
  OBVIOUS
<1> DEFINE q == [at |-> "write", op |-> op, loaded |-> row, wanted |-> wanted, number |-> 0]
<1>2. q \in Document!RequestState
  BY <1>1 DEF DInv, Document!TypeOK, Document!RequestState, DocumentParameters
<1>3. /\ q.at = "write" /\ q.loaded = workflow /\ q.wanted = wanted /\ q.op = op
      /\ request' = [request EXCEPT ![e] = q] /\ overlapped' = Document!Overlap
      /\ UNCHANGED <<workflow, version, editor, lockedBy>>
  BY <1>1 DEF Document!Prepare
<1> HIDE DEF q
<1> QED BY <1>2, <1>3, Begun

\* A row that replaces the one of the workflow counts as its next revision.
LEMMA NextRow ==
  ASSUME DocumentParameters, DInv, NEW g \in Graphs, NEW n \in VersionNames, workflow.revision < MaxRevision
  PROVE  /\ Document!Replaced(g, n) \in Document!Row
         /\ Document!Replaced(g, n).revision = workflow.revision + 1
         /\ Document!Replaced(g, n).graph = g
BY DEF Document!Replaced, Document!NextRevision, DInv, Document!TypeOK, Document!Row, DocumentParameters

\* An autosave whose base is accepted: its editor has seen the graph of the
\* row, or does not change it.
LEMMA StepAutosave ==
  ASSUME DocumentParameters, DInv, NEW e \in Sessions, NEW g \in Graphs, NEW n \in VersionNames,
         Document!Autosave(e, g, n)
  PROVE  DInv'
<1>0. workflow.revision < MaxRevision
  BY DEF Document!Autosave, Document!Prepare
<1>1. PICK wanted : wanted = Document!Replaced(g, n)
  OBVIOUS
<1>2. wanted \in Document!Row /\ wanted.revision = workflow.revision + 1 /\ wanted.graph = g
  BY <1>0, <1>1, NextRow
<1>3. Document!Prepare(e, "autosave", wanted) /\ Document!Free(e)
  BY <1>1 DEF Document!Autosave
<1>4. ~overlapped => wanted.graph = workflow.graph \/ editor[e].graph = workflow.graph
  BY <1>2 DEF Document!Autosave, Document!BaseAccepted, DInv, DocumentInTurn, Remembered
<1> QED BY <1>2, <1>3, <1>4, Prepared

\* Replacing, the assistant's edits and renaming do not look at the base.
LEMMA StepReplace ==
  ASSUME DocumentParameters, DInv, NEW e \in Sessions, NEW g \in Graphs, NEW n \in VersionNames,
         \/ Document!Update(e, g, n) \/ Document!AssistantEdit(e, g) \/ Document!Rename(e, n)
  PROVE  DInv'
<1>0. workflow.revision < MaxRevision /\ Document!Free(e)
  BY DEF Document!Update, Document!AssistantEdit, Document!Rename, Document!Prepare
<1>1. workflow.graph \in Graphs /\ workflow.name \in VersionNames
  BY DEF DInv, Document!TypeOK, Document!Row
<1>2. ASSUME NEW h \in Graphs, NEW m \in VersionNames, NEW op \in {"update", "assistant", "rename"},
             Document!Prepare(e, op, Document!Replaced(h, m))
      PROVE  DInv'
  <2>1. PICK wanted : wanted = Document!Replaced(h, m)
    OBVIOUS
  <2>2. wanted \in Document!Row /\ wanted.revision = workflow.revision + 1
    BY <1>0, <2>1, NextRow
  <2>3. Document!Prepare(e, op, wanted)
    BY <1>2, <2>1
  <2> QED BY <1>0, <2>2, <2>3, Prepared
<1>3. PICK h \in Graphs, m \in VersionNames : h = workflow.graph /\ m = workflow.name
  BY <1>1
<1>4. CASE Document!Update(e, g, n)
  BY <1>2, <1>4 DEF Document!Update
<1>5. CASE Document!AssistantEdit(e, g)
  BY <1>2, <1>3, <1>5 DEF Document!AssistantEdit
<1>6. CASE Document!Rename(e, n)
  BY <1>2, <1>3, <1>6 DEF Document!Rename
<1> QED BY <1>4, <1>5, <1>6

\* Restoring counts as a revision of its own.
LEMMA StepRestore ==
  ASSUME DocumentParameters, DInv, NEW e \in Sessions, NEW k \in Document!Numbers, Document!Restore(e, k)
  PROVE  DInv'
<1>0. workflow.revision < MaxRevision /\ Document!Free(e) /\ version[k] # None
  BY DEF Document!Restore, Document!Prepare, Document!Versions
<1>1. PICK wanted : wanted = Document!Restored(version[k])
  OBVIOUS
<1>2. version[k].graph \in Graphs
  BY <1>0 DEF DInv, Document!TypeOK, Document!VersionRow
<1>3. workflow \in Document!Row
  BY DEF DInv, Document!TypeOK
<1>4. Document!NextRevision(workflow) \in 1..MaxRevision /\ Document!NextRevision(workflow) = workflow.revision + 1
  BY <1>0, <1>3 DEF Document!NextRevision, Document!Row, DocumentParameters
<1>5. wanted \in Document!Row /\ wanted.revision = workflow.revision + 1
  <2>1. PICK row \in Document!Row, g \in Graphs, r \in 1..MaxRevision :
          row = workflow /\ g = version[k].graph /\ r = Document!NextRevision(workflow)
    BY <1>2, <1>3, <1>4
  <2>2. wanted = [graph |-> g, name |-> row.name, revision |-> r]
    BY <1>1, <2>1 DEF Document!Restored, Document!Row
  <2>3. row.name \in VersionNames
    BY DEF Document!Row
  <2> QED BY <1>4, <2>1, <2>2, <2>3 DEF Document!Row
<1>6. Document!Prepare(e, "restore", wanted)
  BY <1>1 DEF Document!Restore
<1> QED BY <1>0, <1>5, <1>6, Prepared

\* An editor that takes the row as it is.
LEMMA StepOpen ==
  ASSUME DocumentParameters, DInv, NEW e \in Sessions, Document!Open(e)
  PROVE  DInv'
<1>1. /\ editor'[e] = workflow /\ editor' \in [Sessions -> Document!Row]
      /\ \A f \in Sessions \ {e} : editor'[f] = editor[f]
      /\ UNCHANGED <<workflow, version, request, lockedBy, overlapped>> /\ request[e].at = "idle"
  BY DEF Document!Open, Document!Free, DInv, Document!TypeOK
<1>2. Document!TypeOK'
  BY <1>1 DEF DInv, Document!TypeOK
<1>3. \A f \in Sessions : DocumentRequestSound(f)'
  BY <1>1, SoundStays DEF DInv
<1>4. Document!Versions' = Document!Versions
  BY <1>1 DEF Document!Versions
<1>5. LockSound'
  BY <1>1, <1>4 DEF DInv, LockSound
<1>6. DocumentInTurn'
  <2> SUFFICES ASSUME ~overlapped' PROVE DocumentInTurn'
    BY DEF DocumentInTurn
  <2>1. ~overlapped
    BY <1>1
  <2>2. (\A f, g \in Sessions : Pending(f) /\ Pending(g) => f = g)'
    BY <1>1, <2>1 DEF DInv, DocumentInTurn, Pending
  <2>3. ASSUME NEW f \in Sessions PROVE RequestCurrent(f)'
    <3>1. CASE f = e
      BY <1>1, <3>1 DEF RequestCurrent
    <3>2. CASE f # e
      BY <1>1, <2>1, <3>2, CurrentStays DEF DInv, DocumentInTurn
    <3> QED BY <3>1, <3>2
  <2>4. ASSUME NEW f \in Sessions PROVE Remembered(editor[f].revision, editor[f].graph)'
    <3>1. CASE f = e
      BY <1>1, <3>1 DEF Remembered, DInv, Document!TypeOK, Document!Row, DocumentParameters
    <3>2. CASE f # e
      BY <1>1, <2>1, <3>2 DEF DInv, DocumentInTurn, Remembered
    <3> QED BY <3>1, <3>2
  <2>5. (\A k \in Document!Versions : Remembered(version[k].source_revision, version[k].graph))'
    BY <1>1, <1>4, <2>1 DEF DInv, DocumentInTurn, Remembered
  <2>6. (\A j, k \in Document!Versions : version[j].source_revision = version[k].source_revision
                                  => version[j].graph = version[k].graph)'
    BY <1>1, <1>4, <2>1 DEF DInv, DocumentInTurn
  <2> QED BY <2>2, <2>3, <2>4, <2>5, <2>6 DEF DocumentInTurn
<1> QED BY <1>2, <1>3, <1>5, <1>6 DEF DInv
\* A commit.  In turn, what has been read is the row, and every column that
\* differs from it is written.
LEMMA StepCommit ==
  ASSUME DocumentParameters, DInv, NEW e \in Sessions, Document!Commit(e)
  PROVE  DInv'
<1>1. /\ request[e].at = "write" /\ lockedBy \in {None, e}
      /\ request' = [request EXCEPT ![e].at = "reply"]
      /\ UNCHANGED <<version, editor, lockedBy, overlapped>>
  BY DEF Document!Commit, Document!RowFree
<1>2. lockedBy = None
  BY <1>1 DEF DInv, LockSound, DocumentParameters
<1>3. PICK row, loaded, wanted :
        row = workflow /\ loaded = request[e].loaded /\ wanted = request[e].wanted
  OBVIOUS
<1>4. row \in Document!Row /\ loaded \in Document!Row /\ wanted \in Document!Row
  BY <1>1, <1>3 DEF DInv, Document!TypeOK, DocumentRequestSound
<1>5. workflow' = [f \in DOMAIN row |-> Document!Written(loaded[f], wanted[f], row[f])]
  BY <1>3 DEF Document!Commit
<1>6. /\ workflow' \in Document!Row
      /\ workflow'.graph = Document!Written(loaded.graph, wanted.graph, row.graph)
      /\ workflow'.revision = Document!Written(loaded.revision, wanted.revision, row.revision)
  BY <1>4, <1>5, DocumentColumns
<1>7. /\ request'[e].at = "reply" /\ request'[e].op = request[e].op
      /\ request'[e].wanted = wanted
      /\ \A f \in Sessions \ {e} : request'[f] = request[f]
      /\ request' \in [Sessions -> Document!RequestState]
  BY <1>1, <1>3 DEF DInv, Document!TypeOK, Document!RequestState
<1>8. Document!TypeOK'
  BY <1>1, <1>6, <1>7 DEF DInv, Document!TypeOK
<1>9. ASSUME NEW f \in Sessions PROVE DocumentRequestSound(f)'
  <2>1. CASE f = e
    BY <1>4, <1>7, <2>1 DEF DocumentRequestSound
  <2>2. CASE f # e
    BY <1>1, <1>7, <2>2, SoundStays DEF DInv
  <2> QED BY <2>1, <2>2
<1>10. Document!Versions' = Document!Versions
  BY <1>1 DEF Document!Versions
<1>11. LockSound'
  BY <1>1, <1>2, <1>10 DEF DInv, LockSound
<1>12. DocumentInTurn'
  <2> SUFFICES ASSUME ~overlapped' PROVE DocumentInTurn'
    BY DEF DocumentInTurn
  <2>1. ~overlapped
    BY <1>1
  <2>2. \A f \in Sessions \ {e} : ~Pending(f)
    BY <1>1, <2>1 DEF DInv, DocumentInTurn, Pending
  <2>3. \A f \in Sessions \ {e} : ~Pending(f)'
    BY <1>7, <2>2 DEF Pending
  <2>4. loaded = row /\ wanted.revision = row.revision + 1
    BY <1>1, <1>3, <2>1 DEF DInv, DocumentInTurn, RequestCurrent
  <2>5. workflow'.graph = wanted.graph /\ workflow'.revision = workflow.revision + 1
    BY <1>3, <1>4, <1>6, <2>4 DEF Document!Written, Document!Row, DocumentParameters
  <2>6. ASSUME NEW f \in Sessions PROVE RequestCurrent(f)'
    <3>1. CASE f = e
      BY <1>7, <2>5, <3>1 DEF RequestCurrent
    <3>2. CASE f # e
      BY <2>3, <3>2 DEF RequestCurrent, Pending
    <3> QED BY <3>1, <3>2
  <2>7. workflow.revision \in Nat
    BY DEF DInv, Document!TypeOK, Document!Row, DocumentParameters
  <2>8. ASSUME NEW f \in Sessions PROVE Remembered(editor[f].revision, editor[f].graph)'
    <3>1. editor[f].revision \in Nat /\ editor[f].revision <= workflow.revision
      BY <2>1 DEF DInv, DocumentInTurn, Remembered, Document!TypeOK, Document!Row, DocumentParameters
    <3> QED BY <1>1, <2>5, <2>7, <3>1 DEF Remembered
  <2>9. ASSUME NEW k \in Document!Versions PROVE Remembered(version[k].source_revision, version[k].graph)'
    <3>1. version[k].source_revision \in Nat /\ version[k].source_revision <= workflow.revision
      BY <2>1 DEF DInv, DocumentInTurn, Remembered, Document!TypeOK, Document!Versions, Document!VersionRow, DocumentParameters
    <3> QED BY <1>1, <2>5, <2>7, <3>1 DEF Remembered
  <2>10. (\A j, k \in Document!Versions : version[j].source_revision = version[k].source_revision
                                   => version[j].graph = version[k].graph)'
    BY <1>1, <1>10, <2>1 DEF DInv, DocumentInTurn
  <2>11. (\A k \in Document!Versions : Remembered(version[k].source_revision, version[k].graph))'
    BY <1>10, <2>9
  <2>12. (\A f, g \in Sessions : Pending(f) /\ Pending(g) => f = g)'
    BY <2>3
  <2> QED BY <2>6, <2>8, <2>10, <2>11, <2>12 DEF DocumentInTurn
<1> QED BY <1>8, <1>9, <1>11, <1>12 DEF DInv

\* A request that ends without a version, its editor adopting a row whose
\* graph and revision are those of the workflow.
LEMMA Answered ==
  ASSUME DocumentParameters, DInv, NEW e \in Sessions, request[e].at \notin {"idle", "insert"},
         request' = Document!Finished(e), UNCHANGED <<workflow, version, lockedBy, overlapped>>,
         NEW row \in Document!Row, editor' = [editor EXCEPT ![e] = row],
         ~overlapped => \/ row = editor[e]
                        \/ row.revision = workflow.revision /\ row.graph = workflow.graph
  PROVE  DInv'
<1>1. /\ request'[e] = Document!NoRequest
      /\ \A f \in Sessions \ {e} : request'[f] = request[f]
      /\ request' \in [Sessions -> Document!RequestState]
  BY DEF Document!Finished, DInv, Document!TypeOK, Document!NoRequest, Document!RequestState, DocumentParameters
<1>2. /\ editor'[e] = row /\ editor' \in [Sessions -> Document!Row]
      /\ \A f \in Sessions \ {e} : editor'[f] = editor[f]
  BY DEF DInv, Document!TypeOK
<1>3. Document!TypeOK'
  BY <1>1, <1>2 DEF DInv, Document!TypeOK
<1>4. ASSUME NEW f \in Sessions PROVE DocumentRequestSound(f)'
  <2>1. CASE f = e
    BY <1>1, <2>1 DEF DocumentRequestSound, Document!NoRequest
  <2>2. CASE f # e
    BY <1>1, <2>2, SoundStays DEF DInv
  <2> QED BY <2>1, <2>2
<1>5. LockSound'
  <2>1. Document!Versions' = Document!Versions
    BY DEF Document!Versions
  <2>2. lockedBy # None => lockedBy # e /\ request'[lockedBy] = request[lockedBy]
    BY <1>1 DEF DInv, Document!TypeOK, LockSound
  <2> QED BY <2>1, <2>2 DEF DInv, LockSound
<1>6. DocumentInTurn'
  <2> SUFFICES ASSUME ~overlapped' PROVE DocumentInTurn'
    BY DEF DocumentInTurn
  <2>1. ~overlapped
    OBVIOUS
  <2>2. (\A f, g \in Sessions : Pending(f) /\ Pending(g) => f = g)'
    BY <1>1, <2>1 DEF DInv, DocumentInTurn, Pending, Document!NoRequest
  <2>3. ASSUME NEW f \in Sessions PROVE RequestCurrent(f)'
    <3>1. CASE f = e
      BY <1>1, <3>1 DEF RequestCurrent, Document!NoRequest
    <3>2. CASE f # e
      BY <1>1, <1>2, <2>1, <3>2, CurrentStays DEF DInv, DocumentInTurn
    <3> QED BY <3>1, <3>2
  <2>4. ASSUME NEW f \in Sessions PROVE Remembered(editor[f].revision, editor[f].graph)'
    <3>1. CASE f = e
      BY <1>2, <2>1, <3>1 DEF Remembered, DInv, DocumentInTurn, Document!TypeOK, Document!Row, DocumentParameters
    <3>2. CASE f # e
      BY <1>2, <2>1, <3>2 DEF DInv, DocumentInTurn, Remembered
    <3> QED BY <3>1, <3>2
  <2>5. Document!Versions' = Document!Versions
    BY DEF Document!Versions
  <2>6. (\A k \in Document!Versions : Remembered(version[k].source_revision, version[k].graph))'
    BY <2>1, <2>5 DEF DInv, DocumentInTurn, Remembered
  <2>7. (\A j, k \in Document!Versions : version[j].source_revision = version[k].source_revision
                                  => version[j].graph = version[k].graph)'
    BY <2>1, <2>5 DEF DInv, DocumentInTurn
  <2> QED BY <2>2, <2>3, <2>4, <2>6, <2>7 DEF DocumentInTurn
<1> QED BY <1>3, <1>4, <1>5, <1>6 DEF DInv

\* An answer, and the row that its editor adopts.
LEMMA StepReply ==
  ASSUME DocumentParameters, DInv, NEW e \in Sessions, Document!Reply(e)
  PROVE  DInv'
<1>1. /\ request[e].at = "reply" /\ request' = Document!Finished(e)
      /\ UNCHANGED <<workflow, version, lockedBy, overlapped>>
  BY DEF Document!Reply
<1>2. workflow \in Document!Row /\ editor[e] \in Document!Row
  BY DEF DInv, Document!TypeOK
<1>3. CASE request[e].op = "autosave"
  <2>1. PICK row : row = [workflow EXCEPT !.graph = request[e].wanted.graph]
    OBVIOUS
  <2>2. editor' = [editor EXCEPT ![e] = row]
    BY <1>3, <2>1 DEF Document!Reply
  <2>3. request[e].wanted \in Document!Row
    BY <1>1, <1>3 DEF DInv, DocumentRequestSound
  <2>4. row \in Document!Row /\ row.revision = workflow.revision /\ row.graph = request[e].wanted.graph
    BY <1>2, <2>1, <2>3 DEF Document!Row
  <2>5. ~overlapped => row.graph = workflow.graph
    BY <1>1, <1>3, <2>4 DEF DInv, DocumentInTurn, RequestCurrent
  <2> QED BY <1>1, <2>2, <2>4, <2>5, Answered
<1>4. CASE request[e].op = "restore"
  <2>1. PICK row : row = workflow
    OBVIOUS
  <2>2. editor' = [editor EXCEPT ![e] = row]
    BY <1>4, <2>1 DEF Document!Reply
  <2> QED BY <1>1, <1>2, <2>1, <2>2, Answered
<1>5. CASE request[e].op \notin {"autosave", "restore"}
  <2>1. PICK row : row = editor[e]
    OBVIOUS
  <2>2. editor' = [editor EXCEPT ![e] = row]
    BY <1>5, <2>1 DEF Document!Reply
  <2> QED BY <1>1, <1>2, <2>1, <2>2, Answered
<1> QED BY <1>3, <1>4, <1>5

\* A version that the limit refuses.
LEMMA StepRefuse ==
  ASSUME DocumentParameters, DInv, NEW e \in Sessions, Document!RefuseVersion(e)
  PROVE  DInv'
<1>1. PICK row : row = editor[e]
  OBVIOUS
<1>2. row \in Document!Row /\ editor' = [editor EXCEPT ![e] = row]
  BY <1>1 DEF Document!RefuseVersion, DInv, Document!TypeOK
<1>3. /\ request[e].at = "lock" /\ request' = Document!Finished(e)
      /\ UNCHANGED <<workflow, version, lockedBy, overlapped>>
  BY DEF Document!RefuseVersion
<1> QED BY <1>1, <1>2, <1>3, Answered
\* A number is chosen under the lock, and is above all that are taken.
LEMMA StepNumber ==
  ASSUME DocumentParameters, DInv, NEW e \in Sessions, Document!NumberVersion(e)
  PROVE  DInv'
<1>1. /\ request[e].at = "lock" /\ lockedBy \in {None, e} /\ ~Document!LimitReached
      /\ Document!HighestNumber < MaxNumber /\ lockedBy' = e
      /\ UNCHANGED <<workflow, version, editor, overlapped>>
  BY DEF Document!NumberVersion, Document!RowFree
<1>2. lockedBy = None
  BY <1>1 DEF DInv, LockSound, DocumentParameters
<1>3. PICK n : n = Document!HighestNumber + 1
  OBVIOUS
<1>4. n \in Document!Numbers /\ version[n] = None
  <2>1. Document!HighestNumber \in 0..MaxNumber /\ \A j \in Document!Versions : j <= Document!HighestNumber
    BY Highest
  <2>2. n \in Document!Numbers
    BY <1>1, <1>3, <2>1 DEF Document!Numbers, DocumentParameters
  <2>3. n \notin Document!Versions
    BY <1>3, <2>1, <2>2 DEF Document!Numbers, DocumentParameters
  <2> QED BY <2>2, <2>3 DEF Document!Versions
<1>5. request' = [request EXCEPT ![e] = [request[e] EXCEPT !.at = "insert", !.number = n]]
  BY <1>3 DEF Document!NumberVersion
<1>6. PICK q : q = [request[e] EXCEPT !.at = "insert", !.number = n]
  OBVIOUS
<1>7. /\ q \in Document!RequestState /\ q.at = "insert" /\ q.number = n
      /\ q.loaded = request[e].loaded
  <2>1. PICK p \in Document!RequestState : p = request[e]
    BY DEF DInv, Document!TypeOK
  <2>2. /\ q = [at |-> "insert", op |-> p.op, loaded |-> p.loaded, wanted |-> p.wanted, number |-> n]
        /\ p.op \in {"autosave", "update", "assistant", "rename", "restore", "version"}
        /\ p.loaded \in Document!Row \cup {None} /\ p.wanted \in Document!Row \cup {None}
    BY <1>6, <2>1 DEF Document!RequestState
  <2>3. n \in 0..MaxNumber
    BY <1>4 DEF Document!Numbers, DocumentParameters
  <2> QED BY <2>1, <2>2, <2>3 DEF Document!RequestState
<1>8. /\ request'[e] = q
      /\ \A f \in Sessions \ {e} : request'[f] = request[f]
      /\ request' \in [Sessions -> Document!RequestState]
  BY <1>5, <1>6, <1>7 DEF DInv, Document!TypeOK
<1>9. Document!TypeOK'
  BY <1>1, <1>8 DEF DInv, Document!TypeOK
<1>10. ASSUME NEW f \in Sessions PROVE DocumentRequestSound(f)'
  <2>1. CASE f = e
    BY <1>1, <1>4, <1>7, <1>8, <2>1 DEF DocumentRequestSound, DInv
  <2>2. CASE f # e
    <3>1. request[f].at # "insert"
      BY <1>2 DEF DInv, DocumentRequestSound, DocumentParameters
    <3> QED BY <1>8, <2>2, <3>1, SoundStays DEF DInv
  <2> QED BY <2>1, <2>2
<1>11. LockSound'
  <2>1. Document!Versions' = Document!Versions
    BY <1>1 DEF Document!Versions
  <2>2. Cardinality(Document!Versions) \in Nat
    BY Finite DEF Document!Versions
  <2>3. Cardinality(Document!Versions) < VersionLimit
    BY <1>1, <2>2, DocumentCounts DEF Document!LimitReached, DocumentParameters
  <2>4. lockedBy' = e /\ request'[e].at = "insert"
    BY <1>1, <1>7, <1>8
  <2>5. Cardinality(Document!Versions') < VersionLimit /\ Cardinality(Document!Versions') <= VersionLimit
    BY <2>1, <2>2, <2>3 DEF DocumentParameters
  <2> QED BY <2>4, <2>5 DEF LockSound
<1>12. DocumentInTurn'
  <2> SUFFICES ASSUME ~overlapped' PROVE DocumentInTurn'
    BY DEF DocumentInTurn
  <2>1. ~overlapped
    BY <1>1
  <2>2. (\A f, g \in Sessions : Pending(f) /\ Pending(g) => f = g)'
    <3>1. \A f \in Sessions : request'[f].at # "idle" => request[f].at # "idle"
      BY <1>1, <1>8
    <3> QED BY <2>1, <3>1 DEF DInv, DocumentInTurn, Pending
  <2>3. ASSUME NEW f \in Sessions PROVE RequestCurrent(f)'
    <3>1. CASE f = e
      BY <1>1, <1>7, <1>8, <2>1, <3>1 DEF RequestCurrent, DInv, DocumentInTurn
    <3>2. CASE f # e
      BY <1>1, <1>8, <2>1, <3>2, CurrentStays DEF DInv, DocumentInTurn
    <3> QED BY <3>1, <3>2
  <2>4. /\ (\A f \in Sessions : Remembered(editor[f].revision, editor[f].graph))'
        /\ (\A k \in Document!Versions : Remembered(version[k].source_revision, version[k].graph))'
        /\ (\A j, k \in Document!Versions : version[j].source_revision = version[k].source_revision
                                     => version[j].graph = version[k].graph)'
    BY <1>1, <2>1, RememberedStays DEF DInv, DocumentInTurn
  <2> QED BY <2>2, <2>3, <2>4 DEF DocumentInTurn
<1> QED BY <1>9, <1>10, <1>11, <1>12 DEF DInv

\* A request for a named version reads the row.
LEMMA StepCreate ==
  ASSUME DocumentParameters, DInv, NEW e \in Sessions, Document!CreateVersion(e)
  PROVE  DInv'
<1>1. PICK row : row = workflow
  OBVIOUS
<1> DEFINE q == [at |-> "lock", op |-> "version", loaded |-> row, wanted |-> None, number |-> 0]
<1>2. q \in Document!RequestState
  BY <1>1 DEF DInv, Document!TypeOK, Document!RequestState, DocumentParameters
<1>3. [Document!NoRequest EXCEPT !.at = "lock", !.op = "version", !.loaded = row] = q
  <2>1. PICK a, b : /\ a = [Document!NoRequest EXCEPT !.at = "lock"] /\ b = [a EXCEPT !.op = "version"]
    OBVIOUS
  <2>2. a = [at |-> "lock", op |-> "update", loaded |-> None, wanted |-> None, number |-> 0]
    BY <2>1 DEF Document!NoRequest
  <2>3. b = [at |-> "lock", op |-> "version", loaded |-> None, wanted |-> None, number |-> 0]
    <3>1. b = [a EXCEPT !.op = "version"]
      BY <2>1
    <3>2. [[at |-> "lock", op |-> "update", loaded |-> None, wanted |-> None, number |-> 0]
             EXCEPT !.op = "version"]
          = [at |-> "lock", op |-> "version", loaded |-> None, wanted |-> None, number |-> 0]
      OBVIOUS
    <3> QED BY <2>2, <3>1, <3>2
  <2>4. [b EXCEPT !.loaded = row] = q
    BY <2>3
  <2> QED BY <2>1, <2>4
<1>4. /\ q.at = "lock" /\ q.loaded = workflow
      /\ request' = [request EXCEPT ![e] = q] /\ overlapped' = Document!Overlap /\ Document!Free(e)
      /\ UNCHANGED <<workflow, version, editor, lockedBy>>
  BY <1>1, <1>3 DEF Document!CreateVersion
<1> HIDE DEF q
<1> QED BY <1>2, <1>4, Begun

\* The insert takes the place that was counted free, and releases the row.
LEMMA StepInsert ==
  ASSUME DocumentParameters, DInv, NEW e \in Sessions, Document!InsertVersion(e)
  PROVE  DInv'
<1>1. /\ request[e].at = "insert" /\ lockedBy' = None /\ request' = Document!Finished(e)
      /\ UNCHANGED <<workflow, editor, overlapped>>
  BY DEF Document!InsertVersion
<1>2. PICK n, row : n = request[e].number /\ row = [graph |-> request[e].loaded.graph,
                        source_revision |-> request[e].loaded.revision]
  OBVIOUS
<1>3. /\ lockedBy = e /\ n \in Document!Numbers /\ version[n] = None /\ request[e].loaded \in Document!Row
  BY <1>1, <1>2 DEF DInv, DocumentRequestSound
<1>4. row \in Document!VersionRow /\ row # None
  BY <1>2, <1>3 DEF Document!VersionRow, Document!Row, DocumentParameters
<1>5. /\ version'[n] = row /\ version' \in [Document!Numbers -> Document!VersionRow \cup {None}]
      /\ \A k \in Document!Numbers \ {n} : version'[k] = version[k]
  BY <1>2, <1>3, <1>4 DEF Document!InsertVersion, DInv, Document!TypeOK
<1>6. Document!Versions' = Document!Versions \cup {n} /\ n \notin Document!Versions
  BY <1>3, <1>4, <1>5 DEF Document!Versions
<1>7. /\ request'[e] = Document!NoRequest
      /\ \A f \in Sessions \ {e} : request'[f] = request[f]
      /\ request' \in [Sessions -> Document!RequestState]
  BY <1>1 DEF Document!Finished, DInv, Document!TypeOK, Document!NoRequest, Document!RequestState, DocumentParameters
<1>8. Document!TypeOK'
  BY <1>1, <1>5, <1>7 DEF DInv, Document!TypeOK
<1>9. ASSUME NEW f \in Sessions PROVE DocumentRequestSound(f)'
  <2>1. CASE f = e
    BY <1>7, <2>1 DEF DocumentRequestSound, Document!NoRequest
  <2>2. CASE f # e
    <3>1. request[f].at # "insert"
      BY <1>3, <2>2 DEF DInv, DocumentRequestSound
    <3> QED BY <1>7, <2>2, <3>1, SoundStays DEF DInv
  <2> QED BY <2>1, <2>2
<1>10. LockSound'
  <2>1. IsFiniteSet(Document!Versions) /\ Cardinality(Document!Versions) \in Nat
    BY Finite DEF Document!Versions
  <2>2. Cardinality(Document!Versions') = Cardinality(Document!Versions) + 1
    BY <1>6, <2>1, FS_AddElement
  <2>3. Cardinality(Document!Versions) < VersionLimit
    BY <1>3 DEF DInv, LockSound, DocumentParameters
  <2>4. Cardinality(Document!Versions') <= VersionLimit
    BY <2>1, <2>2, <2>3 DEF DocumentParameters
  <2> QED BY <1>1, <2>4 DEF LockSound
<1>11. DocumentInTurn'
  <2> SUFFICES ASSUME ~overlapped' PROVE DocumentInTurn'
    BY DEF DocumentInTurn
  <2>1. ~overlapped
    BY <1>1
  <2>2. (\A f, g \in Sessions : Pending(f) /\ Pending(g) => f = g)'
    BY <1>7, <2>1 DEF DInv, DocumentInTurn, Pending, Document!NoRequest
  <2>3. ASSUME NEW f \in Sessions PROVE RequestCurrent(f)'
    <3>1. CASE f = e
      BY <1>7, <3>1 DEF RequestCurrent, Document!NoRequest
    <3>2. CASE f # e
      BY <1>1, <1>7, <2>1, <3>2, CurrentStays DEF DInv, DocumentInTurn
    <3> QED BY <3>1, <3>2
  <2>4. (\A f \in Sessions : Remembered(editor[f].revision, editor[f].graph))'
    BY <1>1, <2>1 DEF DInv, DocumentInTurn, Remembered
  <2>5. row.source_revision = workflow.revision /\ row.graph = workflow.graph
    BY <1>1, <1>2, <2>1 DEF DInv, DocumentInTurn, RequestCurrent
  <2>6. workflow.revision \in Nat
    BY DEF DInv, Document!TypeOK, Document!Row, DocumentParameters
  <2>7. ASSUME NEW k \in Document!Versions'
        PROVE  Remembered(version'[k].source_revision, version'[k].graph)
    <3>1. CASE k = n
      BY <1>5, <2>5, <2>6, <3>1 DEF Remembered
    <3>2. CASE k # n
      <4>1. k \in Document!Versions /\ version'[k] = version[k]
        BY <1>5, <1>6, <2>7, <3>2 DEF Document!Versions
      <4> QED BY <2>1, <4>1 DEF DInv, DocumentInTurn
    <3> QED BY <3>1, <3>2
  <2>8. (\A k \in Document!Versions : Remembered(version[k].source_revision, version[k].graph))'
    BY <1>1, <2>7 DEF Remembered
  <2>9. ASSUME NEW j \in Document!Versions', NEW k \in Document!Versions',
               version'[j].source_revision = version'[k].source_revision
        PROVE  version'[j].graph = version'[k].graph
    <3>1. CASE j = n \/ k = n
      BY <1>5, <2>5, <2>7, <2>9, <3>1 DEF Remembered
    <3>2. CASE j # n /\ k # n
      <4>1. /\ j \in Document!Versions /\ version'[j] = version[j]
            /\ k \in Document!Versions /\ version'[k] = version[k]
        BY <1>5, <1>6, <2>9, <3>2 DEF Document!Versions
      <4> QED BY <2>1, <2>9, <4>1 DEF DInv, DocumentInTurn
    <3> QED BY <3>1, <3>2
  <2> QED BY <2>2, <2>3, <2>4, <2>8, <2>9 DEF DocumentInTurn
<1> QED BY <1>8, <1>9, <1>10, <1>11 DEF DInv

\* Deleting frees a number; one that is about to be inserted is not there yet.
LEMMA StepDelete ==
  ASSUME DocumentParameters, DInv, NEW e \in Sessions, NEW k \in Document!Numbers, Document!DeleteVersion(e, k)
  PROVE  DInv'
<1>1. /\ version[k] # None /\ version' = [version EXCEPT ![k] = None]
      /\ UNCHANGED <<workflow, editor, request, lockedBy, overlapped>>
  BY DEF Document!DeleteVersion, Document!Versions
<1>2. /\ version'[k] = None /\ version' \in [Document!Numbers -> Document!VersionRow \cup {None}]
      /\ \A j \in Document!Numbers \ {k} : version'[j] = version[j]
  BY <1>1 DEF DInv, Document!TypeOK
<1>3. Document!TypeOK'
  BY <1>1, <1>2 DEF DInv, Document!TypeOK
<1>4. ASSUME NEW f \in Sessions PROVE DocumentRequestSound(f)'
  <2>1. request[f].at = "insert" => request[f].number \in Document!Numbers \ {k}
    BY <1>1 DEF DInv, DocumentRequestSound
  <2> QED BY <1>1, <1>2, <2>1, SoundStays DEF DInv
<1>5. /\ Document!Versions' \subseteq Document!Versions
      /\ \A j \in Document!Versions' : version'[j] = version[j]
  BY <1>2 DEF Document!Versions
<1>6. LockSound'
  <2>1. IsFiniteSet(Document!Versions) /\ Cardinality(Document!Versions) \in Nat
    BY Finite DEF Document!Versions
  <2>2. Cardinality(Document!Versions') <= Cardinality(Document!Versions) /\ Cardinality(Document!Versions') \in Nat
    <3>1. Document!Versions' \in SUBSET Document!Numbers
      BY DEF Document!Versions
    <3>2. Cardinality(Document!Versions') \in Nat
      BY <3>1, Finite
    <3> QED BY <1>5, <2>1, <3>2, FS_Subset
  <2> QED BY <1>1, <2>1, <2>2 DEF DInv, LockSound, DocumentParameters
<1>7. DocumentInTurn'
  <2> SUFFICES ASSUME ~overlapped' PROVE DocumentInTurn'
    BY DEF DocumentInTurn
  <2>1. ~overlapped
    BY <1>1
  <2>2. (\A f, g \in Sessions : Pending(f) /\ Pending(g) => f = g)'
    BY <1>1, <2>1 DEF DInv, DocumentInTurn, Pending
  <2>3. (\A f \in Sessions : RequestCurrent(f))'
    BY <1>1, <2>1, CurrentStays DEF DInv, DocumentInTurn
  <2>4. (\A f \in Sessions : Remembered(editor[f].revision, editor[f].graph))'
    BY <1>1, <2>1 DEF DInv, DocumentInTurn, Remembered
  <2>5. (\A j \in Document!Versions : Remembered(version[j].source_revision, version[j].graph))'
    BY <1>1, <1>5, <2>1 DEF DInv, DocumentInTurn, Remembered
  <2>6. (\A i, j \in Document!Versions : version[i].source_revision = version[j].source_revision
                                  => version[i].graph = version[j].graph)'
    BY <1>5, <2>1 DEF DInv, DocumentInTurn
  <2> QED BY <2>2, <2>3, <2>4, <2>5, <2>6 DEF DocumentInTurn
<1> QED BY <1>3, <1>4, <1>6, <1>7 DEF DInv
-----------------------------------------------------------------------------
(* The invariant holds at first, and every step keeps it.                  *)

\* A workflow is created without versions, and its editors have seen it.
LEMMA InitInv ==
  ASSUME DocumentParameters, Document!Init
  PROVE  DInv
<1>1. PICK g \in Graphs, n \in VersionNames :
        /\ workflow = Document!Created(g, n)
        /\ version = [k \in Document!Numbers |-> None]
        /\ editor = [e \in Sessions |-> Document!Created(g, n)]
        /\ request = [e \in Sessions |-> Document!NoRequest]
        /\ lockedBy = None /\ overlapped = FALSE
  BY DEF Document!Init
<1>2. Document!Created(g, n) \in Document!Row /\ Document!Created(g, n).revision \in Nat
  BY DEF Document!Created, Document!Row, DocumentParameters
<1>3. Document!NoRequest \in Document!RequestState
  BY DEF Document!NoRequest, Document!RequestState, DocumentParameters
<1>4. Document!TypeOK
  BY <1>1, <1>2, <1>3 DEF Document!TypeOK
<1>5. Document!Versions = {}
  BY <1>1 DEF Document!Versions
<1>6. \A e \in Sessions : request[e].at = "idle"
  BY <1>1 DEF Document!NoRequest
<1>7. \A e \in Sessions : DocumentRequestSound(e)
  BY <1>6 DEF DocumentRequestSound
<1>8. LockSound
  BY <1>1, <1>5, FS_EmptySet DEF LockSound, DocumentParameters
<1>9. DocumentInTurn
  <2>1. \A e \in Sessions : RequestCurrent(e)
    BY <1>6 DEF RequestCurrent
  <2>2. \A e \in Sessions : Remembered(editor[e].revision, editor[e].graph)
    BY <1>1, <1>2 DEF Remembered
  <2> QED BY <1>5, <1>6, <2>1, <2>2 DEF DocumentInTurn, Pending
<1> QED BY <1>4, <1>7, <1>8, <1>9 DEF DInv

\* A step that changes nothing.
LEMMA Stutter ==
  ASSUME DInv, UNCHANGED Document!vars
  PROVE  DInv'
<1>1. Document!Versions' = Document!Versions
  BY DEF Document!Versions, Document!vars
<1>2. Document!TypeOK' /\ LockSound'
  BY <1>1 DEF DInv, Document!TypeOK, LockSound, Document!vars
<1>3. \A e \in Sessions : DocumentRequestSound(e)'
  BY DEF DInv, DocumentRequestSound, Document!vars
<1>4. DocumentInTurn'
  BY <1>1 DEF DInv, DocumentInTurn, Pending, RequestCurrent, Remembered, Document!vars
<1> QED BY <1>2, <1>3, <1>4 DEF DInv

\* Every step of every session.
LEMMA StepInv ==
  ASSUME DocumentParameters, DInv, [Document!Next]_(Document!vars)
  PROVE  DInv'
<1>1. CASE UNCHANGED Document!vars
  BY <1>1, Stutter
<1>2. CASE Document!Next
  <2>1. PICK e \in Sessions :
          \/ Document!Open(e) \/ Document!Commit(e) \/ Document!Reply(e)
          \/ Document!CreateVersion(e) \/ Document!NumberVersion(e) \/ Document!RefuseVersion(e) \/ Document!InsertVersion(e)
          \/ \E g \in Graphs, n \in VersionNames : Document!Autosave(e, g, n) \/ Document!Update(e, g, n)
          \/ \E g \in Graphs : Document!AssistantEdit(e, g)
          \/ \E n \in VersionNames : Document!Rename(e, n)
          \/ \E k \in Document!Numbers : Document!Restore(e, k) \/ Document!DeleteVersion(e, k)
    BY <1>2 DEF Document!Next
  <2>2. CASE Document!Open(e) \/ Document!Commit(e) \/ Document!Reply(e)
    BY <2>2, StepOpen, StepCommit, StepReply
  <2>3. CASE Document!CreateVersion(e)
    BY <2>3, StepCreate
  <2>4. CASE Document!NumberVersion(e) \/ Document!RefuseVersion(e) \/ Document!InsertVersion(e)
    BY <2>4, StepNumber, StepRefuse, StepInsert
  <2>5. CASE \E g \in Graphs, n \in VersionNames : Document!Autosave(e, g, n) \/ Document!Update(e, g, n)
    BY <2>5, StepAutosave, StepReplace
  <2>6. CASE \E g \in Graphs : Document!AssistantEdit(e, g)
    <3>1. workflow.name \in VersionNames
      BY DEF DInv, Document!TypeOK, Document!Row
    <3> QED BY <2>6, <3>1, StepReplace
  <2>7. CASE \E n \in VersionNames : Document!Rename(e, n)
    <3>1. workflow.graph \in Graphs
      BY DEF DInv, Document!TypeOK, Document!Row
    <3> QED BY <2>7, <3>1, StepReplace
  <2>8. CASE \E k \in Document!Numbers : Document!Restore(e, k) \/ Document!DeleteVersion(e, k)
    BY <2>8, StepRestore, StepDelete
  <2> QED BY <2>1, <2>2, <2>3, <2>4, <2>5, <2>6, <2>7, <2>8
<1> QED BY <1>1, <1>2

-----------------------------------------------------------------------------
(* What holds of every behaviour.                                          *)

\* The inductive invariant is one.
THEOREM DocumentInvariance ==
  ASSUME DocumentParameters
  PROVE  Document!Spec => []DInv
<1>1. Document!Init => DInv
  BY InitInv
<1>2. DInv /\ [Document!Next]_(Document!vars) => DInv'
  BY StepInv
<1> QED BY <1>1, <1>2, PTL DEF Document!Spec

\* The tables and the handlers in flight keep their types.
THEOREM DocumentTypes ==
  ASSUME DocumentParameters
  PROVE  Document!Spec => []Document!TypeOK
<1>1. DInv => Document!TypeOK
  BY DEF DInv
<1> QED BY <1>1, DocumentInvariance, PTL

\* create_version: no number is given twice, and no insert meets a number that
\* is taken, whatever other sessions create, delete and restore meanwhile.
THEOREM NumbersAreFree ==
  ASSUME DocumentParameters
  PROVE  Document!Spec => []Document!NumberIsFree
<1>1. DInv => Document!NumberIsFree
  BY DEF DInv, DocumentRequestSound, Document!NumberIsFree
<1> QED BY <1>1, DocumentInvariance, PTL

\* create_version: requests that count the versions together do not exceed
\* workflow_version_limit.
THEOREM LimitIsKept ==
  ASSUME DocumentParameters
  PROVE  Document!Spec => []Document!WithinVersionLimit
<1>1. DInv => Document!WithinVersionLimit
  BY DocumentCounts DEF DInv, LockSound, Document!WithinVersionLimit
<1> QED BY <1>1, DocumentInvariance, PTL

\* Until two writing requests overlap, a revision number names one content.
THEOREM RevisionsNameGraphs ==
  ASSUME DocumentParameters
  PROVE  Document!Spec => []Document!RevisionNamesGraph
<1>1. DInv => Document!RevisionNamesGraph
  BY DEF DInv, DocumentInTurn, Remembered, Document!RevisionNamesGraph
<1> QED BY <1>1, DocumentInvariance, PTL

\* What the run of the platform checks of the document, together.
THEOREM DocumentIsKept ==
  ASSUME DocumentParameters
  PROVE  Document!Spec => []Document!DocumentHolds
<1>1. Document!TypeOK /\ Document!NumberIsFree /\ Document!WithinVersionLimit /\ Document!RevisionNamesGraph => Document!DocumentHolds
  BY DEF Document!DocumentHolds
<1> QED BY <1>1, DocumentTypes, NumbersAreFree, LimitIsKept, RevisionsNameGraphs, PTL

\* autosave_workflow: as long as requests are handled one after the other, an
\* autosave that replaces the graph replaces what its editor has last seen.
THEOREM OverwriteIsSeen ==
  ASSUME DocumentParameters
  PROVE  Document!Spec => [][Document!OverwritesWhatWasSeen]_(Document!vars)
<1>1. ASSUME DInv, [Document!Next]_(Document!vars)
      PROVE  [Document!OverwritesWhatWasSeen]_(Document!vars)
  <2> SUFFICES ASSUME Document!Next, NEW e \in Sessions, ~overlapped, Document!AutosaveCommits(e),
                      workflow'.graph # workflow.graph
               PROVE  workflow.graph = editor[e].graph
    BY <1>1 DEF Document!OverwritesWhatWasSeen, Document!vars
  <2>1. PICK f \in Sessions : Document!Commit(f)
    BY DEF Document!Next, Document!Open, Document!Reply, Document!CreateVersion, Document!NumberVersion, Document!RefuseVersion, Document!InsertVersion,
           Document!Autosave, Document!Update, Document!AssistantEdit, Document!Rename, Document!Restore, Document!DeleteVersion, Document!Prepare
  <2>2. request[f].at = "write" /\ request[e].at = "write"
    BY <2>1 DEF Document!Commit, Document!AutosaveCommits
  <2>3. f = e
    BY <1>1, <2>2 DEF DInv, DocumentInTurn, Pending
  <2>4. PICK row, loaded, wanted :
          row = workflow /\ loaded = request[e].loaded /\ wanted = request[e].wanted
    OBVIOUS
  <2>5. row \in Document!Row /\ loaded \in Document!Row /\ wanted \in Document!Row
    BY <1>1, <2>2, <2>4 DEF DInv, Document!TypeOK, DocumentRequestSound
  <2>6. workflow' = [c \in DOMAIN row |-> Document!Written(loaded[c], wanted[c], row[c])]
    BY <2>1, <2>3, <2>4 DEF Document!Commit
  <2>7. workflow'.graph = Document!Written(loaded.graph, wanted.graph, row.graph)
    BY <2>5, <2>6, DocumentColumns
  <2>8. request[e].op = "autosave"
    BY DEF Document!AutosaveCommits
  <2>9. \/ wanted.graph = workflow.graph
        \/ editor[e].graph = workflow.graph
    BY <1>1, <2>2, <2>4, <2>8 DEF DInv, DocumentInTurn, RequestCurrent
  <2> QED BY <2>4, <2>7, <2>9 DEF Document!Written
<1> QED BY <1>1, DocumentInvariance, PTL DEF Document!Spec

-----------------------------------------------------------------------------
(* Cases and their reviewers, for every setting *)

\* What every theorem assumes of the constants.
CaseParameters(cfg) == /\ None \notin cfg.answers
                       /\ {cfg.launches, cfg.retries, cfg.outages} \subseteq Nat

-----------------------------------------------------------------------------
(* The inductive invariant.                                                *)

FormOf(q)     == submit[q].task
RunOf(q)    == task[FormOf(q)].run
Storing(q)  == submit[q].at = "flushed"
Complete(t) == task[t].status = "completed"

\* A run is created under a number that has been counted.
LaunchSound(cfg, l) == launch[l].at \in {"counted", "created"} => launch[l].number \in Case(cfg)!Attempts

\* Task and answer are written together, for a task that an intake run made.
TaskSound(t) ==
  /\ task[t].response = submission[t]
  /\ Complete(t) <=> submission[t] # None
  /\ task[t].run = 0 => submission[t] = None
  /\ task[t].run # 0 => run["intake"][task[t].run] # "absent"

\* A submission that has written its task is the only one that may, and one
\* that is to queue the scoring run finds none.
SubmitSound(cfg, q) ==
  /\ submit[q].at # "idle" => /\ FormOf(q) \in Case(cfg)!Tasks /\ submit[q].answers \in cfg.answers
                              /\ RunOf(q) # 0
  /\ Storing(q) => /\ submission[FormOf(q)] = None
                   /\ submit[q].ready => run["scoring"][RunOf(q)] = "absent"

SubmitsApart ==
  \A p, q \in Sessions : p # q /\ Storing(p) /\ Storing(q) =>
    /\ FormOf(p) # FormOf(q)
    /\ submit[p].ready /\ submit[q].ready => RunOf(p) # RunOf(q)

\* The run of an open finalizer is left to it; the tasks it is to create do
\* not exist, and are for assignees who have none of this run.
FinalizerSound(cfg, s, k) ==
  LET f == finalizer[s][k] IN
  /\ f.open => run[s][k] = "running"
  /\ f.created # {} => f.open /\ s = "intake" /\ f.outcome = "succeeded"
  /\ \A t \in f.created : /\ task[t].run = 0 /\ t[1] \in assignees[k]
                          /\ \A u \in Case(cfg)!TasksOf(k) \cup f.created : u[1] = t[1] => u = t

CreatedApart(cfg) ==
  \A j, k \in Case(cfg)!Attempts : \A t \in finalizer["intake"][j].created :
    t \in finalizer["intake"][k].created => j = k

\* As long as no run is executed twice: the tasks of an intake run are all
\* there once there is one, so whoever found all answered is right for good.
Once(cfg, k) ==
  retries + outages = 0 =>
    /\ Case(cfg)!TasksOf(k) # {} => run["intake"][k] = "succeeded"
    /\ run["scoring"][k] # "absent" => Case(cfg)!AllAnswered(k)
    /\ \A q \in Sessions : Storing(q) /\ RunOf(q) = k /\ submit[q].ready =>
         \A t \in Case(cfg)!TasksOf(k) \ {FormOf(q)} : Complete(t)

\* As long as its answers are stored in turn: whoever is not to queue the
\* scoring run of an intake run still has another answer to wait for.
CaseInTurn(cfg, k) ==
  k \notin overlapped =>
    /\ \A p, q \in Sessions :
         Storing(p) /\ RunOf(p) = k /\ Storing(q) /\ RunOf(q) = k => p = q
    /\ \A q \in Sessions : Storing(q) /\ RunOf(q) = k /\ ~submit[q].ready =>
         \/ run["scoring"][k] # "absent"
         \/ \E t \in Case(cfg)!TasksOf(k) \ {FormOf(q)} : ~Complete(t)
    /\ Case(cfg)!AllAnswered(k) => run["scoring"][k] # "absent"

HandlersSound(cfg) == /\ \A q \in Sessions : SubmitSound(cfg, q)
                      /\ SubmitsApart
                      /\ \A s \in Case(cfg)!Stages, k \in Case(cfg)!Attempts : FinalizerSound(cfg, s, k)
                      /\ CreatedApart(cfg)

CaseRowsSound(cfg) == /\ \A t \in Case(cfg)!Tasks : TaskSound(t)
                      /\ Case(cfg)!OneTaskPerReviewer
                      /\ \A k \in Case(cfg)!Attempts : Once(cfg, k) /\ CaseInTurn(cfg, k)

CInv(cfg) == /\ Case(cfg)!TypeOK
             /\ \A l \in cfg.launchers : LaunchSound(cfg, l)
             /\ HandlersSound(cfg)
             /\ CaseRowsSound(cfg)

-----------------------------------------------------------------------------
(* Types.                                                                  *)

\* What a handler loaded, wants and writes is a row of the table.
LEMMA Flushed ==
  ASSUME NEW cfg, case \in Case(cfg)!CaseRow, NEW loaded \in Case(cfg)!CaseRow, NEW wanted \in Case(cfg)!CaseRow
  PROVE  Case(cfg)!Flush(loaded, wanted) \in Case(cfg)!CaseRow
BY DEF Case!Flush, Case!Written, Case!CaseRow

\* The records in reach of the handlers.
LEMMA CaseShapes ==
  ASSUME NEW cfg, Case(cfg)!TypeOK
  PROVE  /\ case \in Case(cfg)!CaseRow
         /\ \A l \in cfg.launchers : launch[l] \in Case(cfg)!LaunchState /\ launch[l].loaded \in Case(cfg)!CaseRow
         /\ \A q \in Sessions : submit[q] \in Case(cfg)!SubmitState /\ submit[q].loaded \in Case(cfg)!CaseRow
         /\ \A t \in Case(cfg)!Tasks : task[t] \in Case(cfg)!TaskRow
         /\ \A s \in Case(cfg)!Stages, k \in Case(cfg)!Attempts :
              /\ finalizer[s][k] \in Case(cfg)!FinalizerState
              /\ finalizer[s][k].loaded \in Case(cfg)!CaseRow /\ finalizer[s][k].wanted \in Case(cfg)!CaseRow
              /\ finalizer[s][k].created \subseteq Case(cfg)!Tasks
BY DEF Case!TypeOK, Case!LaunchState, Case!SubmitState, Case!FinalizerState

\* The intake runs can be counted.
LEMMA Counted ==
  ASSUME NEW cfg, CaseParameters(cfg)
  PROVE  Case(cfg)!IntakeCount \in Nat
<1> DEFINE S == {k \in Case(cfg)!Attempts : run["intake"][k] # "absent"}
<1>1. IsFiniteSet(Case(cfg)!Attempts)
  BY FS_Interval DEF CaseParameters, Case!Attempts
<1>2. IsFiniteSet(S)
  BY <1>1, FS_Subset
<1>3. Case(cfg)!Cardinality(S) = Cardinality(S)
  BY DEF Case!Cardinality, Cardinality
<1> QED BY <1>2, <1>3, FS_CardinalityType DEF Case!IntakeCount

\* The empty records are of their types.
LEMMA NoneTyped ==
  ASSUME NEW cfg, CaseParameters(cfg)
  PROVE  /\ Case(cfg)!NewCase \in Case(cfg)!CaseRow /\ Case(cfg)!NoLaunch \in Case(cfg)!LaunchState /\ Case(cfg)!NoSubmit \in Case(cfg)!SubmitState
         /\ Case(cfg)!NoFinalizer \in Case(cfg)!FinalizerState /\ Case(cfg)!NoTask \in Case(cfg)!TaskRow
<1>1. Case(cfg)!NewCase \in Case(cfg)!CaseRow
  BY DEF Case!NewCase, Case!CaseRow, Case!CaseStatuses
<1> QED BY <1>1 DEF Case!NoLaunch, Case!NoSubmit, Case!NoFinalizer, Case!NoTask, Case!LaunchState, Case!SubmitState,
                    Case!FinalizerState, Case!TaskRow, CaseParameters

\* A launch writes rows of the tables, under a number it has counted.
LEMMA LaunchTyped ==
  ASSUME NEW cfg, CaseParameters(cfg), CInv(cfg), NEW l \in cfg.launchers,
         \/ Case(cfg)!LaunchRead(l) \/ Case(cfg)!LaunchCount(l) \/ Case(cfg)!LaunchCreate(l)
         \/ Case(cfg)!LaunchSync(l) \/ Case(cfg)!LaunchRefused(l) \/ Case(cfg)!LaunchDies(l)
  PROVE  Case(cfg)!TypeOK' /\ \A m \in cfg.launchers : LaunchSound(cfg, m)'
<1> USE DEF CInv
<1>1. /\ Case(cfg)!TypeOK /\ case \in Case(cfg)!CaseRow /\ launch[l] \in Case(cfg)!LaunchState /\ launch[l].loaded \in Case(cfg)!CaseRow
      /\ Case(cfg)!NoLaunch \in Case(cfg)!LaunchState /\ \A m \in cfg.launchers : LaunchSound(cfg, m)
  BY CaseShapes, NoneTyped
<1>2. ASSUME NEW new \in Case(cfg)!LaunchState, launch' = [launch EXCEPT ![l] = new],
             new.at \in {"counted", "created"} => new.number \in Case(cfg)!Attempts
      PROVE  launch' \in [cfg.launchers -> Case(cfg)!LaunchState] /\ \A m \in cfg.launchers : LaunchSound(cfg, m)'
  <2>1. launch'[l] = new /\ \A m \in cfg.launchers \ {l} : launch'[m] = launch[m]
    BY <1>1, <1>2 DEF Case!TypeOK
  <2> QED BY <1>1, <1>2, <2>1 DEF Case!TypeOK, LaunchSound
<1>3. Case(cfg)!NoLaunch.at = "idle"
  BY DEF Case!NoLaunch
<1>4. CASE Case(cfg)!LaunchRead(l)
  <2> DEFINE new == [Case(cfg)!NoLaunch EXCEPT !.at = "read", !.loaded = case]
  <2>1. new \in Case(cfg)!LaunchState /\ new.at = "read"
    BY <1>1 DEF Case!LaunchState
  <2>2. launch' = [launch EXCEPT ![l] = new]
    BY <1>4 DEF Case!LaunchRead
  <2> HIDE DEF new
  <2> QED BY <1>1, <1>2, <1>4, <2>1, <2>2 DEF Case!LaunchRead, Case!TypeOK, Case!boundVars
<1>5. CASE Case(cfg)!LaunchCount(l)
  <2> DEFINE new == [launch[l] EXCEPT !.at = "counted", !.number = Case(cfg)!IntakeCount + 1]
  <2>1. Case(cfg)!IntakeCount + 1 \in Case(cfg)!Attempts
    BY <1>5, Counted DEF Case!LaunchCount, Case!Attempts, CaseParameters
  <2>2. new \in Case(cfg)!LaunchState /\ new.number \in Case(cfg)!Attempts
    <3>1. PICK n \in Case(cfg)!Attempts : n = Case(cfg)!IntakeCount + 1
      BY <2>1
    <3> DEFINE at == [launch[l] EXCEPT !.at = "counted"]
    <3>2. at \in Case(cfg)!LaunchState
      BY <1>1 DEF Case!LaunchState
    <3> HIDE DEF at
    <3>3. n \in 0..cfg.launches
      BY DEF Case!Attempts, CaseParameters
    <3>4. [at EXCEPT !.number = n] \in Case(cfg)!LaunchState /\ [at EXCEPT !.number = n].number = n
      BY <3>2, <3>3 DEF Case!LaunchState
    <3> QED BY <3>1, <3>4 DEF at
  <2>3. launch' = [launch EXCEPT ![l] = new]
    BY <1>1, <1>5 DEF Case!LaunchCount, Case!TypeOK
  <2> HIDE DEF new
  <2> QED BY <1>1, <1>2, <1>5, <2>2, <2>3 DEF Case!LaunchCount, Case!TypeOK, Case!boundVars
<1>6. CASE Case(cfg)!LaunchCreate(l)
  <2> DEFINE new == [launch[l] EXCEPT !.at = "created"]
  <2>1. new \in Case(cfg)!LaunchState /\ new.number = launch[l].number /\ launch[l].number \in Case(cfg)!Attempts
    BY <1>1, <1>6 DEF Case!LaunchState, LaunchSound, Case!LaunchCreate
  <2>2. launch' = [launch EXCEPT ![l] = new]
    BY <1>1, <1>6 DEF Case!LaunchCreate, Case!TypeOK
  <2>3. run' \in [Case(cfg)!Stages -> [Case(cfg)!Attempts -> Case(cfg)!RunStatuses]] /\ assignees' \in [Case(cfg)!Attempts -> SUBSET cfg.reviewers]
    BY <1>1, <1>6, <2>1 DEF Case!LaunchCreate, Case!TypeOK, Case!RunStatuses, Case!Stages
  <2> HIDE DEF new
  <2> QED BY <1>1, <1>2, <1>6, <2>1, <2>2, <2>3 DEF Case!LaunchCreate, Case!TypeOK, Case!boundVars
<1>7. CASE Case(cfg)!LaunchSync(l)
  <2> DEFINE wanted == [launch[l].loaded EXCEPT !.status = "queued",
                                                !.latest = <<"intake", launch[l].number>>]
  <2>1. launch[l].number \in Case(cfg)!Attempts
    BY <1>1, <1>7 DEF Case!LaunchSync, LaunchSound
  <2>2. wanted \in Case(cfg)!CaseRow
    BY <1>1, <2>1 DEF Case!CaseRow, Case!CaseStatuses, Case!RunIds, Case!Stages
  <2>3. case' \in Case(cfg)!CaseRow
    BY <1>1, <1>7, <2>2, Flushed DEF Case!LaunchSync
  <2> QED BY <1>1, <1>2, <1>3, <1>7, <2>3 DEF Case!LaunchSync, Case!TypeOK, Case!boundVars
<1>8. CASE Case(cfg)!LaunchRefused(l)
  BY <1>1, <1>2, <1>3, <1>8 DEF Case!LaunchRefused, Case!TypeOK, Case!boundVars
<1>9. CASE Case(cfg)!LaunchDies(l)
  <2>1. outages' \in 0..cfg.outages
    BY <1>1, <1>9 DEF Case!LaunchDies, Case!TypeOK, CaseParameters
  <2> QED BY <1>1, <1>2, <1>3, <1>9, <2>1 DEF Case!LaunchDies, Case!TypeOK
<1> QED BY <1>4, <1>5, <1>6, <1>7, <1>8, <1>9

\* What the queue does to a run of the case keeps the types.
LEMMA QueueTyped ==
  ASSUME NEW cfg, CaseParameters(cfg), Case(cfg)!TypeOK, NEW s \in Case(cfg)!Stages, NEW k \in Case(cfg)!Attempts,
         Case(cfg)!RunStarts(s, k) \/ Case(cfg)!RetryRun(s, k) \/ Case(cfg)!RunLost(s, k)
  PROVE  Case(cfg)!TypeOK'
<1>1. run' \in [Case(cfg)!Stages -> [Case(cfg)!Attempts -> Case(cfg)!RunStatuses]]
  <2>1. PICK new \in Case(cfg)!RunStatuses : run' = [run EXCEPT ![s][k] = new]
    BY DEF Case!RunStarts, Case!RetryRun, Case!RunLost, Case!RunStatuses
  <2> QED BY <2>1 DEF Case!TypeOK
<1>2. retries' \in 0..cfg.retries /\ outages' \in 0..cfg.outages
  BY DEF Case!RunStarts, Case!RetryRun, Case!RunLost, Case!TypeOK, CaseParameters, Case!boundVars
<1> QED BY <1>1, <1>2
        DEF Case!RunStarts, Case!RetryRun, Case!RunLost, Case!TypeOK, Case!requestVars, Case!boundVars

\* What an open finalizer means to write is typed.
LEMMA OpenTyped ==
  ASSUME NEW cfg, CaseParameters(cfg), Case(cfg)!TypeOK, NEW s \in Case(cfg)!Stages, NEW k \in Case(cfg)!Attempts,
         Case(cfg)!FinalizeSuccess(s, k) \/ Case(cfg)!FinalizeFailure(s, k)
  PROVE  Case(cfg)!TypeOK'
<1>1. /\ case \in Case(cfg)!CaseRow /\ case.scores \in BOOLEAN /\ <<s, k>> \in Case(cfg)!RunIds
  BY CaseShapes DEF Case!CaseRow, Case!RunIds
<1>2. ASSUME NEW f \in Case(cfg)!FinalizerState, finalizer' = [finalizer EXCEPT ![s][k] = f]
      PROVE  finalizer' \in [Case(cfg)!Stages -> [Case(cfg)!Attempts -> Case(cfg)!FinalizerState]]
  BY <1>2 DEF Case!TypeOK
<1>3. CASE Case(cfg)!FinalizeSuccess(s, k)
  <2>1. PICK c \in cfg.contexts, created \in SUBSET Case(cfg)!Tasks :
          finalizer' = [finalizer EXCEPT ![s][k] =
            [open |-> TRUE, outcome |-> "succeeded", created |-> created, loaded |-> case,
             wanted |-> Case(cfg)!Succeeded(case, s, k, created \cup Case(cfg)!TasksOf(k) # {})]]
    <3>1. PICK c \in cfg.contexts :
            LET created == IF s = "intake" THEN Case(cfg)!NewAssignments(k, c) ELSE {} IN
            finalizer' = [finalizer EXCEPT ![s][k] =
              [open |-> TRUE, outcome |-> "succeeded", created |-> created, loaded |-> case,
               wanted |-> Case(cfg)!Succeeded(case, s, k, created \cup Case(cfg)!TasksOf(k) # {})]]
      BY <1>3 DEF Case!FinalizeSuccess
    <3>2. Case(cfg)!NewAssignments(k, c) \in SUBSET Case(cfg)!Tasks
      BY DEF Case!NewAssignments, Case!Tasks, Case!TypeOK
    <3> QED BY <3>1, <3>2
  <2> DEFINE wanted == Case(cfg)!Succeeded(case, s, k, created \cup Case(cfg)!TasksOf(k) # {})
  <2>2. wanted \in Case(cfg)!CaseRow
    BY <1>1 DEF Case!Succeeded, Case!CaseRow, Case!CaseStatuses
  <2> HIDE DEF wanted
  <2>3. [open |-> TRUE, outcome |-> "succeeded", created |-> created, loaded |-> case,
         wanted |-> wanted] \in Case(cfg)!FinalizerState
    BY <1>1, <2>2 DEF Case!FinalizerState
  <2> QED BY <1>2, <1>3, <2>1, <2>3 DEF wanted, Case!FinalizeSuccess, Case!TypeOK, Case!requestVars, Case!boundVars
<1>4. CASE Case(cfg)!FinalizeFailure(s, k)
  <2>1. PICK outcome \in {"queued", "failed"} :
          finalizer' = [finalizer EXCEPT ![s][k] =
            [open |-> TRUE, outcome |-> outcome, created |-> {}, loaded |-> case,
             wanted |-> Case(cfg)!Ended(case, s, k, outcome)]]
    BY <1>4 DEF Case!FinalizeFailure
  <2>2. Case(cfg)!Ended(case, s, k, outcome) \in Case(cfg)!CaseRow
    BY <1>1 DEF Case!Ended, Case!CaseRow, Case!CaseStatuses
  <2>3. [open |-> TRUE, outcome |-> outcome, created |-> {}, loaded |-> case,
         wanted |-> Case(cfg)!Ended(case, s, k, outcome)] \in Case(cfg)!FinalizerState
    BY <1>1, <2>2 DEF Case!FinalizerState
  <2> QED BY <1>2, <1>4, <2>1, <2>3 DEF Case!FinalizeFailure, Case!TypeOK, Case!requestVars, Case!boundVars
<1> QED BY <1>3, <1>4

\* So is what it writes.
LEMMA CommitTyped ==
  ASSUME NEW cfg, CaseParameters(cfg), Case(cfg)!TypeOK, NEW s \in Case(cfg)!Stages, NEW k \in Case(cfg)!Attempts, Case(cfg)!FinalizeCommit(s, k)
  PROVE  Case(cfg)!TypeOK'
<1> DEFINE f == finalizer[s][k]
<1>1. /\ f \in Case(cfg)!FinalizerState /\ f.loaded \in Case(cfg)!CaseRow /\ f.wanted \in Case(cfg)!CaseRow /\ case \in Case(cfg)!CaseRow
      /\ Case(cfg)!NoTask \in Case(cfg)!TaskRow /\ Case(cfg)!NoFinalizer \in Case(cfg)!FinalizerState
  BY CaseShapes, NoneTyped
<1>2. case' \in Case(cfg)!CaseRow
  <2>1. Case(cfg)!Flush(f.loaded, f.wanted) \in Case(cfg)!CaseRow
    BY <1>1, Flushed
  <2>2. case' = [Case(cfg)!Flush(f.loaded, f.wanted) EXCEPT !.scores = f.wanted.scores]
    BY DEF Case!FinalizeCommit
  <2>3. f.wanted.scores \in BOOLEAN
    BY <1>1 DEF Case!CaseRow
  <2> HIDE DEF f
  <2> QED BY <2>1, <2>2, <2>3 DEF Case!CaseRow
<1>3. run' \in [Case(cfg)!Stages -> [Case(cfg)!Attempts -> Case(cfg)!RunStatuses]]
  <2>1. f.outcome \in Case(cfg)!RunStatuses
    BY <1>1 DEF Case!FinalizerState, Case!RunStatuses
  <2> QED BY <2>1 DEF Case!FinalizeCommit, Case!TypeOK
<1>4. task' \in [Case(cfg)!Tasks -> Case(cfg)!TaskRow]
  <2>1. [Case(cfg)!NoTask EXCEPT !.run = k] \in Case(cfg)!TaskRow
    BY <1>1 DEF Case!TaskRow, Case!Attempts
  <2> QED BY <2>1 DEF Case!FinalizeCommit, Case!TypeOK
<1>5. finalizer' \in [Case(cfg)!Stages -> [Case(cfg)!Attempts -> Case(cfg)!FinalizerState]]
  BY <1>1 DEF Case!FinalizeCommit, Case!TypeOK
<1> QED BY <1>2, <1>3, <1>4, <1>5 DEF Case!FinalizeCommit, Case!TypeOK, Case!requestVars, Case!boundVars

\* Submissions keep the types.
LEMMA SubmitTyped ==
  ASSUME NEW cfg, CaseParameters(cfg), CInv(cfg), NEW q \in Sessions,
         \/ \E t \in Case(cfg)!Tasks, a \in cfg.answers : Case(cfg)!SubmitRead(q, t, a)
         \/ Case(cfg)!SubmitFlush(q) \/ Case(cfg)!SubmitRejected(q) \/ Case(cfg)!SubmitCommit(q)
  PROVE  Case(cfg)!TypeOK'
<1>1. /\ Case(cfg)!TypeOK /\ case \in Case(cfg)!CaseRow /\ submit[q] \in Case(cfg)!SubmitState /\ submit[q].loaded \in Case(cfg)!CaseRow
      /\ Case(cfg)!NoSubmit \in Case(cfg)!SubmitState /\ SubmitSound(cfg, q)
  BY CaseShapes, NoneTyped DEF CInv, HandlersSound
<1>2. ASSUME NEW new \in Case(cfg)!SubmitState, submit' = [submit EXCEPT ![q] = new]
      PROVE  submit' \in [Sessions -> Case(cfg)!SubmitState]
  BY <1>1, <1>2 DEF Case!TypeOK
<1>3. CASE \E t \in Case(cfg)!Tasks, a \in cfg.answers : Case(cfg)!SubmitRead(q, t, a)
  <2>1. PICK t \in Case(cfg)!Tasks, a \in cfg.answers : Case(cfg)!SubmitRead(q, t, a)
    BY <1>3
  <2>2. [Case(cfg)!NoSubmit EXCEPT !.at = "read", !.task = t, !.answers = a] \in Case(cfg)!SubmitState
    BY <1>1 DEF Case!SubmitState
  <2> QED BY <1>1, <1>2, <2>1, <2>2 DEF Case!SubmitRead, Case!TypeOK, Case!boundVars
<1>4. CASE Case(cfg)!SubmitFlush(q)
  <2> DEFINE new == [submit[q] EXCEPT !.at = "flushed", !.ready = Case(cfg)!Ready(q), !.loaded = case]
  <2>1. new \in Case(cfg)!SubmitState
    BY <1>1 DEF Case!SubmitState, Case!Ready
  <2>2. submit' = [submit EXCEPT ![q] = new]
    BY <1>1, <1>4 DEF Case!SubmitFlush, Case!TypeOK
  <2>3. overlapped' \subseteq Case(cfg)!Attempts
    <3>1. RunOf(q) \in Case(cfg)!Attempts
      BY <1>1, <1>4, CaseShapes DEF Case!SubmitFlush, SubmitSound, RunOf, Case!TaskRow, Case!Attempts, CaseParameters
    <3> QED BY <1>1, <1>4, <3>1 DEF Case!SubmitFlush, Case!TypeOK, RunOf, FormOf
  <2> HIDE DEF new
  <2> QED BY <1>1, <1>2, <1>4, <2>1, <2>2, <2>3 DEF Case!SubmitFlush, Case!TypeOK
<1>5. CASE Case(cfg)!SubmitRejected(q)
  BY <1>1, <1>2, <1>5 DEF Case!SubmitRejected, Case!TypeOK, Case!boundVars
<1>6. CASE Case(cfg)!SubmitCommit(q)
  <2> DEFINE s == submit[q]
             k == task[s.task].run
             t == s.task
  <2>1. t \in Case(cfg)!Tasks /\ s.answers \in cfg.answers /\ k \in Case(cfg)!Attempts
    BY <1>1, <1>6, CaseShapes
       DEF Case!SubmitCommit, SubmitSound, RunOf, FormOf, Case!TaskRow, Case!Attempts, CaseParameters
  <2>2. task' \in [Case(cfg)!Tasks -> Case(cfg)!TaskRow] /\ submission' \in [Case(cfg)!Tasks -> cfg.answers \cup {None}]
    <3>1. [[task[t] EXCEPT !.status = "completed"] EXCEPT !.response = s.answers] \in Case(cfg)!TaskRow
      BY <2>1, CaseShapes, <1>1 DEF Case!TaskRow
    <3> QED BY <1>1, <1>6, <2>1, <3>1 DEF Case!SubmitCommit, Case!TypeOK
  <2>3. run' \in [Case(cfg)!Stages -> [Case(cfg)!Attempts -> Case(cfg)!RunStatuses]]
    BY <1>1, <1>6, <2>1 DEF Case!SubmitCommit, Case!TypeOK, Case!RunStatuses, Case!Stages
  <2>4. case' \in Case(cfg)!CaseRow
    <3>1. <<"scoring", k>> \in Case(cfg)!RunIds
      BY <2>1 DEF Case!RunIds, Case!Stages
    <3>2. [s.loaded EXCEPT !.status = "scoring", !.latest = <<"scoring", k>>] \in Case(cfg)!CaseRow
      BY <1>1, <3>1 DEF Case!CaseRow, Case!CaseStatuses
    <3> QED BY <1>1, <1>6, <3>2, Flushed DEF Case!SubmitCommit
  <2> QED BY <1>1, <1>2, <1>6, <2>2, <2>3, <2>4 DEF Case!SubmitCommit, Case!TypeOK, Case!boundVars
<1> QED BY <1>3, <1>4, <1>5, <1>6

-----------------------------------------------------------------------------
(* The queue and the launches.                                             *)

\* A step that moves runs which no open finalizer holds, and gives assignees
\* only to a run it creates, keeps the invariant.
LEMMA RunMoves ==
  ASSUME NEW cfg, CInv(cfg), Case(cfg)!TypeOK', \A l \in cfg.launchers : LaunchSound(cfg, l)',
         UNCHANGED <<task, submission, submit, finalizer, overlapped>>,
         \A s \in Case(cfg)!Stages, k \in Case(cfg)!Attempts :
           run'[s][k] # run[s][k] => /\ ~finalizer[s][k].open /\ run'[s][k] # "absent"
                                     /\ s = "scoring" => run[s][k] # "absent",
         \A k \in Case(cfg)!Attempts : assignees'[k] # assignees[k] => run["intake"][k] = "absent",
         retries' + outages' = 0 =>
           /\ retries + outages = 0
           /\ \A k \in Case(cfg)!Attempts : run["intake"][k] = "succeeded" => run'["intake"][k] = "succeeded"
  PROVE  CInv(cfg)'
<1> USE DEF CInv, HandlersSound, CaseRowsSound
<1>1. \A k \in Case(cfg)!Attempts : /\ run["intake"][k] # "absent" => run'["intake"][k] # "absent"
                                    /\ run'["scoring"][k] = "absent" <=> run["scoring"][k] = "absent"
  BY DEF Case!Stages
<1>2. \A k \in Case(cfg)!Attempts : Case(cfg)!TasksOf(k)' = Case(cfg)!TasksOf(k)
  BY DEF Case!TasksOf
<1>3. \A t \in Case(cfg)!Tasks : task[t].run # 0 => task[t].run \in Case(cfg)!Attempts
  BY DEF Case!TypeOK, Case!TaskRow, Case!Attempts
<1>4. \A t \in Case(cfg)!Tasks : TaskSound(t)'
  BY <1>1, <1>3 DEF TaskSound, Complete
<1>5. \A q \in Sessions : SubmitSound(cfg, q)'
  BY <1>1, <1>3 DEF SubmitSound, Storing, RunOf, FormOf
<1>6. SubmitsApart'
  BY DEF SubmitsApart, Storing, RunOf, FormOf
<1>7. ASSUME NEW s \in Case(cfg)!Stages, NEW k \in Case(cfg)!Attempts PROVE FinalizerSound(cfg, s, k)'
  <2>1. finalizer[s][k].created # {} => assignees'[k] = assignees[k]
    BY DEF FinalizerSound
  <2>2. finalizer[s][k].open => run'[s][k] = run[s][k]
    OBVIOUS
  <2> QED BY <1>2, <2>1, <2>2 DEF FinalizerSound
<1>8. CreatedApart(cfg)'
  BY DEF CreatedApart
<1>9. Case(cfg)!OneTaskPerReviewer'
  <2>1. ASSUME NEW k \in Case(cfg)!Attempts, NEW t \in Case(cfg)!TasksOf(k) PROVE assignees'[k] = assignees[k]
    BY <1>3 DEF Case!TasksOf, TaskSound, Case!Attempts
  <2> QED BY <1>2, <2>1 DEF Case!OneTaskPerReviewer
<1>10. ASSUME NEW k \in Case(cfg)!Attempts PROVE Once(cfg, k)' /\ CaseInTurn(cfg, k)'
  <2>1. Case(cfg)!AllAnswered(k)' <=> Case(cfg)!AllAnswered(k)
    BY <1>2 DEF Case!AllAnswered
  <2>2. Once(cfg, k)'
    BY <1>1, <1>2, <2>1 DEF Once, Storing, RunOf, FormOf, Complete
  <2>3. CaseInTurn(cfg, k)'
    BY <1>1, <1>2, <2>1 DEF CaseInTurn, Storing, RunOf, FormOf, Complete
  <2> QED BY <2>2, <2>3
<1> QED BY <1>4, <1>5, <1>6, <1>7, <1>8, <1>9, <1>10

\* What is counted to nothing has not been counted up.
LEMMA NextIsNotZero == \A m, n \in Nat : m + (n + 1) # 0
OBVIOUS

\* Launches.
LEMMA LaunchMoves ==
  ASSUME NEW cfg, CaseParameters(cfg), CInv(cfg), NEW l \in cfg.launchers,
         \/ Case(cfg)!LaunchRead(l) \/ Case(cfg)!LaunchCount(l) \/ Case(cfg)!LaunchCreate(l)
         \/ Case(cfg)!LaunchSync(l) \/ Case(cfg)!LaunchRefused(l) \/ Case(cfg)!LaunchDies(l)
  PROVE  CInv(cfg)'
<1>1. Case(cfg)!TypeOK' /\ \A m \in cfg.launchers : LaunchSound(cfg, m)'
  BY LaunchTyped
<1>2. Case(cfg)!TypeOK /\ retries \in Nat /\ outages \in Nat /\ retries' \in Nat /\ outages' \in Nat
  BY <1>1 DEF CInv, Case!TypeOK, CaseParameters
<1>3. /\ UNCHANGED <<task, submission, submit, finalizer, overlapped, retries>>
      /\ outages' \in {outages, outages + 1}
  BY DEF Case!LaunchRead, Case!LaunchCount, Case!LaunchCreate, Case!LaunchSync, Case!LaunchRefused, Case!LaunchDies, Case!boundVars
<1>4. CASE Case(cfg)!LaunchCreate(l) /\ run' # run
  <2> DEFINE k == launch[l].number
  <2>1. k \in Case(cfg)!Attempts /\ run["intake"][k] = "absent"
    BY <1>4 DEF CInv, LaunchSound, Case!LaunchCreate
  <2>2. /\ run' = [run EXCEPT !["intake"][k] = "queued"]
        /\ \E named \in SUBSET cfg.reviewers : assignees' = [assignees EXCEPT ![k] = named]
    BY <1>4 DEF Case!LaunchCreate
  <2> HIDE DEF k
  <2>3. /\ run'["intake"][k] = "queued" /\ run'["scoring"] = run["scoring"]
        /\ \A j \in Case(cfg)!Attempts \ {k} : run'["intake"][j] = run["intake"][j]
        /\ \A j \in Case(cfg)!Attempts \ {k} : assignees'[j] = assignees[j]
    BY <1>2, <2>1, <2>2 DEF Case!TypeOK, Case!Stages
  <2>4. ~finalizer["intake"][k].open
    BY <2>1 DEF CInv, HandlersSound, FinalizerSound, Case!Stages
  <2>5. /\ \A s \in Case(cfg)!Stages, j \in Case(cfg)!Attempts :
             run'[s][j] # run[s][j] => /\ ~finalizer[s][j].open /\ run'[s][j] # "absent"
                                       /\ s = "scoring" => run[s][j] # "absent"
        /\ \A j \in Case(cfg)!Attempts : assignees'[j] # assignees[j] => run["intake"][j] = "absent"
        /\ \A j \in Case(cfg)!Attempts : run["intake"][j] = "succeeded" => run'["intake"][j] = "succeeded"
    BY <2>1, <2>3, <2>4 DEF Case!Stages
  <2>6. retries' + outages' = 0 => retries + outages = 0
    <3>1. retries \in Nat /\ outages \in Nat /\ retries' \in Nat /\ outages' \in Nat
      BY <1>2
    <3>2. retries' = retries
      BY <1>3
    <3>3. outages' = outages \/ outages' = outages + 1
      BY <1>3
    <3>4. CASE outages' = outages
      BY <3>2, <3>4
    <3>5. CASE outages' = outages + 1
      BY <3>1, <3>5, NextIsNotZero
    <3> QED BY <3>3, <3>4, <3>5
  <2> QED BY <1>1, <1>3, <2>5, <2>6, RunMoves
<1>5. CASE UNCHANGED <<run, assignees>>
  <2>1. /\ \A s \in Case(cfg)!Stages, j \in Case(cfg)!Attempts :
             run'[s][j] # run[s][j] => /\ ~finalizer[s][j].open /\ run'[s][j] # "absent"
                                       /\ s = "scoring" => run[s][j] # "absent"
        /\ \A j \in Case(cfg)!Attempts : assignees'[j] # assignees[j] => run["intake"][j] = "absent"
        /\ \A j \in Case(cfg)!Attempts : run["intake"][j] = "succeeded" => run'["intake"][j] = "succeeded"
    BY <1>5
  <2>2. retries' + outages' = 0 => retries + outages = 0
    <3>1. retries \in Nat /\ outages \in Nat /\ retries' \in Nat /\ outages' \in Nat
      BY <1>2
    <3>2. retries' = retries
      BY <1>3
    <3>3. outages' = outages \/ outages' = outages + 1
      BY <1>3
    <3>4. CASE outages' = outages
      BY <3>2, <3>4
    <3>5. CASE outages' = outages + 1
      BY <3>1, <3>5, NextIsNotZero
    <3> QED BY <3>3, <3>4, <3>5
  <2> QED BY <1>1, <1>3, <2>1, <2>2, RunMoves
<1>6. \/ UNCHANGED <<run, assignees>>
      \/ Case(cfg)!LaunchCreate(l) /\ run' # run
  <2>1. ASSUME Case(cfg)!LaunchCreate(l), run["intake"][launch[l].number] = "absent"  PROVE run' # run
    <3>1. launch[l].number \in Case(cfg)!Attempts
      BY <2>1 DEF CInv, LaunchSound, Case!LaunchCreate
    <3>2. run' = [run EXCEPT !["intake"][launch[l].number] = "queued"]
      BY <2>1 DEF Case!LaunchCreate
    <3>3. run'["intake"][launch[l].number] = "queued"
      BY <1>2, <3>1, <3>2 DEF Case!TypeOK, Case!Stages
    <3> QED BY <2>1, <3>3
  <2> QED BY <2>1 DEF Case!LaunchRead, Case!LaunchCount, Case!LaunchCreate, Case!LaunchSync, Case!LaunchRefused, Case!LaunchDies
<1> QED BY <1>4, <1>5, <1>6

\* The queue, retries by hand included.
LEMMA QueueMoves ==
  ASSUME NEW cfg, CaseParameters(cfg), CInv(cfg), NEW s \in Case(cfg)!Stages, NEW k \in Case(cfg)!Attempts,
         Case(cfg)!RunStarts(s, k) \/ Case(cfg)!RetryRun(s, k) \/ Case(cfg)!RunLost(s, k)
  PROVE  CInv(cfg)'
<1>1. Case(cfg)!TypeOK'
  BY QueueTyped DEF CInv
<1>2. Case(cfg)!TypeOK /\ retries \in Nat /\ outages \in Nat /\ retries' \in Nat /\ outages' \in Nat
  BY <1>1 DEF CInv, Case!TypeOK, CaseParameters
<1>3. /\ UNCHANGED <<task, submission, submit, launch, finalizer, overlapped, assignees>>
      /\ \A l \in cfg.launchers : LaunchSound(cfg, l)'
  BY DEF Case!RunStarts, Case!RetryRun, Case!RunLost, Case!requestVars, Case!boundVars, CInv, LaunchSound
<1>4. /\ run[s][k] # "absent" /\ ~finalizer[s][k].open
      /\ \E new \in {"queued", "running", "failed"} : run' = [run EXCEPT ![s][k] = new]
      /\ retries' + outages' = 0 => /\ retries + outages = 0 /\ run[s][k] = "queued"
  BY <1>2 DEF Case!RunStarts, Case!RetryRun, Case!RunLost, Case!boundVars, Case!Terminal, CInv, HandlersSound, FinalizerSound
<1>5. PICK new \in {"queued", "running", "failed"} : run' = [run EXCEPT ![s][k] = new]
  BY <1>4
<1>6. run'[s][k] = new /\ \A z \in Case(cfg)!Stages, j \in Case(cfg)!Attempts : z # s \/ j # k => run'[z][j] = run[z][j]
  BY <1>2, <1>5 DEF Case!TypeOK
<1>7. /\ \A z \in Case(cfg)!Stages, j \in Case(cfg)!Attempts :
           run'[z][j] # run[z][j] => /\ ~finalizer[z][j].open /\ run'[z][j] # "absent"
                                     /\ z = "scoring" => run[z][j] # "absent"
      /\ retries' + outages' = 0 =>
           \A j \in Case(cfg)!Attempts : run["intake"][j] = "succeeded" => run'["intake"][j] = "succeeded"
  BY <1>4, <1>6 DEF Case!Stages
<1> QED BY <1>1, <1>3, <1>4, <1>7, RunMoves

-----------------------------------------------------------------------------
(* Finalizers.                                                             *)

\* persist_task_intents looks for the run's own tasks by reviewer.
LEMMA Assigned ==
  ASSUME NEW cfg, Case(cfg)!TypeOK, NEW k \in Case(cfg)!Attempts, NEW c \in cfg.contexts, NEW t \in Case(cfg)!NewAssignments(k, c)
  PROVE  /\ task[t].run = 0 /\ t[1] \in assignees[k]
         /\ \A u \in Case(cfg)!TasksOf(k) \cup Case(cfg)!NewAssignments(k, c) : u[1] = t[1] => u = t
<1>1. /\ t = <<t[1], c>> /\ t[1] \in assignees[k] /\ task[t].run = 0
      /\ \A u \in Case(cfg)!TasksOf(k) : u[1] # t[1]
  BY DEF Case!NewAssignments
<1>2. \A u \in Case(cfg)!NewAssignments(k, c) : u = <<u[1], c>>
  BY DEF Case!NewAssignments
<1> QED BY <1>1, <1>2

\* An open finalizer creates tasks nobody else creates, for assignees without
\* one.
LEMMA OpenMoves ==
  ASSUME NEW cfg, CaseParameters(cfg), CInv(cfg), NEW s \in Case(cfg)!Stages, NEW k \in Case(cfg)!Attempts,
         Case(cfg)!FinalizeSuccess(s, k) \/ Case(cfg)!FinalizeFailure(s, k)
  PROVE  CInv(cfg)'
<1> USE DEF CInv, HandlersSound, CaseRowsSound
<1>1. Case(cfg)!TypeOK /\ Case(cfg)!TypeOK'
  BY OpenTyped
<1>2. /\ UNCHANGED <<run, assignees, task, submission, launch, submit, retries, outages, overlapped>>
      /\ run[s][k] = "running"
  BY DEF Case!FinalizeSuccess, Case!FinalizeFailure, Case!requestVars, Case!boundVars
<1>3. PICK f : /\ finalizer' = [finalizer EXCEPT ![s][k] = f] /\ f.open
               /\ f.created # {} => s = "intake" /\ f.outcome = "succeeded"
               /\ \A z \in Case(cfg)!Stages, j \in Case(cfg)!Attempts : finalizer[z][j].created \cap f.created = {}
               /\ \A t \in f.created : /\ task[t].run = 0 /\ t[1] \in assignees[k]
                                       /\ \A u \in Case(cfg)!TasksOf(k) \cup f.created : u[1] = t[1] => u = t
  <2>1. CASE Case(cfg)!FinalizeSuccess(s, k)
    <3>1. PICK c \in cfg.contexts :
            LET created == IF s = "intake" THEN Case(cfg)!NewAssignments(k, c) ELSE {} IN
            /\ \A id \in Case(cfg)!RunIds : finalizer[id[1]][id[2]].created \cap created = {}
            /\ finalizer' = [finalizer EXCEPT ![s][k] =
                 [open |-> TRUE, outcome |-> "succeeded", created |-> created, loaded |-> case,
                  wanted |-> Case(cfg)!Succeeded(case, s, k, created \cup Case(cfg)!TasksOf(k) # {})]]
      BY <2>1 DEF Case!FinalizeSuccess
    <3>2. PICK created : created = IF s = "intake" THEN Case(cfg)!NewAssignments(k, c) ELSE {}
      OBVIOUS
    <3>3. \A z \in Case(cfg)!Stages, j \in Case(cfg)!Attempts : finalizer[z][j].created \cap created = {}
      <4>1. \A z \in Case(cfg)!Stages, j \in Case(cfg)!Attempts : <<z, j>> \in Case(cfg)!RunIds
        BY DEF Case!RunIds
      <4> QED BY <3>1, <3>2, <4>1
    <3>4. \A t \in created : /\ task[t].run = 0 /\ t[1] \in assignees[k]
                             /\ \A u \in Case(cfg)!TasksOf(k) \cup created : u[1] = t[1] => u = t
      BY <1>1, <3>2, Assigned
    <3> DEFINE new == [open |-> TRUE, outcome |-> "succeeded", created |-> created, loaded |-> case,
                       wanted |-> Case(cfg)!Succeeded(case, s, k, created \cup Case(cfg)!TasksOf(k) # {})]
    <3>5. /\ finalizer' = [finalizer EXCEPT ![s][k] = new]
          /\ new.open /\ new.outcome = "succeeded" /\ new.created = created
      BY <3>1, <3>2
    <3> HIDE DEF new
    <3> QED BY <3>2, <3>3, <3>4, <3>5
  <2>2. CASE Case(cfg)!FinalizeFailure(s, k)
    <3>1. PICK outcome \in {"queued", "failed"} :
            finalizer' = [finalizer EXCEPT ![s][k] =
              [open |-> TRUE, outcome |-> outcome, created |-> {}, loaded |-> case,
               wanted |-> Case(cfg)!Ended(case, s, k, outcome)]]
      BY <2>2 DEF Case!FinalizeFailure
    <3> DEFINE new == [open |-> TRUE, outcome |-> outcome, created |-> {}, loaded |-> case,
                       wanted |-> Case(cfg)!Ended(case, s, k, outcome)]
    <3>2. finalizer' = [finalizer EXCEPT ![s][k] = new] /\ new.open /\ new.created = {}
      BY <3>1
    <3> HIDE DEF new
    <3> QED BY <3>2
  <2> QED BY <2>1, <2>2
<1>4. /\ finalizer'[s][k] = f
      /\ \A z \in Case(cfg)!Stages, j \in Case(cfg)!Attempts : z # s \/ j # k => finalizer'[z][j] = finalizer[z][j]
  BY <1>1, <1>3 DEF Case!TypeOK
<1>5. \A z \in Case(cfg)!Stages, j \in Case(cfg)!Attempts : FinalizerSound(cfg, z, j)'
  BY <1>2, <1>3, <1>4 DEF FinalizerSound, Case!TasksOf
<1>6. CreatedApart(cfg)'
  <2>1. ASSUME NEW i \in Case(cfg)!Attempts, NEW j \in Case(cfg)!Attempts, NEW t,
               t \in finalizer'["intake"][i].created, t \in finalizer'["intake"][j].created
        PROVE  i = j
    BY <1>3, <1>4, <2>1 DEF CreatedApart, Case!Stages
  <2> QED BY <2>1 DEF CreatedApart
<1>7. CaseRowsSound(cfg)'
  BY <1>2 DEF TaskSound, Case!OneTaskPerReviewer, Once, CaseInTurn, Case!AllAnswered, Case!TasksOf, Complete,
              Storing, RunOf, FormOf
<1>8. \A q \in Sessions : SubmitSound(cfg, q)'
  BY <1>2 DEF SubmitSound, Storing, RunOf, FormOf
<1>9. SubmitsApart' /\ \A l \in cfg.launchers : LaunchSound(cfg, l)'
  BY <1>2 DEF SubmitsApart, Storing, RunOf, FormOf, LaunchSound
<1> QED BY <1>1, <1>5, <1>6, <1>7, <1>8, <1>9

\* The commit of a finalizer adds open tasks to its run, and nothing else but
\* the status of the run changes for anybody who waits for answers.
LEMMA CommitMoves ==
  ASSUME NEW cfg, CaseParameters(cfg), CInv(cfg), NEW s \in Case(cfg)!Stages, NEW k \in Case(cfg)!Attempts, Case(cfg)!FinalizeCommit(s, k)
  PROVE  CInv(cfg)'
<1> USE DEF CInv, HandlersSound, CaseRowsSound
<1>1. Case(cfg)!TypeOK /\ Case(cfg)!TypeOK'
  BY CommitTyped
<1>2. PICK f : f = finalizer[s][k]
  OBVIOUS
<1>3. /\ f.open /\ f.created \subseteq Case(cfg)!Tasks /\ run[s][k] = "running"
      /\ f.outcome \in {"queued", "succeeded", "failed"}
      /\ f.created # {} => s = "intake" /\ f.outcome = "succeeded"
      /\ \A t \in f.created : /\ task[t].run = 0 /\ t[1] \in assignees[k]
                              /\ \A u \in Case(cfg)!TasksOf(k) \cup f.created : u[1] = t[1] => u = t
  BY <1>1, <1>2, CaseShapes DEF Case!FinalizeCommit, FinalizerSound, Case!FinalizerState
<1>4. UNCHANGED <<assignees, submission, launch, submit, retries, outages, overlapped>>
  BY DEF Case!FinalizeCommit, Case!requestVars, Case!boundVars
<1>5. /\ run'[s][k] = f.outcome
      /\ \A z \in Case(cfg)!Stages, j \in Case(cfg)!Attempts : z # s \/ j # k => run'[z][j] = run[z][j]
  BY <1>1, <1>2 DEF Case!FinalizeCommit, Case!TypeOK
<1>6. /\ finalizer'[s][k] = Case(cfg)!NoFinalizer
      /\ \A z \in Case(cfg)!Stages, j \in Case(cfg)!Attempts : z # s \/ j # k => finalizer'[z][j] = finalizer[z][j]
  BY <1>1 DEF Case!FinalizeCommit, Case!TypeOK
<1>7. /\ \A t \in f.created : task'[t].run = k /\ task'[t].status = "open" /\ task'[t].response = None
      /\ \A t \in Case(cfg)!Tasks \ f.created : task'[t] = task[t]
  BY <1>2, <1>3 DEF Case!FinalizeCommit, Case!NoTask
<1>8. \A j \in Case(cfg)!Attempts : Case(cfg)!TasksOf(j)' = IF j = k THEN Case(cfg)!TasksOf(k) \cup f.created ELSE Case(cfg)!TasksOf(j)
  BY <1>3, <1>7 DEF Case!TasksOf, Case!Attempts
<1>9. \A t \in f.created : task[t].run = 0 /\ submission[t] = None /\ ~Complete(t)
  BY <1>3 DEF TaskSound
<1>10. \A q \in Sessions : submit[q].at # "idle" => task'[FormOf(q)] = task[FormOf(q)] /\ RunOf(q)' = RunOf(q)
  BY <1>4, <1>7, <1>9 DEF SubmitSound, RunOf, FormOf
<1>11. \A j \in Case(cfg)!Attempts : /\ run["intake"][j] # "absent" => run'["intake"][j] # "absent"
                                     /\ run'["scoring"][j] = "absent" <=> run["scoring"][j] = "absent"
  BY <1>3, <1>5 DEF Case!Stages
<1>12. \A t \in Case(cfg)!Tasks : task[t].run # 0 => task[t].run \in Case(cfg)!Attempts
  BY <1>1 DEF Case!TypeOK, Case!TaskRow, Case!Attempts
<1>13. \A t \in Case(cfg)!Tasks : TaskSound(t)'
  <2>1. ASSUME NEW t \in f.created PROVE TaskSound(t)'
    BY <1>3, <1>4, <1>5, <1>7, <1>9 DEF TaskSound, Complete, Case!Attempts
  <2>2. ASSUME NEW t \in Case(cfg)!Tasks \ f.created PROVE TaskSound(t)'
    BY <1>4, <1>7, <1>11, <1>12 DEF TaskSound, Complete
  <2> QED BY <2>1, <2>2
<1>14. \A q \in Sessions : SubmitSound(cfg, q)'
  <2>1. ASSUME NEW q \in Sessions, submit[q].at # "idle" PROVE RunOf(q) \in Case(cfg)!Attempts
    BY <1>12, <2>1 DEF SubmitSound, RunOf
  <2> QED BY <1>4, <1>10, <1>11, <2>1 DEF SubmitSound, Storing, FormOf
<1>15. SubmitsApart'
  BY <1>4, <1>10 DEF SubmitsApart, Storing, FormOf
<1>16. ASSUME NEW z \in Case(cfg)!Stages, NEW j \in Case(cfg)!Attempts PROVE FinalizerSound(cfg, z, j)'
  <2>1. CASE z = s /\ j = k
    BY <1>6, <2>1 DEF FinalizerSound, Case!NoFinalizer
  <2>2. CASE z # s \/ j # k
    <3>1. \A t \in finalizer[z][j].created : t \notin f.created /\ t \in Case(cfg)!Tasks
      <4>1. f.created # {} /\ finalizer[z][j].created # {} => z = "intake" /\ s = "intake"
        BY <1>3 DEF FinalizerSound
      <4> QED BY <1>1, <1>2, <2>2, <4>1, CaseShapes DEF CreatedApart
    <3>2. finalizer[z][j].created # {} /\ f.created # {} => j # k
      BY <1>3, <2>2 DEF FinalizerSound
    <3>3. finalizer[z][j].created # {} => Case(cfg)!TasksOf(j)' = Case(cfg)!TasksOf(j)
      BY <1>8, <3>2
    <3> QED BY <1>4, <1>5, <1>6, <1>7, <2>2, <3>1, <3>3 DEF FinalizerSound
  <2> QED BY <2>1, <2>2
<1>17. CreatedApart(cfg)'
  <2>1. Case(cfg)!NoFinalizer.created = {}
    BY DEF Case!NoFinalizer
  <2> QED BY <1>6, <2>1 DEF CreatedApart, Case!Stages
<1>18. Case(cfg)!OneTaskPerReviewer'
  BY <1>3, <1>4, <1>8 DEF Case!OneTaskPerReviewer
<1>19. ASSUME NEW j \in Case(cfg)!Attempts PROVE Once(cfg, j)' /\ CaseInTurn(cfg, j)'
  <2>1. \A t \in Case(cfg)!Tasks : Complete(t)' <=> Complete(t)
    BY <1>7, <1>9 DEF Complete
  <2>2. Case(cfg)!AllAnswered(j)' => Case(cfg)!AllAnswered(j)
    BY <1>3, <1>7, <1>8, <1>9 DEF Case!AllAnswered, Case!TasksOf, Complete
  <2>3. CASE f.created = {} \/ j # k
    <3>1. Case(cfg)!TasksOf(j)' = Case(cfg)!TasksOf(j)
      BY <1>8, <2>3
    <3>2. Case(cfg)!AllAnswered(j)' <=> Case(cfg)!AllAnswered(j)
      BY <2>1, <3>1 DEF Case!AllAnswered, Case!TasksOf, Complete
    <3>3. Once(cfg, j)'
      <4>1. retries + outages = 0 /\ Case(cfg)!TasksOf(j) # {} => run["intake"][j] = "succeeded"
        BY DEF Once
      <4>2. retries + outages = 0 /\ Case(cfg)!TasksOf(j) # {} => run'["intake"][j] = "succeeded"
        BY <1>3, <1>5, <4>1 DEF Case!Stages
      <4> QED BY <1>4, <1>10, <1>11, <2>1, <3>1, <3>2, <4>2 DEF Once, Storing, FormOf, Case!TasksOf
    <3>4. CaseInTurn(cfg, j)'
      BY <1>4, <1>10, <1>11, <2>1, <3>1, <3>2 DEF CaseInTurn, Storing, FormOf, Case!TasksOf
    <3> QED BY <3>3, <3>4
  <2>4. CASE f.created # {} /\ j = k
    <3>1. Case(cfg)!TasksOf(k)' = Case(cfg)!TasksOf(k) \cup f.created /\ f.created # {} /\ run["intake"][k] = "running"
      BY <1>3, <1>8, <2>4
    <3>2. ~Case(cfg)!AllAnswered(k)'
      BY <1>7, <3>1 DEF Case!AllAnswered
    <3>3. Once(cfg, k)'
      <4>1. retries + outages = 0 =>
              /\ Case(cfg)!TasksOf(k) = {} /\ run["scoring"][k] = "absent"
              /\ \A q \in Sessions : ~(Storing(q) /\ RunOf(q) = k)
        BY <3>1 DEF Once, Case!AllAnswered, SubmitSound, Storing, RunOf, Case!TasksOf
      <4>2. run'["intake"][k] = "succeeded"
        BY <1>3, <1>5, <2>4
      <4> QED BY <1>4, <1>10, <1>11, <4>1, <4>2 DEF Once, Storing, FormOf
    <3>4. CaseInTurn(cfg, k)'
      BY <1>4, <1>10, <1>11, <2>1, <3>1, <3>2 DEF CaseInTurn, Storing, FormOf, Case!TasksOf
    <3> QED BY <2>4, <3>3, <3>4
  <2> QED BY <2>3, <2>4
<1> QED BY <1>1, <1>4, <1>13, <1>14, <1>15, <1>16, <1>17, <1>18, <1>19 DEF LaunchSound

-----------------------------------------------------------------------------
(* Submissions.                                                            *)

\* A submission that has not written anything.
LEMMA ReadMoves ==
  ASSUME NEW cfg, CaseParameters(cfg), CInv(cfg), NEW q \in Sessions,
         (\E t \in Case(cfg)!Tasks, a \in cfg.answers : Case(cfg)!SubmitRead(q, t, a)) \/ Case(cfg)!SubmitRejected(q)
  PROVE  CInv(cfg)'
<1> USE DEF CInv, HandlersSound, CaseRowsSound
<1>1. Case(cfg)!TypeOK /\ Case(cfg)!TypeOK'
  BY SubmitTyped
<1>2. UNCHANGED <<run, assignees, task, submission, launch, finalizer, retries, outages, overlapped>>
  BY DEF Case!SubmitRead, Case!SubmitRejected, Case!boundVars
<1>3. PICK new : /\ submit' = [submit EXCEPT ![q] = new] /\ new.at # "flushed"
                 /\ new.at # "idle" => /\ new.task \in Case(cfg)!Tasks /\ new.answers \in cfg.answers
                                       /\ task[new.task].run # 0
  <2>1. CASE \E t \in Case(cfg)!Tasks, a \in cfg.answers : Case(cfg)!SubmitRead(q, t, a)
    <3>1. PICK t \in Case(cfg)!Tasks, a \in cfg.answers : Case(cfg)!SubmitRead(q, t, a)
      BY <2>1
    <3> DEFINE new == [Case(cfg)!NoSubmit EXCEPT !.at = "read", !.task = t, !.answers = a]
    <3>2. new.at = "read" /\ new.task = t /\ new.answers = a
      BY DEF Case!NoSubmit
    <3>3. submit' = [submit EXCEPT ![q] = new] /\ task[t].run # 0
      BY <3>1 DEF Case!SubmitRead, Case!OpenTasks
    <3> HIDE DEF new
    <3> QED BY <3>2, <3>3
  <2>2. CASE Case(cfg)!SubmitRejected(q)
    <3>1. Case(cfg)!NoSubmit.at = "idle"
      BY DEF Case!NoSubmit
    <3> QED BY <2>2, <3>1 DEF Case!SubmitRejected
  <2> QED BY <2>1, <2>2
<1>4. submit'[q] = new /\ \A p \in Sessions \ {q} : submit'[p] = submit[p]
  BY <1>1, <1>3 DEF Case!TypeOK
<1>5. /\ \A p \in Sessions : Storing(p)' => submit'[p] = submit[p] /\ Storing(p) /\ RunOf(p)' = RunOf(p)
      /\ \A k \in Case(cfg)!Attempts : Case(cfg)!TasksOf(k)' = Case(cfg)!TasksOf(k) /\ (Case(cfg)!AllAnswered(k)' <=> Case(cfg)!AllAnswered(k))
  BY <1>2, <1>3, <1>4 DEF Storing, RunOf, FormOf, Case!TasksOf, Case!AllAnswered
<1>6. \A p \in Sessions : SubmitSound(cfg, p)'
  BY <1>2, <1>3, <1>4 DEF SubmitSound, Storing, RunOf, FormOf
<1>7. SubmitsApart'
  BY <1>5 DEF SubmitsApart, FormOf
<1>8. \A s \in Case(cfg)!Stages, k \in Case(cfg)!Attempts : FinalizerSound(cfg, s, k)'
  BY <1>2, <1>5 DEF FinalizerSound
<1>9. CreatedApart(cfg)' /\ Case(cfg)!OneTaskPerReviewer'
  BY <1>2, <1>5 DEF CreatedApart, Case!OneTaskPerReviewer
<1>10. \A t \in Case(cfg)!Tasks : TaskSound(t)'
  BY <1>2 DEF TaskSound, Complete
<1>11. ASSUME NEW k \in Case(cfg)!Attempts PROVE Once(cfg, k)' /\ CaseInTurn(cfg, k)'
  <2>1. \A t : Complete(t)' <=> Complete(t)
    BY <1>2 DEF Complete
  <2>2. \A p \in Sessions : Storing(p)' => FormOf(p)' = FormOf(p)
    BY <1>5 DEF FormOf
  <2>3. Once(cfg, k)'
    BY <1>2, <1>5, <2>1, <2>2 DEF Once
  <2>4. CaseInTurn(cfg, k)'
    BY <1>2, <1>5, <2>1, <2>2 DEF CaseInTurn
  <2> QED BY <2>3, <2>4
<1> QED BY <1>1, <1>2, <1>6, <1>7, <1>8, <1>9, <1>10, <1>11 DEF LaunchSound

\* A submission writes its task, and looks at those of the others: at most one
\* finds all of them completed.
LEMMA FlushMoves ==
  ASSUME NEW cfg, CaseParameters(cfg), CInv(cfg), NEW q \in Sessions, Case(cfg)!SubmitFlush(q)
  PROVE  CInv(cfg)'
<1> USE DEF CInv, HandlersSound, CaseRowsSound
<1>1. Case(cfg)!TypeOK /\ Case(cfg)!TypeOK'
  BY SubmitTyped
<1>2. /\ UNCHANGED <<run, assignees, task, submission, launch, finalizer, retries, outages>>
      /\ overlapped \subseteq overlapped' /\ submit[q].at = "read"
  BY DEF Case!SubmitFlush
<1>3. /\ FormOf(q) \in Case(cfg)!Tasks /\ submit[q].answers \in cfg.answers /\ RunOf(q) # 0
      /\ submission[FormOf(q)] = None /\ Case(cfg)!RowFree(q)
  BY <1>2 DEF SubmitSound, Case!SubmitFlush, Case!Insertable, FormOf
<1>4. PICK k : k = RunOf(q)
  OBVIOUS
<1>5. k \in Case(cfg)!Attempts
  BY <1>1, <1>3, <1>4 DEF Case!TypeOK, Case!TaskRow, Case!Attempts, RunOf
<1>6. /\ submit'[q].at = "flushed" /\ submit'[q].task = submit[q].task
      /\ submit'[q].answers = submit[q].answers /\ submit'[q].ready = Case(cfg)!Ready(q)
      /\ \A p \in Sessions \ {q} : submit'[p] = submit[p]
  <2> DEFINE new == [submit[q] EXCEPT !.at = "flushed", !.ready = Case(cfg)!Ready(q), !.loaded = case]
  <2>1. submit' = [submit EXCEPT ![q] = new]
    BY <1>1 DEF Case!SubmitFlush, Case!TypeOK
  <2>2. /\ new.at = "flushed" /\ new.task = submit[q].task
        /\ new.answers = submit[q].answers /\ new.ready = Case(cfg)!Ready(q)
    BY <1>1, CaseShapes DEF Case!SubmitState
  <2> HIDE DEF new
  <2> QED BY <1>1, <2>1, <2>2 DEF Case!TypeOK
<1>7. \A p \in Sessions : FormOf(p)' = FormOf(p) /\ RunOf(p)' = RunOf(p)
  BY <1>2, <1>6 DEF FormOf, RunOf
<1>8. \A p \in Sessions \ {q} : Storing(p) => FormOf(p) # FormOf(q) /\ ~Complete(FormOf(p))
  BY <1>3 DEF Case!RowFree, Storing, FormOf, SubmitSound, TaskSound
<1>9. Case(cfg)!Ready(q) <=> /\ \A t \in Case(cfg)!TasksOf(k) \ {FormOf(q)} : Complete(t)
                             /\ run["scoring"][k] = "absent"
  BY <1>4 DEF Case!Ready, RunOf, FormOf, Complete
<1>10. Case(cfg)!Ready(q) => \A p \in Sessions \ {q} : Storing(p) => RunOf(p) # k
  <2>1. \A p \in Sessions : Storing(p) /\ RunOf(p) = k => FormOf(p) \in Case(cfg)!TasksOf(k)
    BY DEF Storing, RunOf, SubmitSound, Case!TasksOf
  <2> QED BY <1>8, <1>9, <2>1
<1>11. k \notin overlapped' => \A p \in Sessions \ {q} : Storing(p) => RunOf(p) # k
  BY <1>4 DEF Case!SubmitFlush, RunOf, FormOf, Storing
<1>12. \A j \in Case(cfg)!Attempts : /\ Case(cfg)!TasksOf(j)' = Case(cfg)!TasksOf(j) /\ (Case(cfg)!AllAnswered(j)' <=> Case(cfg)!AllAnswered(j))
  BY <1>2 DEF Case!TasksOf, Case!AllAnswered
<1>13. \A t : Complete(t)' <=> Complete(t)
  BY <1>2 DEF Complete
<1>14. \A p \in Sessions : SubmitSound(cfg, p)'
  <2>1. SubmitSound(cfg, q)'
    BY <1>2, <1>3, <1>4, <1>6, <1>7, <1>9 DEF SubmitSound, Storing
  <2>2. \A p \in Sessions \ {q} : SubmitSound(cfg, p)'
    BY <1>2, <1>6, <1>7 DEF SubmitSound, Storing
  <2> QED BY <2>1, <2>2
<1>15. SubmitsApart'
  <2>1. ASSUME NEW p \in Sessions \ {q}, Storing(p)
        PROVE  FormOf(p) # FormOf(q) /\ (Case(cfg)!Ready(q) => RunOf(p) # RunOf(q))
    BY <1>4, <1>8, <1>10, <2>1
  <2>2. ASSUME NEW p \in Sessions, NEW r \in Sessions, p # r, Storing(p)', Storing(r)'
        PROVE  /\ FormOf(p)' # FormOf(r)'
               /\ submit'[p].ready /\ submit'[r].ready => RunOf(p)' # RunOf(r)'
    <3>1. CASE p = q
      BY <1>6, <1>7, <2>1, <2>2, <3>1 DEF Storing
    <3>2. CASE r = q
      BY <1>6, <1>7, <2>1, <2>2, <3>2 DEF Storing
    <3>3. CASE p # q /\ r # q
      BY <1>6, <1>7, <2>2, <3>3 DEF Storing, SubmitsApart
    <3> QED BY <3>1, <3>2, <3>3
  <2> QED BY <2>2 DEF SubmitsApart
<1>16. \A s \in Case(cfg)!Stages, j \in Case(cfg)!Attempts : FinalizerSound(cfg, s, j)'
  BY <1>2, <1>12 DEF FinalizerSound
<1>17. CreatedApart(cfg)' /\ Case(cfg)!OneTaskPerReviewer'
  BY <1>2, <1>12 DEF CreatedApart, Case!OneTaskPerReviewer
<1>18. \A t \in Case(cfg)!Tasks : TaskSound(t)'
  BY <1>2, <1>13 DEF TaskSound
<1>19. ASSUME NEW j \in Case(cfg)!Attempts PROVE Once(cfg, j)'
  <2>1. \A p \in Sessions : Storing(p)' /\ RunOf(p)' = j /\ submit'[p].ready =>
          \/ p = q /\ j = k /\ Case(cfg)!Ready(q)
          \/ Storing(p) /\ RunOf(p) = j /\ submit[p].ready
    BY <1>4, <1>6, <1>7 DEF Storing
  <2> QED BY <1>2, <1>7, <1>9, <1>12, <1>13, <2>1 DEF Once
<1>20. ASSUME NEW j \in Case(cfg)!Attempts PROVE CaseInTurn(cfg, j)'
  <2>1. \A p \in Sessions : Storing(p)' /\ RunOf(p)' = j =>
          \/ p = q /\ j = k /\ submit'[p].ready = Case(cfg)!Ready(q)
          \/ p # q /\ Storing(p) /\ RunOf(p) = j /\ submit'[p].ready = submit[p].ready
    BY <1>4, <1>6, <1>7 DEF Storing
  <2>2. j \notin overlapped' => CaseInTurn(cfg, j) /\ j \notin overlapped
    BY <1>2
  <2>3. j \notin overlapped' =>
          \A p, r \in Sessions : Storing(p)' /\ RunOf(p)' = j /\ Storing(r)' /\ RunOf(r)' = j => p = r
    BY <1>11, <2>1, <2>2 DEF CaseInTurn
  <2>4. j \notin overlapped' =>
          \A p \in Sessions : Storing(p)' /\ RunOf(p)' = j /\ ~submit'[p].ready =>
            \/ run["scoring"][j] # "absent"
            \/ \E t \in Case(cfg)!TasksOf(j) \ {FormOf(p)} : ~Complete(t)
    BY <1>9, <2>1, <2>2 DEF CaseInTurn
  <2>5. j \notin overlapped' =>
          \A p \in Sessions : Storing(p)' /\ RunOf(p)' = j /\ ~submit'[p].ready =>
            \/ run'["scoring"][j] # "absent"
            \/ \E t \in Case(cfg)!TasksOf(j)' \ {FormOf(p)'} : ~Complete(t)'
    <3> HIDE DEF CaseInTurn
    <3> QED BY <1>2, <1>7, <1>12, <1>13, <2>4
  <2>6. j \notin overlapped' => (Case(cfg)!AllAnswered(j)' => run'["scoring"][j] # "absent")
    BY <1>2, <1>12, <2>2 DEF CaseInTurn
  <2> QED BY <2>3, <2>5, <2>6 DEF CaseInTurn
<1> QED BY <1>1, <1>2, <1>14, <1>15, <1>16, <1>17, <1>18, <1>19, <1>20 DEF LaunchSound

\* A submission commits: its task is completed, and the scoring run queued if
\* this was the last.
LEMMA StoreMoves ==
  ASSUME NEW cfg, CaseParameters(cfg), CInv(cfg), NEW q \in Sessions, Case(cfg)!SubmitCommit(q)
  PROVE  CInv(cfg)'
<1> USE DEF CInv, HandlersSound, CaseRowsSound
<1>1. Case(cfg)!TypeOK /\ Case(cfg)!TypeOK'
  BY SubmitTyped
<1>2. /\ UNCHANGED <<assignees, launch, finalizer, retries, outages, overlapped>>
      /\ submit[q].at = "flushed" /\ submit' = [submit EXCEPT ![q] = Case(cfg)!NoSubmit]
  BY DEF Case!SubmitCommit, Case!boundVars
<1>3. PICK t, k : t = FormOf(q) /\ k = RunOf(q)
  OBVIOUS
<1>4. /\ t \in Case(cfg)!Tasks /\ k \in Case(cfg)!Attempts /\ task[t].run = k /\ submission[t] = None
      /\ submit[q].answers \in cfg.answers /\ t \in Case(cfg)!TasksOf(k)
      /\ submit[q].ready => run["scoring"][k] = "absent"
  <2>1. SubmitSound(cfg, q)
    OBVIOUS
  <2> QED BY <1>1, <1>2, <1>3, <2>1
          DEF SubmitSound, Storing, RunOf, FormOf, Case!TypeOK, Case!TaskRow, Case!Attempts, Case!TasksOf
<1>5. /\ task'[t].status = "completed" /\ task'[t].response = submit[q].answers
      /\ task'[t].run = k /\ submission'[t] = submit[q].answers
      /\ \A u \in Case(cfg)!Tasks \ {t} : task'[u] = task[u] /\ submission'[u] = submission[u]
  <2> DEFINE new == [[task[t] EXCEPT !.status = "completed"] EXCEPT !.response = submit[q].answers]
  <2>1. task' = [task EXCEPT ![t] = new] /\ submission' = [submission EXCEPT ![t] = submit[q].answers]
    BY <1>1, <1>3, <1>4 DEF Case!SubmitCommit, Case!TypeOK, FormOf
  <2>2. new.status = "completed" /\ new.response = submit[q].answers /\ new.run = k
    BY <1>1, <1>4, CaseShapes DEF Case!TaskRow
  <2> HIDE DEF new
  <2> QED BY <1>1, <1>4, <2>1, <2>2 DEF Case!TypeOK
<1>6. /\ run'["intake"] = run["intake"]
      /\ \A j \in Case(cfg)!Attempts : run["scoring"][j] # "absent" => run'["scoring"][j] # "absent"
      /\ \A j \in Case(cfg)!Attempts \ {k} : run'["scoring"][j] = run["scoring"][j]
      /\ submit[q].ready => run'["scoring"][k] = "queued"
      /\ ~submit[q].ready => run' = run
  <2>1. \/ submit[q].ready /\ run' = [run EXCEPT !["scoring"][k] = "queued"]
        \/ ~submit[q].ready /\ run' = run
    BY <1>3 DEF Case!SubmitCommit, RunOf, FormOf
  <2> QED BY <1>1, <1>4, <2>1 DEF Case!TypeOK, Case!Stages
<1>7. submit'[q].at = "idle" /\ \A p \in Sessions \ {q} : submit'[p] = submit[p]
  BY <1>1, <1>2 DEF Case!TypeOK, Case!NoSubmit
<1>8. \A u \in Case(cfg)!Tasks : task'[u].run = task[u].run
  BY <1>4, <1>5
<1>9. \A j \in Case(cfg)!Attempts : Case(cfg)!TasksOf(j)' = Case(cfg)!TasksOf(j)
  BY <1>8 DEF Case!TasksOf
<1>10. \A u \in Case(cfg)!Tasks : Complete(u)' <=> Complete(u) \/ u = t
  BY <1>4, <1>5 DEF Complete
<1>11. ASSUME NEW p \in Sessions, submit'[p].at # "idle"
       PROVE  /\ p # q /\ submit'[p] = submit[p] /\ FormOf(p)' = FormOf(p) /\ FormOf(p) \in Case(cfg)!Tasks
              /\ RunOf(p)' = RunOf(p) /\ (Storing(p)' <=> Storing(p))
  <2>1. p # q /\ submit'[p] = submit[p] /\ FormOf(p) \in Case(cfg)!Tasks
    BY <1>7, <1>11 DEF SubmitSound
  <2> QED BY <1>8, <2>1 DEF FormOf, RunOf, Storing
<1>12. ASSUME NEW p \in Sessions \ {q}, Storing(p)
       PROVE  /\ FormOf(p) # t
              /\ submit[p].ready /\ submit[q].ready => RunOf(p) # k
  BY <1>2, <1>3, <1>12 DEF SubmitsApart, Storing
<1>13. \A u \in Case(cfg)!Tasks : TaskSound(u)'
  <2>1. TaskSound(t)'
    <3>1. submit[q].answers # None
      BY <1>4 DEF CaseParameters
    <3> QED BY <1>4, <1>5, <1>6, <3>1 DEF TaskSound, Complete, Case!Attempts
  <2>2. \A u \in Case(cfg)!Tasks \ {t} : TaskSound(u)'
    BY <1>5, <1>6 DEF TaskSound, Complete
  <2> QED BY <2>1, <2>2
<1>14. ASSUME NEW p \in Sessions PROVE SubmitSound(cfg, p)'
  <2>1. CASE submit'[p].at = "idle"
    BY <2>1 DEF SubmitSound, Storing
  <2>2. CASE submit'[p].at # "idle"
    <3>1. p \in Sessions \ {q} /\ submit'[p] = submit[p] /\ FormOf(p)' = FormOf(p) /\ RunOf(p)' = RunOf(p)
          /\ (Storing(p)' <=> Storing(p)) /\ FormOf(p) \in Case(cfg)!Tasks
      BY <1>11, <2>2
    <3>2. RunOf(p) \in Case(cfg)!Attempts
      BY <1>1, <2>2, <3>1 DEF SubmitSound, RunOf, Case!TypeOK, Case!TaskRow, Case!Attempts
    <3>3. Storing(p) => /\ submission'[FormOf(p)] = None
                        /\ submit[p].ready => run'["scoring"][RunOf(p)] = "absent"
      BY <1>5, <1>6, <1>12, <3>1, <3>2 DEF SubmitSound
    <3> QED BY <3>1, <3>3 DEF SubmitSound
  <2> QED BY <2>1, <2>2
<1>15. SubmitsApart'
  <2>1. ASSUME NEW p \in Sessions, NEW r \in Sessions, p # r, Storing(p)', Storing(r)'
        PROVE  /\ FormOf(p)' # FormOf(r)'
               /\ submit'[p].ready /\ submit'[r].ready => RunOf(p)' # RunOf(r)'
    <3>1. submit'[p].at # "idle" /\ submit'[r].at # "idle"
      BY <2>1 DEF Storing
    <3> QED BY <1>11, <2>1, <3>1 DEF SubmitsApart
  <2> QED BY <2>1 DEF SubmitsApart
<1>16. \A s \in Case(cfg)!Stages, j \in Case(cfg)!Attempts : FinalizerSound(cfg, s, j)'
  <2>1. ASSUME NEW s \in Case(cfg)!Stages, NEW j \in Case(cfg)!Attempts PROVE finalizer[s][j].open => run'[s][j] = run[s][j]
    BY <1>4, <1>6 DEF FinalizerSound, Case!Stages
  <2>2. \A s \in Case(cfg)!Stages, j \in Case(cfg)!Attempts : finalizer[s][j].created \subseteq Case(cfg)!Tasks
    BY <1>1, CaseShapes
  <2> QED BY <1>2, <1>8, <1>9, <2>1, <2>2 DEF FinalizerSound
<1>17. CreatedApart(cfg)' /\ Case(cfg)!OneTaskPerReviewer'
  BY <1>2, <1>9 DEF CreatedApart, Case!OneTaskPerReviewer
<1>18. ASSUME NEW j \in Case(cfg)!Attempts PROVE Case(cfg)!AllAnswered(j) => Case(cfg)!AllAnswered(j)'
  BY <1>9, <1>10 DEF Case!AllAnswered, Complete, Case!TasksOf
<1>19. ASSUME NEW j \in Case(cfg)!Attempts PROVE Once(cfg, j)'
  <2>1. retries + outages = 0 /\ run'["scoring"][j] # "absent" => Case(cfg)!AllAnswered(j)'
    <3>1. CASE run["scoring"][j] # "absent"
      BY <1>18, <3>1 DEF Once
    <3>2. CASE run["scoring"][j] = "absent" /\ run'["scoring"][j] # "absent"
      <4>1. j = k /\ submit[q].ready
        BY <1>6, <3>2
      <4>2. retries + outages = 0 => \A u \in Case(cfg)!TasksOf(k) : Complete(u) \/ u = t
        BY <1>2, <1>3, <4>1 DEF Once, Storing
      <4>3. retries + outages = 0 => \A u \in Case(cfg)!TasksOf(k) : Complete(u)'
        BY <1>10, <4>2 DEF Case!TasksOf
      <4> QED BY <1>4, <1>9, <4>1, <4>3 DEF Case!AllAnswered, Complete
    <3> QED BY <3>1, <3>2
  <2>2. ASSUME retries + outages = 0, NEW p \in Sessions, Storing(p)', RunOf(p)' = j, submit'[p].ready
        PROVE  \A u \in Case(cfg)!TasksOf(j)' \ {FormOf(p)'} : Complete(u)'
    <3>1. submit'[p].at # "idle"
      BY <2>2 DEF Storing
    <3>2. /\ submit[p].ready /\ Storing(p) /\ RunOf(p) = j /\ FormOf(p)' = FormOf(p)
      BY <1>11, <2>2, <3>1
    <3>3. \A u \in Case(cfg)!TasksOf(j) \ {FormOf(p)} : Complete(u)
      BY <2>2, <3>2 DEF Once
    <3> QED BY <1>9, <1>10, <3>2, <3>3 DEF Case!TasksOf
  <2>3. retries + outages = 0 /\ Case(cfg)!TasksOf(j)' # {} => run'["intake"][j] = "succeeded"
    BY <1>6, <1>9 DEF Once
  <2> QED BY <1>2, <2>1, <2>2, <2>3 DEF Once
<1>20. ASSUME NEW j \in Case(cfg)!Attempts, j \notin overlapped PROVE CaseInTurn(cfg, j)'
  <2>1. ASSUME NEW p \in Sessions, Storing(p)', RunOf(p)' = j
        PROVE  /\ p # q /\ submit'[p] = submit[p] /\ FormOf(p)' = FormOf(p) /\ Storing(p) /\ RunOf(p) = j
               /\ j # k
    <3>1. submit'[p].at # "idle"
      BY <2>1 DEF Storing
    <3>2. p # q /\ submit'[p] = submit[p] /\ FormOf(p)' = FormOf(p) /\ Storing(p) /\ RunOf(p) = j
      BY <1>11, <2>1, <3>1
    <3>3. Storing(q) /\ RunOf(q) = k
      BY <1>2, <1>3 DEF Storing
    <3> QED BY <1>20, <3>2, <3>3 DEF CaseInTurn
  <2>2. \A p, r \in Sessions : Storing(p)' /\ RunOf(p)' = j /\ Storing(r)' /\ RunOf(r)' = j => p = r
    BY <1>20, <2>1 DEF CaseInTurn
  <2>3. ASSUME NEW p \in Sessions, Storing(p)', RunOf(p)' = j, ~submit'[p].ready
        PROVE  \/ run'["scoring"][j] # "absent"
               \/ \E u \in Case(cfg)!TasksOf(j)' \ {FormOf(p)'} : ~Complete(u)'
    <3>1. \/ run["scoring"][j] # "absent"
          \/ \E u \in Case(cfg)!TasksOf(j) \ {FormOf(p)} : ~Complete(u)
      BY <1>20, <2>1, <2>3 DEF CaseInTurn
    <3>2. CASE run["scoring"][j] # "absent"
      BY <1>6, <3>2
    <3>3. CASE \E u \in Case(cfg)!TasksOf(j) \ {FormOf(p)} : ~Complete(u)
      <4>1. PICK u \in Case(cfg)!TasksOf(j) \ {FormOf(p)} : ~Complete(u)
        BY <3>3
      <4>2. u # t /\ u \in Case(cfg)!Tasks
        BY <1>4, <2>1, <2>3, <4>1 DEF Case!TasksOf
      <4> QED BY <1>9, <1>10, <2>1, <2>3, <4>1, <4>2
    <3> QED BY <3>1, <3>2, <3>3
  <2>4. Case(cfg)!AllAnswered(j)' => run'["scoring"][j] # "absent"
    <3>1. CASE j = k /\ submit[q].ready
      BY <1>6, <3>1
    <3>2. CASE j = k /\ ~submit[q].ready
      <4>1. Storing(q) /\ RunOf(q) = k
        BY <1>2, <1>3 DEF Storing
      <4>2. \/ run["scoring"][k] # "absent"
            \/ \E u \in Case(cfg)!TasksOf(k) \ {t} : ~Complete(u)
        BY <1>3, <1>20, <3>2, <4>1 DEF CaseInTurn
      <4>3. ASSUME NEW u \in Case(cfg)!TasksOf(k) \ {t}, ~Complete(u) PROVE ~Case(cfg)!AllAnswered(k)'
        <5>1. ~Complete(u)' /\ u \in Case(cfg)!TasksOf(k)'
          BY <1>4, <1>9, <1>10, <4>3 DEF Case!TasksOf
        <5> QED BY <5>1 DEF Case!AllAnswered, Complete
      <4> QED BY <1>4, <1>6, <3>2, <4>2, <4>3
    <3>3. CASE j # k
      <4>1. Case(cfg)!AllAnswered(j)' => Case(cfg)!AllAnswered(j)
        <5>1. \A u \in Case(cfg)!TasksOf(j) : u # t /\ u \in Case(cfg)!Tasks
          BY <1>4, <3>3 DEF Case!TasksOf
        <5> QED BY <1>9, <1>10, <5>1 DEF Case!AllAnswered, Complete
      <4> QED BY <1>6, <1>20, <3>3, <4>1 DEF CaseInTurn
    <3> QED BY <3>1, <3>2, <3>3
  <2> QED BY <2>2, <2>3, <2>4 DEF CaseInTurn
<1>21. \A j \in Case(cfg)!Attempts : CaseInTurn(cfg, j)'
  BY <1>2, <1>20 DEF CaseInTurn
<1> QED BY <1>1, <1>2, <1>13, <1>14, <1>15, <1>16, <1>17, <1>19, <1>21 DEF LaunchSound

-----------------------------------------------------------------------------
(* The theorems.                                                           *)

\* A new case has no runs, tasks or answers.
LEMMA CaseStarts ==
  ASSUME NEW cfg, CaseParameters(cfg), Case(cfg)!Init
  PROVE  CInv(cfg)
<1>1. Case(cfg)!TypeOK
  BY NoneTyped DEF Case!Init, Case!TypeOK, Case!RunStatuses, CaseParameters
<1>2. /\ \A q \in Sessions : submit[q].at = "idle"
      /\ \A l \in cfg.launchers : launch[l].at = "idle"
      /\ \A s \in Case(cfg)!Stages, k \in Case(cfg)!Attempts : finalizer[s][k] = Case(cfg)!NoFinalizer /\ run[s][k] = "absent"
      /\ \A t \in Case(cfg)!Tasks : submission[t] = None /\ task[t] = Case(cfg)!NoTask
  BY DEF Case!Init, Case!NoSubmit, Case!NoLaunch
<1>3. \A t \in Case(cfg)!Tasks : task[t].run = 0 /\ task[t].status = "open" /\ task[t].response = None
  BY <1>2 DEF Case!NoTask
<1>4. \A k \in Case(cfg)!Attempts : Case(cfg)!TasksOf(k) = {}
  BY <1>3 DEF Case!TasksOf, Case!Attempts
<1>5. HandlersSound(cfg)
  BY <1>2 DEF HandlersSound, SubmitSound, SubmitsApart, FinalizerSound, CreatedApart, Case!NoFinalizer,
              Storing, Case!Stages
<1>6. CaseRowsSound(cfg)
  BY <1>2, <1>3, <1>4 DEF CaseRowsSound, TaskSound, Complete, Case!OneTaskPerReviewer, Once, CaseInTurn,
                          Case!AllAnswered, Storing, Case!Stages
<1> QED BY <1>1, <1>2, <1>5, <1>6 DEF CInv, LaunchSound

\* A stutter.
LEMMA Stutters ==
  ASSUME NEW cfg, CInv(cfg), UNCHANGED Case(cfg)!vars
  PROVE  CInv(cfg)'
<1>1. UNCHANGED <<case, run, assignees, task, submission, launch, submit, finalizer,
                  retries, outages, overlapped>>
  BY DEF Case!vars, Case!requestVars, Case!boundVars
<1>2. Case(cfg)!TypeOK' /\ \A l \in cfg.launchers : LaunchSound(cfg, l)'
  BY <1>1 DEF CInv, Case!TypeOK, LaunchSound
<1> QED BY <1>1, <1>2, RunMoves

\* Every step keeps the invariant.
LEMMA CaseContinues ==
  ASSUME NEW cfg, CaseParameters(cfg), CInv(cfg), [Case(cfg)!Next]_(Case(cfg)!vars)
  PROVE  CInv(cfg)'
<1>1. ASSUME NEW l \in cfg.launchers, \/ Case(cfg)!LaunchRead(l) \/ Case(cfg)!LaunchCount(l) \/ Case(cfg)!LaunchCreate(l)
                                      \/ Case(cfg)!LaunchSync(l) \/ Case(cfg)!LaunchRefused(l) \/ Case(cfg)!LaunchDies(l)
      PROVE  CInv(cfg)'
  BY <1>1, LaunchMoves
<1>2. ASSUME NEW s \in Case(cfg)!Stages, NEW k \in Case(cfg)!Attempts, Case(cfg)!RunStarts(s, k) \/ Case(cfg)!RetryRun(s, k) \/ Case(cfg)!RunLost(s, k)
      PROVE  CInv(cfg)'
  BY <1>2, QueueMoves
<1>3. ASSUME NEW s \in Case(cfg)!Stages, NEW k \in Case(cfg)!Attempts, Case(cfg)!FinalizeSuccess(s, k) \/ Case(cfg)!FinalizeFailure(s, k)
      PROVE  CInv(cfg)'
  BY <1>3, OpenMoves
<1>4. ASSUME NEW s \in Case(cfg)!Stages, NEW k \in Case(cfg)!Attempts, Case(cfg)!FinalizeCommit(s, k) PROVE CInv(cfg)'
  BY <1>4, CommitMoves
<1>5. ASSUME NEW q \in Sessions,
             (\E t \in Case(cfg)!Tasks, a \in cfg.answers : Case(cfg)!SubmitRead(q, t, a)) \/ Case(cfg)!SubmitRejected(q)
      PROVE  CInv(cfg)'
  BY <1>5, ReadMoves
<1>6. ASSUME NEW q \in Sessions, Case(cfg)!SubmitFlush(q) PROVE CInv(cfg)'
  BY <1>6, FlushMoves
<1>7. ASSUME NEW q \in Sessions, Case(cfg)!SubmitCommit(q) PROVE CInv(cfg)'
  BY <1>7, StoreMoves
<1>8. CASE UNCHANGED Case(cfg)!vars
  BY <1>8, Stutters
<1> QED BY <1>1, <1>2, <1>3, <1>4, <1>5, <1>6, <1>7, <1>8 DEF Case!Next

\* What the invariant says of a case.
LEMMA CaseShows ==
  ASSUME NEW cfg, CInv(cfg)
  PROVE  /\ Case(cfg)!TypeOK /\ Case(cfg)!OneTaskPerReviewer
         /\ Case(cfg)!AnswersInTurnScore /\ Case(cfg)!ScoringIsReviewed
<1>1. Case(cfg)!AnswersInTurnScore
  BY DEF CInv, CaseRowsSound, CaseInTurn, Case!AnswersInTurnScore
<1>2. Case(cfg)!ScoringIsReviewed
  BY DEF CInv, CaseRowsSound, Once, Case!ScoringIsReviewed, Case!AllAnswered
<1> QED BY <1>1, <1>2 DEF CInv, CaseRowsSound

\* No step replaces a stored answer.
LEMMA AnswersRemain ==
  ASSUME NEW cfg, CInv(cfg), Case(cfg)!Next
  PROVE  Case(cfg)!AnswersAreFinal
<1> USE DEF CInv, CaseRowsSound, HandlersSound
<1>1. \A t \in Case(cfg)!Tasks : task[t].response = submission[t]
  BY DEF TaskSound
<1>2. ASSUME NEW s \in Case(cfg)!Stages, NEW k \in Case(cfg)!Attempts, Case(cfg)!FinalizeCommit(s, k) PROVE Case(cfg)!AnswersAreFinal
  <2>1. submission' = submission /\ \A t \in Case(cfg)!Tasks \ finalizer[s][k].created : task'[t] = task[t]
    BY <1>2 DEF Case!FinalizeCommit
  <2>2. \A t \in Case(cfg)!Tasks : t \in finalizer[s][k].created => submission[t] = None
    BY DEF FinalizerSound, TaskSound
  <2> QED BY <1>1, <2>1, <2>2 DEF Case!AnswersAreFinal
<1>3. ASSUME NEW q \in Sessions, Case(cfg)!SubmitCommit(q) PROVE Case(cfg)!AnswersAreFinal
  <2>1. submit[q].task \in Case(cfg)!Tasks /\ submission[submit[q].task] = None
    BY <1>3 DEF Case!SubmitCommit, SubmitSound, Storing, FormOf
  <2>2. \A t \in Case(cfg)!Tasks \ {submit[q].task} : task'[t] = task[t] /\ submission'[t] = submission[t]
    BY <1>3, <2>1 DEF Case!SubmitCommit, Case!TypeOK
  <2> QED BY <1>1, <2>1, <2>2 DEF Case!AnswersAreFinal
<1>4. CASE UNCHANGED <<task, submission>>
  BY <1>1, <1>4 DEF Case!AnswersAreFinal
<1> QED BY <1>2, <1>3, <1>4
        DEF Case!Next, Case!LaunchRead, Case!LaunchCount, Case!LaunchCreate, Case!LaunchSync, Case!LaunchRefused, Case!LaunchDies,
            Case!RunStarts, Case!RetryRun, Case!RunLost, Case!FinalizeSuccess, Case!FinalizeFailure, Case!SubmitRead, Case!SubmitFlush,
            Case!SubmitRejected

\* CInv is inductive and holds of every reachable state of a case.
THEOREM CaseInvariance ==
  ASSUME NEW cfg, CaseParameters(cfg)
  PROVE  Case(cfg)!Spec => []CInv(cfg)
<1>1. Case(cfg)!Init => CInv(cfg)
  BY CaseStarts
<1>2. CInv(cfg) /\ [Case(cfg)!Next]_(Case(cfg)!vars) => CInv(cfg)'
  BY CaseContinues
<1> QED BY <1>1, <1>2, PTL DEF Case!Spec

\* No request or finalizer writes a value the tables do not know, and a case
\* is launched under a number of its own.
THEOREM CaseTypes ==
  ASSUME NEW cfg, CaseParameters(cfg)
  PROVE  Case(cfg)!Spec => []Case(cfg)!TypeOK
<1>1. CInv(cfg) => Case(cfg)!TypeOK
  BY CaseShows
<1> QED BY <1>1, CaseInvariance, PTL

\* persist_task_intents never asks one reviewer twice for one run, although
\* runs are executed again and describe the case differently, and finalizers
\* of several runs overlap.
THEOREM NobodyIsAskedTwice ==
  ASSUME NEW cfg, CaseParameters(cfg)
  PROVE  Case(cfg)!Spec => []Case(cfg)!OneTaskPerReviewer
<1>1. CInv(cfg) => Case(cfg)!OneTaskPerReviewer
  BY CaseShows
<1> QED BY <1>1, CaseInvariance, PTL

\* As long as no run is executed twice, a scoring run exists only when every
\* task of its intake run has been answered (queue_continuation_if_ready).
THEOREM ScoringIsAwaited ==
  ASSUME NEW cfg, CaseParameters(cfg)
  PROVE  Case(cfg)!Spec => []Case(cfg)!ScoringIsReviewed
<1>1. CInv(cfg) => Case(cfg)!ScoringIsReviewed
  BY CaseShows
<1> QED BY <1>1, CaseInvariance, PTL

\* The last answer queues the scoring run, unless two answers of this run have
\* been stored at the same time (submit_task).
THEOREM LastAnswerInTurnScores ==
  ASSUME NEW cfg, CaseParameters(cfg)
  PROVE  Case(cfg)!Spec => []Case(cfg)!AnswersInTurnScore
<1>1. CInv(cfg) => Case(cfg)!AnswersInTurnScore
  BY CaseShows
<1> QED BY <1>1, CaseInvariance, PTL

\* A stored answer is never replaced, and is the response shown with the task.
THEOREM AnswersStay ==
  ASSUME NEW cfg, CaseParameters(cfg)
  PROVE  Case(cfg)!Spec => [][Case(cfg)!AnswersAreFinal]_(Case(cfg)!vars)
<1>1. CInv(cfg) /\ Case(cfg)!Next => Case(cfg)!AnswersAreFinal
  BY AnswersRemain
<1> QED BY <1>1, CaseInvariance, PTL DEF Case!Spec

-----------------------------------------------------------------------------
(* Turns of the assistant: AssistantChat *)

ToolCalls == [tool : {"look", "apply", "run"}, names : SUBSET NodeNames]

\* What a model may answer, and at least one round.
ChatParameters ==
  /\ Texts \subseteq [empty : BOOLEAN, claim : BOOLEAN, arrows : BOOLEAN, pills : SUBSET NodeNames]
  /\ Batches \subseteq Seq(ToolCalls) \ {<<>>}
  /\ MaxRounds \in Nat \ {0} /\ MaxEdits \in Nat

\* A turn, beside the graph that is saved.
TurnSound(s, g) ==
  /\ s \in Chat!TurnState
  /\ s.at \in {"model", "tools"} => s.round < MaxRounds /\ (s.foreign \/ s.view.graph = g)
  /\ s.at = "tools" => s.calls # <<>>
  /\ s.at # "done" => s.run = 0
  /\ s.own > 0 => s.changed

QueuedRuns == [by : Sessions, graph : Nat, saved : Nat, foreign : BOOLEAN]

ChatInv ==
  /\ chatRow \in [revision : Nat \ {0}, graph : 0..MaxEdits] /\ saves \in 0..MaxEdits
  /\ DOMAIN turn = Sessions /\ turn = [t \in Sessions |-> turn[t]]
  /\ \A t \in Sessions : TurnSound(turn[t], chatRow.graph)
  /\ queued \in Seq(QueuedRuns) /\ Chat!RunIsOfSavedGraph
  /\ \A t \in Sessions : IF turn[t].run = 0 THEN Chat!RunsOf(t) = {} ELSE \E i : Chat!RunsOf(t) = {i}
  /\ messages \in Seq({"user", "assistant"} \X Sessions) /\ Chat!HistoryIsWhole

\* Two neighbours in a list.
LEMMA TwoRows ==
  ASSUME NEW S, NEW s \in Seq(S), NEW k \in Nat \ {0}, k < Len(s)
  PROVE  SubSeq(s, k, k + 1) = <<s[k], s[k + 1]>>
<1>1. PICK c \in Seq(S) : c = SubSeq(s, k, k + 1)
  <2>1. SubSeq(s, k, k + 1) \in Seq(S)
    <3>1. \A i \in k..(k + 1) : s[i] \in S
      OBVIOUS
    <3> QED BY <3>1, SubSeqProperties
  <2> QED BY <2>1
<1>2. Len(c) = 2 /\ c[1] = s[k] /\ c[2] = s[k + 1]
  BY <1>1
<1>3. c = <<c[1], c[2]>>
  BY <1>2
<1> QED BY <1>1, <1>2, <1>3

\* An exchange of two rows follows those stored so far.
LEMMA HistoryGrows ==
  ASSUME NEW t \in Sessions, messages \in Seq({"user", "assistant"} \X Sessions), Chat!HistoryIsWhole,
         messages' = messages \o Chat!Exchange(t)
  PROVE  messages' \in Seq({"user", "assistant"} \X Sessions) /\ Chat!HistoryIsWhole'
<1> DEFINE Row == {"user", "assistant"} \X Sessions
           n == Len(messages) \div 2
<1>1. PICK a \in Row, b \in Row : a = <<"user", t>> /\ b = <<"assistant", t>>
  OBVIOUS
<1>2. Chat!Exchange(t) = <<a, b>> /\ b[2] = t
  BY <1>1 DEF Chat!Exchange
<1> HIDE DEF Row
<1>3. PICK old \in Seq(Row) : old = messages
  BY DEF Row
<1>4. PICK new \in Seq(Row) : new = messages'
  <2>1. old \o <<a, b>> \in Seq(Row)
    OBVIOUS
  <2> QED BY <1>2, <1>3, <2>1
<1>5. /\ Len(new) = Len(old) + 2 /\ new[Len(old) + 1] = a /\ new[Len(old) + 2] = b
      /\ \A j \in 1..Len(old) : new[j] = old[j]
  <2>1. PICK e \in Seq(Row) : e = <<a, b>> /\ Len(e) = 2 /\ e[1] = a /\ e[2] = b
    <3>1. <<a, b>> \in Seq(Row) /\ Len(<<a, b>>) = 2
      OBVIOUS
    <3> QED BY <3>1
  <2>2. new = old \o e
    BY <1>2, <1>3, <1>4, <2>1
  <2>3. Len(new) = Len(old) + Len(e)
    BY <2>2
  <2>4. \A j \in 1..Len(new) : new[j] = IF j <= Len(old) THEN old[j] ELSE e[j - Len(old)]
    BY <2>2, <2>3
  <2> QED BY <2>1, <2>3, <2>4
<1>6. /\ Len(old) % 2 = 0 /\ n \in Nat /\ 2 * n = Len(old)
      /\ \A i \in 1..n : SubSeq(old, 2 * i - 1, 2 * i) = Chat!Exchange(old[2 * i][2])
  BY <1>3 DEF Chat!HistoryIsWhole
<1>7. Len(new) % 2 = 0 /\ Len(new) \div 2 = n + 1
  BY <1>5, <1>6
<1> HIDE DEF n
<1>8. ASSUME NEW i \in 1..(n + 1)
      PROVE  SubSeq(new, 2 * i - 1, 2 * i) = Chat!Exchange(new[2 * i][2])
  <2>0. PICK l \in Nat : l = Len(old) /\ Len(new) = l + 2 /\ 2 * n = l /\ n \in Nat
    BY <1>5, <1>6
  <2>1. CASE i \in 1..n
    <3>1. i \in Nat /\ 1 <= i /\ i <= n /\ n \in Nat
      BY <1>6, <2>1
    <3>2. PICK k \in Nat \ {0} : k = 2 * i - 1
      BY <3>1
    <3>3. k + 1 = 2 * i /\ k < 2 * n
      BY <3>1, <3>2
    <3>4. k < Len(old) /\ k < Len(new)
      <4>1. k < l /\ k < l + 2
        BY <2>0, <3>3
      <4> QED BY <2>0, <4>1
    <3>5. SubSeq(new, k, k + 1) = <<new[k], new[k + 1]>> /\ SubSeq(old, k, k + 1) = <<old[k], old[k + 1]>>
      BY <3>4, TwoRows
    <3>6. new[k] = old[k] /\ new[k + 1] = old[k + 1]
      <4>1. k \in 1..Len(old) /\ k + 1 \in 1..Len(old)
        <5>1. k \in 1..l /\ k + 1 \in 1..l
          BY <2>0, <3>4
        <5> QED BY <2>0, <5>1
      <4> QED BY <1>5, <4>1
    <3> QED BY <1>6, <2>1, <3>2, <3>3, <3>5, <3>6
  <2>2. CASE i = n + 1
    <3>1. PICK k \in Nat \ {0} : k = l + 1
      OBVIOUS
    <3>2. k = 2 * i - 1 /\ k + 1 = 2 * i /\ k < Len(new)
      <4>1. 2 * i = l + 2
        <5>1. PICK m \in Nat : m = n
          BY <2>0
        <5>2. i = m + 1 /\ 2 * m = l
          BY <2>0, <2>2, <5>1
        <5> QED BY <5>1, <5>2
      <4>2. k = 2 * i - 1 /\ k + 1 = 2 * i /\ k < l + 2
        BY <3>1, <4>1
      <4> QED BY <2>0, <4>2
    <3>3. SubSeq(new, k, k + 1) = <<new[k], new[k + 1]>>
      BY <3>2, TwoRows
    <3>4. new[k] = a /\ new[k + 1] = b
      <4>1. k = Len(old) + 1 /\ k + 1 = Len(old) + 2
        BY <2>0, <3>1
      <4> QED BY <1>5, <4>1
    <3> QED BY <1>2, <3>2, <3>3, <3>4
  <2> QED BY <1>6, <2>1, <2>2
<1>9. Chat!HistoryIsWhole'
  <2>1. \A x : Chat!Exchange(x)' = Chat!Exchange(x)
    BY DEF Chat!Exchange
  <2> QED BY <1>4, <1>7, <1>8, <2>1 DEF Chat!HistoryIsWhole
<1> QED BY <1>4, <1>9 DEF Row

-----------------------------------------------------------------------------
(* What a turn becomes *)

LEMMA RoundsSound ==
  ASSUME ChatParameters, NEW g, NEW s, TurnSound(s, g), s.at \in {"model", "tools"}
  PROVE  /\ TurnSound(Chat!NextRound(s), g) /\ Chat!NextRound(s).run = 0
         /\ Chat!NextRound(s).at # "new"
<1>1. s \in Chat!TurnState /\ s.round < MaxRounds /\ s.run = 0 /\ MaxRounds \in Nat /\ s.round \in Nat
  BY DEF TurnSound, ChatParameters, Chat!TurnState
<1>2. CASE s.round + 1 = MaxRounds
  <2>1. PICK new : new = [s EXCEPT !.at = "done", !.reply = "exhausted"]
    OBVIOUS
  <2>2. Chat!NextRound(s) = new
    BY <1>2, <2>1 DEF Chat!NextRound
  <2>3. new \in Chat!TurnState /\ new.at = "done" /\ new.run = 0 /\ new.own = s.own /\ new.changed = s.changed
    BY <1>1, <2>1 DEF Chat!TurnState, Chat!Replies
  <2> QED BY <2>2, <2>3 DEF TurnSound
<1>3. CASE s.round + 1 # MaxRounds
  <2>1. PICK new : new = [s EXCEPT !.at = "model", !.round = s.round + 1]
    OBVIOUS
  <2>2. Chat!NextRound(s) = new
    BY <1>3, <2>1 DEF Chat!NextRound
  <2>3. s.round + 1 \in 0..MaxRounds /\ s.round + 1 < MaxRounds
    BY <1>1, <1>3
  <2>4. /\ new \in Chat!TurnState /\ new.at = "model" /\ new.run = 0 /\ new.own = s.own
        /\ new.changed = s.changed /\ new.round < MaxRounds /\ new.foreign = s.foreign /\ new.view = s.view
    BY <1>1, <2>1, <2>3 DEF Chat!TurnState
  <2> QED BY <2>2, <2>4 DEF TurnSound
<1> QED BY <1>2, <1>3

LEMMA ExecutedSound ==
  ASSUME ChatParameters, NEW g, NEW s, TurnSound(s, g), s.at = "tools"
  PROVE  /\ TurnSound(Chat!Executed(s), g) /\ Chat!Executed(s).run = 0
         /\ Chat!Executed(s).at # "new"
<1>1. PICK rest : rest = [s EXCEPT !.calls = Tail(s.calls)]
  OBVIOUS
<1>2. /\ rest \in Chat!TurnState /\ rest.at = "tools" /\ rest.run = s.run /\ rest.own = s.own
      /\ rest.changed = s.changed /\ rest.round = s.round /\ rest.foreign = s.foreign /\ rest.view = s.view
  <2>1. \A C : s.calls \in Seq(C) /\ s.calls # <<>> => Tail(s.calls) \in Seq(C)
    OBVIOUS
  <2> QED BY <1>1, <2>1 DEF TurnSound, Chat!TurnState
<1>3. CASE rest.calls = <<>>
  <2>1. Chat!Executed(s) = Chat!NextRound(rest)
    BY <1>1, <1>3 DEF Chat!Executed
  <2>2. PICK waiting : waiting = [rest EXCEPT !.at = "model"]
    OBVIOUS
  <2>3. Chat!NextRound(rest) = Chat!NextRound(waiting)
    BY <1>2, <2>2 DEF Chat!NextRound, Chat!TurnState
  <2>4. TurnSound(waiting, g) /\ waiting.at = "model"
    BY <1>2, <2>2 DEF TurnSound, Chat!TurnState
  <2> QED BY <2>1, <2>3, <2>4, RoundsSound
<1>4. CASE rest.calls # <<>>
  <2>1. Chat!Executed(s) = rest
    BY <1>1, <1>4 DEF Chat!Executed
  <2> QED BY <1>2, <1>4, <2>1 DEF TurnSound
<1> QED BY <1>3, <1>4

\* Somebody else has saved the graph.
LEMMA ForeignSound ==
  ASSUME NEW g, NEW h, NEW s, TurnSound(s, g), NEW flag \in BOOLEAN, s.at = "new" \/ flag
  PROVE  /\ TurnSound([s EXCEPT !.foreign = flag], h)
         /\ [s EXCEPT !.foreign = flag].run = s.run
<1>1. PICK new : new = [s EXCEPT !.foreign = flag]
  OBVIOUS
<1>2. /\ new \in Chat!TurnState /\ new.at = s.at /\ new.run = s.run /\ new.own = s.own
      /\ new.changed = s.changed /\ new.round = s.round /\ new.foreign = flag /\ new.calls = s.calls
  BY <1>1 DEF TurnSound, Chat!TurnState
<1> QED BY <1>1, <1>2 DEF TurnSound

\* Rows, after a request that ended with a reply, or not.
LEMMA RowsSound ==
  ASSUME NEW t \in Sessions, ChatInv, NEW new, messages' = IF Chat!Stored(new) THEN messages \o Chat!Exchange(t) ELSE messages
  PROVE  messages' \in Seq({"user", "assistant"} \X Sessions) /\ Chat!HistoryIsWhole'
<1>1. CASE Chat!Stored(new)
  BY <1>1, HistoryGrows DEF ChatInv
<1>2. CASE ~Chat!Stored(new)
  <2>1. messages' = messages
    BY <1>2
  <2> QED BY <2>1 DEF ChatInv, Chat!HistoryIsWhole, Chat!Exchange
<1> QED BY <1>1, <1>2

\* A step of one turn that saves nothing and queues nothing.
LEMMA TurnGoes ==
  ASSUME ChatInv, NEW t \in Sessions, NEW new, TurnSound(new, chatRow.graph), new.run = turn[t].run,
         Chat!Ends(t, new) \/ (Chat!Goes(t, new) /\ messages' = messages),
         UNCHANGED <<chatRow, saves, queued>>
  PROVE  ChatInv'
<1>1. turn' = [turn EXCEPT ![t] = new]
  BY DEF Chat!Ends, Chat!Goes
<1>2. DOMAIN turn' = Sessions /\ turn'[t] = new /\ \A u \in Sessions : u # t => turn'[u] = turn[u]
  BY <1>1 DEF ChatInv
<1>3. turn' = [u \in Sessions |-> turn'[u]]
  BY <1>1, <1>2 DEF ChatInv
<1>4. \A u \in Sessions : TurnSound(turn'[u], chatRow'.graph)
  BY <1>2 DEF ChatInv
<1>5. \A u \in Sessions : Chat!RunsOf(u)' = Chat!RunsOf(u) /\ turn'[u].run = turn[u].run
  BY <1>2 DEF Chat!RunsOf
<1>6. messages' \in Seq({"user", "assistant"} \X Sessions) /\ Chat!HistoryIsWhole'
  <2>1. CASE Chat!Ends(t, new)
    BY <2>1, RowsSound DEF Chat!Ends
  <2>2. CASE messages' = messages
    BY <2>2 DEF ChatInv, Chat!HistoryIsWhole, Chat!Exchange
  <2> QED BY <2>1, <2>2
<1>7. Chat!RunIsOfSavedGraph'
  BY DEF ChatInv, Chat!RunIsOfSavedGraph
<1>8. \A u \in Sessions : IF turn'[u].run = 0 THEN Chat!RunsOf(u)' = {} ELSE \E i : Chat!RunsOf(u)' = {i}
  BY <1>5 DEF ChatInv
<1> QED BY <1>2, <1>3, <1>4, <1>6, <1>7, <1>8 DEF ChatInv

-----------------------------------------------------------------------------
(* The steps *)

LEMMA AskHonest ==
  ASSUME ChatParameters, ChatInv, NEW t \in Sessions, Chat!Ask(t)
  PROVE  ChatInv'
<1>1. PICK new : new = [Chat!NewTurn EXCEPT !.at = "model", !.view = chatRow]
  OBVIOUS
<1>2. turn[t].at = "new" /\ Chat!Goes(t, new) /\ UNCHANGED <<chatRow, saves, queued>>
      /\ messages' = IF Chat!Stored(new) THEN Append(messages, <<"user", t>>) ELSE messages
  BY <1>1 DEF Chat!Ask
<1>3. chatRow \in [revision : Nat, graph : Nat]
  <2>1. 0..MaxEdits \subseteq Nat
    BY DEF ChatParameters
  <2> QED BY <2>1 DEF ChatInv
<1>4. /\ new \in Chat!TurnState /\ new.at = "model" /\ new.run = 0 /\ new.own = 0 /\ new.round = 0
      /\ new.view = chatRow
  <2>1. Chat!NewTurn \in Chat!TurnState /\ Chat!NewTurn.run = 0 /\ Chat!NewTurn.own = 0 /\ Chat!NewTurn.round = 0
    BY DEF Chat!NewTurn, Chat!TurnState, Chat!Replies, ChatParameters
  <2>2. PICK start \in Chat!TurnState : start = Chat!NewTurn
    BY <2>1
  <2>3. new = [start EXCEPT !.at = "model", !.view = chatRow]
    BY <1>1, <2>2
  <2> QED BY <1>3, <2>1, <2>2, <2>3 DEF Chat!TurnState
<1>5. TurnSound(new, chatRow.graph)
  BY <1>4 DEF TurnSound, ChatParameters
<1>6. new.run = turn[t].run
  BY <1>2, <1>4 DEF ChatInv, TurnSound
<1>7. messages' = messages
  BY <1>2, <1>4 DEF Chat!Stored
<1> QED BY <1>2, <1>5, <1>6, <1>7, TurnGoes

LEMMA FailHonest ==
  ASSUME ChatParameters, ChatInv, NEW t \in Sessions, Chat!ProviderFails(t)
  PROVE  ChatInv'
<1>1. PICK s : s = turn[t]
  OBVIOUS
<1>2. PICK new : new = [s EXCEPT !.at = "done", !.reply = "error"]
  OBVIOUS
<1>3. s.at = "model" /\ Chat!Ends(t, new) /\ UNCHANGED <<chatRow, saves, queued>> /\ TurnSound(s, chatRow.graph)
  BY <1>1, <1>2 DEF Chat!ProviderFails, ChatInv
<1>4. /\ new \in Chat!TurnState /\ new.at = "done" /\ new.run = s.run /\ new.own = s.own
      /\ new.changed = s.changed
  BY <1>2, <1>3 DEF TurnSound, Chat!TurnState, Chat!Replies
<1>5. TurnSound(new, chatRow.graph)
  BY <1>3, <1>4 DEF TurnSound
<1> QED BY <1>1, <1>3, <1>4, <1>5, TurnGoes

LEMMA AnswerHonest ==
  ASSUME ChatParameters, ChatInv, NEW t \in Sessions, NEW text \in Texts, Chat!Answer(t, text)
  PROVE  ChatInv'
<1>1. PICK s : s = turn[t]
  OBVIOUS
<1>2. s.at = "model" /\ TurnSound(s, chatRow.graph) /\ UNCHANGED <<chatRow, saves, queued>> /\ s.run = 0
  BY <1>1 DEF Chat!Answer, ChatInv, TurnSound
<1> DEFINE reply(kind) == [s EXCEPT !.at = "done", !.reply = kind, !.text = text]
<1>3. \A kind \in {"error", "safe", "text"} : TurnSound(reply(kind), chatRow.graph) /\ reply(kind).run = 0
  <2> SUFFICES ASSUME NEW kind \in {"error", "safe", "text"}
               PROVE  TurnSound(reply(kind), chatRow.graph) /\ reply(kind).run = 0
    OBVIOUS
  <2>1. PICK new : new = reply(kind)
    OBVIOUS
  <2>2. new \in Chat!TurnState /\ new.at = "done" /\ new.run = 0 /\ new.own = s.own /\ new.changed = s.changed
    BY <1>2, <2>1 DEF TurnSound, Chat!TurnState, Chat!Replies
  <2>3. TurnSound(new, chatRow.graph)
    BY <1>2, <2>2 DEF TurnSound
  <2> QED BY <2>1, <2>2, <2>3
<1>4. PICK new : Chat!Ends(t, new) /\ (new = Chat!NextRound(s) \/ \E kind \in {"error", "safe", "text"} : new = reply(kind))
  BY <1>1 DEF Chat!Answer
<1>5. TurnSound(new, chatRow.graph) /\ new.run = s.run
  BY <1>2, <1>3, <1>4, RoundsSound
<1> QED BY <1>1, <1>2, <1>4, <1>5, TurnGoes

LEMMA CallHonest ==
  ASSUME ChatParameters, ChatInv, NEW t \in Sessions, NEW batch \in Batches, Chat!Call(t, batch)
  PROVE  ChatInv'
<1>1. PICK s : s = turn[t]
  OBVIOUS
<1>2. PICK new : new = [s EXCEPT !.at = "tools", !.calls = batch]
  OBVIOUS
<1>3. /\ s.at = "model" /\ Chat!Goes(t, new) /\ UNCHANGED <<chatRow, saves, queued, messages>>
      /\ TurnSound(s, chatRow.graph)
  BY <1>1, <1>2 DEF Chat!Call, ChatInv
<1>4. batch \in Seq(UNION {{b[i] : i \in DOMAIN b} : b \in Batches}) /\ batch # <<>>
  <2>1. batch \in Seq(ToolCalls) /\ batch # <<>>
    BY DEF ChatParameters
  <2>2. \A i \in DOMAIN batch : batch[i] \in UNION {{b[j] : j \in DOMAIN b} : b \in Batches}
    OBVIOUS
  <2>3. PICK All : All = UNION {{b[j] : j \in DOMAIN b} : b \in Batches}
    OBVIOUS
  <2>4. \A i \in DOMAIN batch : batch[i] \in All
    BY <2>2, <2>3
  <2>5. batch \in Seq(All)
    BY <2>1, <2>4
  <2> QED BY <2>1, <2>3, <2>5
<1>5. /\ new \in Chat!TurnState /\ new.at = "tools" /\ new.run = s.run /\ new.own = s.own /\ new.calls = batch
      /\ new.changed = s.changed /\ new.round = s.round /\ new.foreign = s.foreign /\ new.view = s.view
  BY <1>2, <1>3, <1>4 DEF TurnSound, Chat!TurnState
<1>6. TurnSound(new, chatRow.graph)
  BY <1>3, <1>4, <1>5 DEF TurnSound
<1> QED BY <1>1, <1>3, <1>5, <1>6, TurnGoes

LEMMA LookHonest ==
  ASSUME ChatParameters, ChatInv, NEW t \in Sessions, Chat!Look(t)
  PROVE  ChatInv'
<1>1. PICK s : s = turn[t]
  OBVIOUS
<1>2. /\ s.at = "tools" /\ TurnSound(s, chatRow.graph) /\ UNCHANGED <<chatRow, saves, queued>>
      /\ Chat!Ends(t, Chat!Executed([s EXCEPT !.allowed = s.allowed \cup Head(s.calls).names]))
  BY <1>1 DEF Chat!Look, Chat!Calls, ChatInv
<1>3. PICK seen : seen = [s EXCEPT !.allowed = s.allowed \cup Head(s.calls).names]
  OBVIOUS
<1>4. Head(s.calls).names \in SUBSET NodeNames
  <2>1. PICK All : All = UNION {{b[j] : j \in DOMAIN b} : b \in Batches}
    OBVIOUS
  <2>2. s.calls \in Seq(All) /\ s.calls # <<>>
    BY <1>2, <2>1 DEF TurnSound, Chat!TurnState
  <2>3. Head(s.calls) \in All
    BY <2>2
  <2>4. \A call \in All : call \in ToolCalls
    <3>1. \A b \in Batches : \A j \in DOMAIN b : b[j] \in ToolCalls
      BY DEF ChatParameters
    <3> QED BY <2>1, <3>1
  <2> QED BY <2>3, <2>4 DEF ToolCalls
<1>5. /\ seen \in Chat!TurnState /\ seen.at = "tools" /\ seen.run = s.run /\ seen.own = s.own /\ seen.calls = s.calls
      /\ seen.changed = s.changed /\ seen.round = s.round /\ seen.foreign = s.foreign /\ seen.view = s.view
  BY <1>2, <1>3, <1>4 DEF TurnSound, Chat!TurnState
<1>6. TurnSound(seen, chatRow.graph)
  BY <1>2, <1>5 DEF TurnSound
<1>7. TurnSound(Chat!Executed(seen), chatRow.graph) /\ Chat!Executed(seen).run = 0
  BY <1>5, <1>6, ExecutedSound
<1>8. s.run = 0
  BY <1>2 DEF TurnSound
<1> QED BY <1>1, <1>2, <1>3, <1>7, <1>8, TurnGoes

\* The graph is saved: by a turn, which sees it, or by the editor.
LEMMA SaveHonest ==
  ASSUME ChatParameters, ChatInv, saves < MaxEdits, saves' = saves + 1,
         chatRow' \in [revision : Nat \ {0}, graph : 0..MaxEdits], UNCHANGED queued,
         turn' = [u \in Sessions |-> turn'[u]],
         \A u \in Sessions : TurnSound(turn'[u], chatRow'.graph) /\ turn'[u].run = turn[u].run,
         messages' \in Seq({"user", "assistant"} \X Sessions), Chat!HistoryIsWhole'
  PROVE  ChatInv'
<1>1. saves' \in 0..MaxEdits
  BY DEF ChatInv, ChatParameters
<1>2. DOMAIN turn' = Sessions
  OBVIOUS
<1>3. \A u \in Sessions : Chat!RunsOf(u)' = Chat!RunsOf(u)
  BY DEF Chat!RunsOf
<1>4. \A u \in Sessions : IF turn'[u].run = 0 THEN Chat!RunsOf(u)' = {} ELSE \E i : Chat!RunsOf(u)' = {i}
  <2>1. \A u \in Sessions : Chat!RunsOf(u)' = Chat!RunsOf(u) /\ turn'[u].run = turn[u].run
    BY <1>3
  <2>2. \A u \in Sessions : IF turn[u].run = 0 THEN Chat!RunsOf(u) = {} ELSE \E i : Chat!RunsOf(u) = {i}
    BY DEF ChatInv
  <2> HIDE DEF TurnSound
  <2> QED BY <2>1, <2>2
<1>5. Chat!RunIsOfSavedGraph' /\ queued' \in Seq(QueuedRuns)
  BY DEF ChatInv, Chat!RunIsOfSavedGraph
<1> QED BY <1>1, <1>2, <1>4, <1>5 DEF ChatInv

LEMMA ApplyHonest ==
  ASSUME ChatParameters, ChatInv, NEW t \in Sessions, Chat!Apply(t)
  PROVE  ChatInv'
<1>1. PICK s : s = turn[t]
  OBVIOUS
<1>2. s.at = "tools" /\ TurnSound(s, chatRow.graph) /\ UNCHANGED queued /\ s.run = 0
  BY <1>1 DEF Chat!Apply, Chat!Calls, ChatInv, TurnSound
<1>3. PICK r : r = [revision |-> s.view.revision + 1, graph |-> saves + 1]
  OBVIOUS
<1>4. PICK edited : edited = [s EXCEPT !.changed = Chat!ChangedAfter(s, TRUE), !.own = s.own + 1,
                                       !.view = Chat!ViewAfterSave(s, r), !.foreign = FALSE]
  OBVIOUS
<1>5. PICK refused : refused = [s EXCEPT !.changed = Chat!ChangedAfter(s, FALSE)]
  OBVIOUS
<1>6. \/ /\ saves < MaxEdits /\ saves' = saves + 1 /\ chatRow' = r
         /\ turn' = Chat!SeenByOthers(t, Chat!Executed(edited))
         /\ messages' = IF Chat!Stored(Chat!Executed(edited)) THEN messages \o Chat!Exchange(t) ELSE messages
      \/ Chat!Ends(t, Chat!Executed(refused)) /\ UNCHANGED <<chatRow, saves>>
  BY <1>1, <1>3, <1>4, <1>5 DEF Chat!Apply
<1>7. CASE Chat!Ends(t, Chat!Executed(refused)) /\ UNCHANGED <<chatRow, saves>>
  <2>1. s.changed \in BOOLEAN /\ Chat!ChangedAfter(s, FALSE) = s.changed
    BY <1>2 DEF TurnSound, Chat!TurnState, Chat!ChangedAfter
  <2>2. refused = s
    BY <1>2, <1>5, <2>1 DEF TurnSound, Chat!TurnState
  <2>3. TurnSound(Chat!Executed(s), chatRow.graph) /\ Chat!Executed(s).run = 0
    BY <1>2, ExecutedSound
  <2> QED BY <1>1, <1>2, <1>7, <2>2, <2>3, TurnGoes
<1>8. CASE saves < MaxEdits /\ saves' = saves + 1 /\ chatRow' = r
           /\ turn' = Chat!SeenByOthers(t, Chat!Executed(edited))
           /\ messages' = IF Chat!Stored(Chat!Executed(edited)) THEN messages \o Chat!Exchange(t) ELSE messages
  <2>1. s.own \in Nat /\ s.view.revision \in Nat /\ saves \in Nat /\ MaxEdits \in Nat
    BY <1>2 DEF TurnSound, Chat!TurnState, ChatInv, ChatParameters
  <2>2. r \in [revision : Nat \ {0}, graph : 0..MaxEdits] /\ r \in [revision : Nat, graph : Nat]
    BY <1>3, <1>8, <2>1
  <2>3. Chat!ChangedAfter(s, TRUE) = TRUE /\ Chat!ViewAfterSave(s, r) = r
    BY DEF Chat!ChangedAfter, Chat!ViewAfterSave
  <2>4. edited = [s EXCEPT !.changed = TRUE, !.own = s.own + 1, !.view = r, !.foreign = FALSE]
    BY <1>4, <2>3
  <2>5. /\ edited \in Chat!TurnState /\ edited.at = "tools" /\ edited.run = s.run /\ edited.changed = TRUE
        /\ edited.calls = s.calls /\ edited.round = s.round /\ edited.view = r
    <3>1. PICK yes \in BOOLEAN, no \in BOOLEAN : yes = TRUE /\ no = FALSE
      OBVIOUS
    <3>2. PICK n \in Nat : n = s.own + 1
      BY <2>1
    <3>3. edited = [s EXCEPT !.changed = yes, !.own = n, !.view = r, !.foreign = no]
      BY <2>4, <3>1, <3>2
    <3>4. s \in Chat!TurnState /\ s.at = "tools"
      BY <1>2 DEF TurnSound
    <3>5. /\ edited \in Chat!TurnState /\ edited.at = "tools" /\ edited.run = s.run /\ edited.changed = yes
          /\ edited.calls = s.calls /\ edited.round = s.round /\ edited.view = r
      BY <2>2, <3>3, <3>4 DEF Chat!TurnState
    <3> QED BY <3>1, <3>5
  <2>6. TurnSound(edited, r.graph)
    BY <1>2, <2>5 DEF TurnSound
  <2>7. TurnSound(Chat!Executed(edited), r.graph) /\ Chat!Executed(edited).run = 0
    BY <2>5, <2>6, ExecutedSound
  <2>8. PICK by : by = Chat!Executed(edited)
    OBVIOUS
  <2>9. turn' = [u \in Sessions |-> IF u = t THEN by ELSE [turn[u] EXCEPT !.foreign = TRUE]]
    BY <1>8, <2>8 DEF Chat!SeenByOthers
  <2>10. turn' = [u \in Sessions |-> turn'[u]]
    BY <2>9
  <2>11. ASSUME NEW u \in Sessions
         PROVE  TurnSound(turn'[u], chatRow'.graph) /\ turn'[u].run = turn[u].run
    <3>1. CASE u = t
      BY <1>1, <1>2, <1>8, <2>7, <2>8, <2>9, <3>1
    <3>2. CASE u # t
      <4>1. TurnSound(turn[u], chatRow.graph)
        BY DEF ChatInv
      <4>2. PICK flag \in BOOLEAN : flag = TRUE
        OBVIOUS
      <4>3. turn'[u] = [turn[u] EXCEPT !.foreign = flag] /\ (turn[u].at = "new" \/ flag)
        BY <2>9, <3>2, <4>2
      <4> QED BY <4>1, <4>3, ForeignSound
    <3> QED BY <3>1, <3>2
  <2>12. messages' \in Seq({"user", "assistant"} \X Sessions) /\ Chat!HistoryIsWhole'
    BY <1>8, RowsSound
  <2> QED BY <1>2, <1>8, <2>2, <2>10, <2>11, <2>12, SaveHonest
<1> QED BY <1>6, <1>7, <1>8

LEMMA EditorHonest ==
  ASSUME ChatParameters, ChatInv, Chat!EditorSaves
  PROVE  ChatInv'
<1>1. /\ saves < MaxEdits /\ saves' = saves + 1 /\ UNCHANGED <<queued, messages>>
      /\ chatRow' = [revision |-> chatRow.revision + 1, graph |-> saves + 1]
      /\ turn' = [u \in Sessions |-> [turn[u] EXCEPT !.foreign = turn[u].at # "new"]]
  BY DEF Chat!EditorSaves
<1>2. chatRow' \in [revision : Nat \ {0}, graph : 0..MaxEdits]
  BY <1>1 DEF ChatInv, ChatParameters
<1>3. turn' = [u \in Sessions |-> turn'[u]]
  BY <1>1
<1>4. ASSUME NEW u \in Sessions
      PROVE  TurnSound(turn'[u], chatRow'.graph) /\ turn'[u].run = turn[u].run
  <2>1. TurnSound(turn[u], chatRow.graph)
    BY DEF ChatInv
  <2>2. PICK flag \in BOOLEAN : flag = (turn[u].at # "new")
    OBVIOUS
  <2>3. turn'[u] = [turn[u] EXCEPT !.foreign = flag] /\ (turn[u].at = "new" \/ flag)
    BY <1>1, <2>2
  <2> QED BY <2>1, <2>3, ForeignSound
<1>5. messages' \in Seq({"user", "assistant"} \X Sessions) /\ Chat!HistoryIsWhole'
  BY <1>1 DEF ChatInv, Chat!HistoryIsWhole, Chat!Exchange
<1> QED BY <1>1, <1>2, <1>3, <1>4, <1>5, SaveHonest

\* The first run of a turn ends it.
LEMMA RunHonest ==
  ASSUME ChatParameters, ChatInv, NEW t \in Sessions, Chat!RunCurrent(t)
  PROVE  ChatInv'
<1>1. PICK s : s = turn[t]
  OBVIOUS
<1>2. PICK new : new = [s EXCEPT !.run = 1, !.at = "done", !.reply = "queued", !.calls = <<>>]
  OBVIOUS
<1>3. PICK entry : entry = [by |-> t, graph |-> s.view.graph, saved |-> chatRow.graph, foreign |-> s.foreign]
  OBVIOUS
<1>4. s.at = "tools" /\ TurnSound(s, chatRow.graph) /\ UNCHANGED <<chatRow, saves>> /\ s.run = 0
  BY <1>1 DEF Chat!RunCurrent, Chat!Calls, ChatInv, TurnSound
<1>5. Chat!AfterRun([s EXCEPT !.run = 1]) = new
  BY <1>2 DEF Chat!AfterRun
<1>6. \/ queued' = Append(queued, entry) /\ Chat!Ends(t, new)
      \/ Chat!Ends(t, Chat!Executed(s)) /\ UNCHANGED queued
  BY <1>1, <1>3, <1>5 DEF Chat!RunCurrent
<1>7. CASE Chat!Ends(t, Chat!Executed(s)) /\ UNCHANGED queued
  <2>1. TurnSound(Chat!Executed(s), chatRow.graph) /\ Chat!Executed(s).run = 0
    BY <1>4, ExecutedSound
  <2> QED BY <1>1, <1>4, <1>7, <2>1, TurnGoes
<1>8. CASE queued' = Append(queued, entry) /\ Chat!Ends(t, new)
  <2>1. /\ new \in Chat!TurnState /\ new.at = "done" /\ new.run = 1 /\ new.own = s.own /\ new.changed = s.changed
    <3>1. \A C : <<>> \in Seq(C)
      OBVIOUS
    <3> QED BY <1>2, <1>4, <3>1 DEF TurnSound, Chat!TurnState, Chat!Replies
  <2>2. TurnSound(new, chatRow.graph)
    BY <1>4, <2>1 DEF TurnSound
  <2>3. entry \in QueuedRuns /\ (~entry.foreign => entry.graph = entry.saved) /\ entry.by = t
    <3>1. chatRow.graph \in Nat /\ s.view.graph \in Nat /\ s.foreign \in BOOLEAN
      BY <1>4 DEF ChatInv, ChatParameters, TurnSound, Chat!TurnState
    <3> QED BY <1>3, <1>4, <3>1 DEF QueuedRuns, TurnSound
  <2>4. /\ queued' \in Seq(QueuedRuns) /\ DOMAIN queued' = DOMAIN queued \cup {Len(queued) + 1}
        /\ Len(queued) + 1 \notin DOMAIN queued /\ queued'[Len(queued) + 1] = entry
        /\ \A i \in DOMAIN queued : queued'[i] = queued[i]
    BY <1>8, <2>3 DEF ChatInv
  <2>5. Chat!RunIsOfSavedGraph'
    BY <2>3, <2>4 DEF ChatInv, Chat!RunIsOfSavedGraph
  <2>6. turn' = [turn EXCEPT ![t] = new]
    BY <1>8 DEF Chat!Ends, Chat!Goes
  <2>7. /\ DOMAIN turn' = Sessions /\ turn'[t] = new /\ \A u \in Sessions : u # t => turn'[u] = turn[u]
        /\ turn' = [u \in Sessions |-> turn'[u]]
    BY <2>6 DEF ChatInv
  <2>8. \A u \in Sessions : TurnSound(turn'[u], chatRow'.graph)
    BY <1>4, <2>2, <2>7 DEF ChatInv
  <2>9. Chat!RunsOf(t)' = {Len(queued) + 1}
    <3>1. Chat!RunsOf(t) = {}
      BY <1>1, <1>4 DEF ChatInv
    <3> QED BY <2>3, <2>4, <3>1 DEF Chat!RunsOf
  <2>10. \A u \in Sessions : u # t => Chat!RunsOf(u)' = Chat!RunsOf(u)
    BY <2>3, <2>4 DEF Chat!RunsOf
  <2>11. \A u \in Sessions : IF turn'[u].run = 0 THEN Chat!RunsOf(u)' = {} ELSE \E i : Chat!RunsOf(u)' = {i}
    <3>1. \A u \in Sessions : IF turn[u].run = 0 THEN Chat!RunsOf(u) = {} ELSE \E i : Chat!RunsOf(u) = {i}
      BY DEF ChatInv
    <3>2. turn'[t].run = 1 /\ \A u \in Sessions : u # t => turn'[u].run = turn[u].run
      BY <2>1, <2>7
    <3>3. SUFFICES ASSUME NEW u \in Sessions
                   PROVE  IF turn'[u].run = 0 THEN Chat!RunsOf(u)' = {} ELSE \E i : Chat!RunsOf(u)' = {i}
      OBVIOUS
    <3>4. CASE u = t
      <4>1. turn'[u].run # 0
        BY <3>2, <3>4
      <4>2. Chat!RunsOf(u)' = {Len(queued) + 1}
        BY <2>9, <3>4
      <4> QED BY <4>1, <4>2
    <3>5. CASE u # t
      BY <2>10, <3>1, <3>2, <3>5
    <3> QED BY <3>4, <3>5
  <2>12. messages' \in Seq({"user", "assistant"} \X Sessions) /\ Chat!HistoryIsWhole'
    BY <1>8, RowsSound DEF Chat!Ends
  <2> QED BY <1>4, <2>4, <2>5, <2>7, <2>8, <2>11, <2>12 DEF ChatInv
<1> QED BY <1>6, <1>7, <1>8

LEMMA ClearHonest ==
  ASSUME ChatInv, messages' = messages \/ messages' = <<>>, UNCHANGED <<chatRow, saves, turn, queued>>
  PROVE  ChatInv'
<1>1. messages' \in Seq({"user", "assistant"} \X Sessions) /\ Chat!HistoryIsWhole'
  <2>1. CASE messages' = messages
    BY <2>1 DEF ChatInv, Chat!HistoryIsWhole, Chat!Exchange
  <2>2. CASE messages' = <<>>
    <3>1. Len(messages') = 0 /\ 0 % 2 = 0 /\ 0 \div 2 = 0 /\ messages' \in Seq({"user", "assistant"} \X Sessions)
      BY <2>2
    <3> QED BY <3>1 DEF Chat!HistoryIsWhole
  <2> QED BY <2>1, <2>2
<1> QED BY <1>1 DEF ChatInv, Chat!RunIsOfSavedGraph, Chat!RunsOf

-----------------------------------------------------------------------------
(* The invariant and what it shows *)

LEMMA ChatStarts ==
  ASSUME ChatParameters, Chat!Init
  PROVE  ChatInv
<1>1. /\ chatRow = [revision |-> 1, graph |-> 0] /\ saves = 0 /\ queued = <<>> /\ messages = <<>>
      /\ turn = [t \in Sessions |-> Chat!NewTurn]
  BY DEF Chat!Init
<1>2. chatRow \in [revision : Nat \ {0}, graph : 0..MaxEdits] /\ saves \in 0..MaxEdits
  BY <1>1 DEF ChatParameters
<1>3. TurnSound(Chat!NewTurn, chatRow.graph) /\ Chat!NewTurn.run = 0
  BY DEF TurnSound, Chat!NewTurn, Chat!TurnState, Chat!Replies, ChatParameters
<1>4. DOMAIN turn = Sessions /\ turn = [t \in Sessions |-> turn[t]] /\ \A t \in Sessions : turn[t] = Chat!NewTurn
  BY <1>1
<1>5. queued \in Seq(QueuedRuns) /\ Chat!RunIsOfSavedGraph /\ \A t \in Sessions : Chat!RunsOf(t) = {}
  BY <1>1 DEF Chat!RunIsOfSavedGraph, Chat!RunsOf
<1>6. messages \in Seq({"user", "assistant"} \X Sessions) /\ Chat!HistoryIsWhole
  <2>1. Len(messages) = 0 /\ 0 % 2 = 0 /\ 0 \div 2 = 0 /\ messages \in Seq({"user", "assistant"} \X Sessions)
    BY <1>1
  <2> QED BY <2>1 DEF Chat!HistoryIsWhole
<1> QED BY <1>2, <1>3, <1>4, <1>5, <1>6 DEF ChatInv

LEMMA ChatContinues ==
  ASSUME ChatParameters, ChatInv, [Chat!Next]_(Chat!chatVars)
  PROVE  ChatInv'
<1>1. CASE \E t \in Sessions : Chat!Ask(t)
  BY <1>1, AskHonest
<1>2. CASE \E t \in Sessions : Chat!ProviderFails(t)
  BY <1>2, FailHonest
<1>3. CASE \E t \in Sessions : Chat!Look(t)
  BY <1>3, LookHonest
<1>4. CASE \E t \in Sessions : Chat!Apply(t)
  BY <1>4, ApplyHonest
<1>5. CASE \E t \in Sessions : Chat!RunCurrent(t)
  BY <1>5, RunHonest
<1>6. CASE \E t \in Sessions : \E text \in Texts : Chat!Answer(t, text)
  BY <1>6, AnswerHonest
<1>7. CASE \E t \in Sessions : \E batch \in Batches : Chat!Call(t, batch)
  BY <1>7, CallHonest
<1>8. CASE Chat!EditorSaves
  BY <1>8, EditorHonest
<1>9. CASE Chat!ClearHistory
  BY <1>9, ClearHonest DEF Chat!ClearHistory
<1>10. CASE UNCHANGED Chat!chatVars
  BY <1>10, ClearHonest DEF Chat!chatVars
<1> QED BY <1>1, <1>2, <1>3, <1>4, <1>5, <1>6, <1>7, <1>8, <1>9, <1>10 DEF Chat!Next

LEMMA ChatInvIsHonest ==
  ASSUME ChatParameters, ChatInv
  PROVE  Chat!ChatIsHonest
<1>1. Chat!TypeOK
  <2>1. turn \in [Sessions -> Chat!TurnState]
    BY DEF ChatInv, TurnSound
  <2>2. \A i \in DOMAIN queued : queued[i].by \in Sessions
    <3>1. \A i \in DOMAIN queued : queued[i] \in QueuedRuns
      BY DEF ChatInv
    <3> QED BY <3>1 DEF QueuedRuns
  <2>3. \A i \in DOMAIN messages : messages[i] \in {"user", "assistant"} \X Sessions
    BY DEF ChatInv
  <2> QED BY <2>1, <2>2, <2>3 DEF ChatInv, Chat!TypeOK
<1>2. Chat!RunIsToldOnce
  <2> SUFFICES ASSUME NEW t \in Sessions
               PROVE  /\ Chat!Cardinality(Chat!RunsOf(t)) <= 1
                      /\ turn[t].at = "done" => turn[t].run = Chat!Cardinality(Chat!RunsOf(t))
    BY DEF Chat!RunIsToldOnce
  <2>1. \A S : Chat!Cardinality(S) = Cardinality(S)
    BY DEF Chat!Cardinality, Cardinality
  <2>2. turn[t].run \in {0, 1}
    BY DEF ChatInv, TurnSound, Chat!TurnState
  <2>3. CASE turn[t].run = 0
    <3>1. Chat!RunsOf(t) = {}
      BY <2>3 DEF ChatInv
    <3>2. Cardinality({}) = 0
      BY FS_EmptySet
    <3> QED BY <2>1, <2>3, <3>1, <3>2
  <2>4. CASE turn[t].run = 1
    <3>1. turn[t].run # 0 => \E i : Chat!RunsOf(t) = {i}
      BY DEF ChatInv
    <3>2. PICK i : Chat!RunsOf(t) = {i}
      BY <2>4, <3>1
    <3>3. Cardinality({i}) = 1
      BY FS_Singleton
    <3> QED BY <2>1, <2>4, <3>2, <3>3
  <2> QED BY <2>2, <2>3, <2>4
<1>3. Chat!EditsAreTold
  BY DEF ChatInv, TurnSound, Chat!EditsAreTold
<1> QED BY <1>1, <1>2, <1>3 DEF ChatInv, Chat!ChatIsHonest

\* Turns of the assistant, the editor and the tables behind them keep the
\* invariant, whatever the model answers and however turns overlap.
THEOREM ChatInvariance ==
  ASSUME ChatParameters
  PROVE  Chat!Spec => []ChatInv
<1>1. Chat!Init => ChatInv
  BY ChatStarts
<1>2. ChatInv /\ [Chat!Next]_(Chat!chatVars) => ChatInv'
  BY ChatContinues
<1> QED BY <1>1, <1>2, PTL DEF Chat!Spec

\* A turn queues at most one run and tells of it, tells of its edits, runs the
\* graph that is saved unless somebody else has saved since, and leaves whole
\* exchanges (chat, run_current_workflow, add_exchange).
THEOREM ChatIsKept ==
  ASSUME ChatParameters
  PROVE  Chat!Spec => []Chat!ChatIsHonest
<1>1. ChatInv => Chat!ChatIsHonest
  BY ChatInvIsHonest
<1> QED BY <1>1, ChatInvariance, PTL
-----------------------------------------------------------------------------
(* What the owner of a project locks: OwnerLocks *)

CONSTANTS LockOwner, LockMembers, Proposals
VARIABLES row, handler, left, raced

Locks == INSTANCE OwnerLocks WITH Owner <- LockOwner, Members <- LockMembers

\* Is what the second graph locks what the first one does?
LockedAlike(before, after) ==
  IF before = None THEN after = None
  ELSE IF after = None THEN Locks!LockedPart(before) = Locks!LockedPart(Locks!EmptyGraph)
  ELSE Locks!LockedPart(after) = Locks!LockedPart(before)

\* What a member is about to commit keeps what the owner had left when the
\* member's handler read the row.
LInv ==
  /\ DOMAIN handler = Locks!Users
  /\ Locks!LocksKept
  /\ ~raced => \A u \in Locks!Users : u # LockOwner /\ handler[u] # None =>
                 LockedAlike(handler[u].seen, handler[u].wanted)

\* enforce_locked_graph_changes lets nothing through that changes what is locked.
LEMMA AllowedKeepsLocks ==
  ASSUME NEW u, u # LockOwner, NEW g, NEW h, Locks!Allowed(u, g, h)
  PROVE  Locks!LockedPart(h) = Locks!LockedPart(g)
<1>1. /\ Locks!Keeps(g.nodes, h.nodes) /\ Locks!Keeps(g.boards, h.boards)
      /\ Locks!Incident(g, Locks!Locked(g.nodes)) = Locks!Incident(h, Locks!Locked(g.nodes))
  BY DEF Locks!Allowed
<1>2. ASSUME NEW before, NEW after, Locks!Keeps(before, after)
      PROVE  /\ Locks!Locked(after) = Locks!Locked(before)
             /\ Locks!Restrict(after, Locks!Locked(after)) = Locks!Restrict(before, Locks!Locked(before))
  <2>1. \A k \in Locks!Locked(before) : k \in DOMAIN after /\ after[k] = before[k]
    BY <1>2 DEF Locks!Keeps
  <2>2. Locks!Locked(after) = Locks!Locked(before)
    BY <1>2, <2>1 DEF Locks!Keeps, Locks!Locked
  <2> QED BY <2>1, <2>2 DEF Locks!Restrict
<1> QED BY <1>1, <1>2 DEF Locks!LockedPart

\* The invariant holds at first and every step keeps it.
LEMMA LocksStart ==
  ASSUME Locks!Init, None \notin Proposals
  PROVE  LInv
BY DEF Locks!Init, Locks!LocksKept, LInv

LEMMA ProposalKeepsLocks ==
  ASSUME LInv, NEW u \in Locks!Users, row # None, NEW wanted, u # LockOwner => LockedAlike(row, wanted),
         handler' = [handler EXCEPT ![u] = [seen |-> left, wanted |-> wanted]],
         UNCHANGED <<row, left, raced>>
  PROVE  LInv'
<1>1. Locks!LocksKept'
  BY DEF LInv, Locks!LocksKept, Locks!LockedPart, Locks!Restrict, Locks!Locked, Locks!Incident
<1>2. ~raced /\ u # LockOwner => LockedAlike(left, wanted)
  BY DEF LInv, Locks!LocksKept, LockedAlike
<1> QED BY <1>1, <1>2 DEF LInv, LockedAlike

LEMMA CommitKeepsLocks ==
  ASSUME LInv, NEW u \in Locks!Users, Locks!Commit(u)
  PROVE  LInv'
<1>1. PICK w : w = handler[u]
  OBVIOUS
<1>2. /\ w # None /\ handler' = [handler EXCEPT ![u] = None]
      /\ row' = IF row = None THEN None ELSE w.wanted
      /\ left' = IF u = LockOwner THEN row' ELSE left
      /\ raced' = (raced \/ (u # LockOwner /\ left # w.seen))
  BY <1>1 DEF Locks!Commit
<1>3. ~raced => LockedAlike(left, row)
  BY DEF LInv, Locks!LocksKept, LockedAlike
<1>4. ~raced /\ u # LockOwner => LockedAlike(w.seen, w.wanted)
  BY <1>1, <1>2 DEF LInv
<1>5. ~raced' => LockedAlike(left', row')
  BY <1>2, <1>3, <1>4 DEF LockedAlike
<1>6. Locks!LocksKept'
  BY <1>5 DEF Locks!LocksKept, LockedAlike
<1> QED BY <1>2, <1>6 DEF LInv

LEMMA LocksContinue ==
  ASSUME LInv, None \notin Proposals, [Locks!Next]_(Locks!vars)
  PROVE  LInv'
<1>1. CASE \E u \in Locks!Users, g \in Proposals : Locks!Propose(u, g)
  <2>1. PICK u \in Locks!Users, g \in Proposals : Locks!Propose(u, g)
    BY <1>1
  <2>2. u # LockOwner => Locks!LockedPart(g) = Locks!LockedPart(row)
    BY <2>1, AllowedKeepsLocks DEF Locks!Propose
  <2> QED BY <2>1, <2>2, ProposalKeepsLocks DEF Locks!Propose, LockedAlike
<1>2. CASE \E u \in Locks!Users : Locks!ProposeDelete(u)
  <2>1. PICK u \in Locks!Users : Locks!ProposeDelete(u)
    BY <1>2
  <2>2. u # LockOwner => Locks!LockedPart(Locks!EmptyGraph) = Locks!LockedPart(row)
    BY <2>1, AllowedKeepsLocks DEF Locks!ProposeDelete
  <2> QED BY <2>1, <2>2, ProposalKeepsLocks DEF Locks!ProposeDelete, LockedAlike
<1>3. CASE \E u \in Locks!Users : Locks!Commit(u)
  BY <1>3, CommitKeepsLocks
<1>4. CASE UNCHANGED Locks!vars
  BY <1>4 DEF Locks!vars, LInv, Locks!LocksKept, LockedAlike
<1> QED BY <1>1, <1>2, <1>3, <1>4 DEF Locks!Next

\* What the owner of a project has locked stays as it was left, whatever graphs
\* members ask for, unless the owner commits while a member's handler is at
\* work (enforce_locked_graph_changes and the routes that call it).
THEOREM LocksStay ==
  ASSUME None \notin Proposals
  PROVE  Locks!Spec => []Locks!LocksKept
<1>1. Locks!Init => LInv
  BY LocksStart
<1>2. LInv /\ [Locks!Next]_(Locks!vars) => LInv'
  BY LocksContinue
<1>3. LInv => Locks!LocksKept
  BY DEF LInv
<1> QED BY <1>1, <1>2, <1>3, PTL DEF Locks!Spec
=============================================================================
