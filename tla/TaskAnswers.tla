------------------------------ MODULE TaskAnswers ------------------------------
(* Who is asked what by a Form Assignment node, and whose answers its Get     *)
(* Submissions node reads in later runs (nodes/tasks, persist_task_intents,   *)
(* the work_task_data of _snapshot_run).  A run reads what was assigned when  *)
(* its snapshot is taken, and assigns its own tasks when it ends; runs of the *)
(* workflow overlap.                                                          *)
(*                                                                            *)
(* A case is [subject, form]; a form is what its fields and title come to.  A *)
(* context is a batch, of: subject -> version, or one value [subject, is]     *)
(* whose subject is None unless it is a case itself.                          *)
EXTENDS Integers, Sequences, SequencesExt, FiniteSets

CONSTANTS
  Cases,      \* the batches of cases the form input may carry
  Contexts,   \* what the context input may be connected to
  Panels,     \* the users the node may name, in order
  RunIds,     \* runs of the workflow, in the order their snapshots are taken
  None

VARIABLES
  tasks,   \* review_tasks of the node, by id
  source   \* runs: what they were given, have read and have assigned

vars == <<tasks, source>>

SourceRuns == ToSet(RunIds)
Unstarted == [at |-> "new"]

Init == tasks = <<>> /\ source = [r \in SourceRuns |-> Unstarted]

-----------------------------------------------------------------------------
(* FormAssignmentNode.run *)

InBatch(c) == "of" \in DOMAIN c

\* _contexts_for_case: the same case of every connected batch, and each value.
ContextsFor(contexts, subject) ==
  LET fitting == SelectSeq(contexts, LAMBDA c : InBatch(c) => subject \in DOMAIN c.of)
  IN [i \in DOMAIN fitting |->
        IF InBatch(fitting[i]) THEN [subject |-> subject, is |-> fitting[i].of[subject]] ELSE fitting[i]]

\* A task is about the case of its only context, or of the form when there is
\* no context; otherwise it is about the run.
SubjectOf(case, own, r) ==
  IF own = <<>> THEN case.subject
  ELSE IF Len(own) = 1 /\ own[1].subject # None THEN own[1].subject
  ELSE r

Intent(case, contexts, r) ==
  LET own == ContextsFor(contexts, case.subject)
      subject == SubjectOf(case, own, r) IN
  [subject |-> subject,
   group |-> <<IF subject = r THEN "run" ELSE subject, case.form, own>>]

Intents(q, r) == [i \in DOMAIN q.cases |-> Intent(q.cases[i], q.contexts, r)]

\* What the node tells Get Submissions: one subject, or those of the batch.
Subjects(q, r) == [i \in DOMAIN q.cases |-> Intents(q, r)[i].subject]

-----------------------------------------------------------------------------
(* persist_task_intents *)

\* One task per subject and user in a run, and one per fingerprint ever.
Persist(s, r, intent, who) ==
  IF <<intent.subject, who>> \in s.seen THEN s
  ELSE [seen |-> s.seen \cup {<<intent.subject, who>>},
        rows |-> IF \E t \in ToSet(s.rows) : t.group = intent.group /\ t.who = who THEN s.rows
                 ELSE Append(s.rows, [by |-> r, subject |-> intent.subject,
                                      group |-> intent.group, who |-> who])]

Assigned(rows, q, r) ==
  FoldLeft(LAMBDA s, intent : FoldLeft(LAMBDA t, who : Persist(t, r, intent, who), s, q.panel),
           [rows |-> rows, seen |-> {}], Intents(q, r)).rows

-----------------------------------------------------------------------------
(* work_task_data, and LoadWorkResponsesNode.run *)

Newest == tasks[Len(tasks)]

\* The group of the newest task of the node; for a batch, the groups of all the
\* tasks of its run.
NewestGroup  == {t \in DOMAIN tasks : tasks[t].group = Newest.group /\ tasks[t].subject = Newest.subject}
NewestGroups ==
  LET groups == {tasks[t].group : t \in {u \in DOMAIN tasks : tasks[u].by = Newest.by}}
  IN {t \in DOMAIN tasks : tasks[t].group \in groups}

\* A batch reads under one key whatever its subjects are; a single assignment
\* under its subject.  What finds nothing waits.
Read(q, r) ==
  IF tasks = <<>> THEN {}
  ELSE IF Len(q.cases) > 1 THEN NewestGroups
  ELSE IF Subjects(q, r)[1] = Newest.subject THEN NewestGroup
  ELSE {}

-----------------------------------------------------------------------------
Start(r, cases, contexts, panel) ==
  LET q == [at |-> "running", cases |-> cases, contexts |-> contexts, panel |-> panel] IN
  /\ source[r].at = "new"
  /\ \A k \in DOMAIN RunIds : (\E j \in 1..k : RunIds[j] = r) \/ source[RunIds[k]].at # "new"
  /\ source' = [source EXCEPT ![r] =
       [at |-> "running", cases |-> cases, contexts |-> contexts, panel |-> panel,
        read |-> Read(q, r), then |-> Len(tasks)]]
  /\ UNCHANGED tasks

Finish(r) ==
  /\ source[r].at = "running"
  /\ tasks' = Assigned(tasks, source[r], r)
  /\ source' = [source EXCEPT ![r].at = "done"]

Next == \E r \in SourceRuns :
  \/ \E cases \in Cases, contexts \in Contexts, panel \in Panels : Start(r, cases, contexts, panel)
  \/ Finish(r)

-----------------------------------------------------------------------------
(* Properties *)

\* Each case of the batch is told from the others by its task's subject.
ToldApart(q, r) == IsInjective(Subjects(q, r))

\* Every user named is asked about every case, with the form of that case and
\* what the contexts say of it, now or by an unchanged task; nobody is asked
\* twice.  A batch whose tasks are about the run asks about its first case only.
EveryCaseIsAsked ==
  /\ \A r \in SourceRuns : source[r].at = "done" /\ ToldApart(source[r], r) =>
       \A i \in DOMAIN source[r].cases, who \in ToSet(source[r].panel) :
         \E t \in ToSet(tasks) : t.group = Intents(source[r], r)[i].group /\ t.who = who
  /\ \A t, u \in DOMAIN tasks :
       t # u => tasks[t].group # tasks[u].group \/ tasks[t].who # tasks[u].who

\* What a run reads is whole: with one answer to a question come the answers of
\* everyone who had been asked it, and of a case only the answers to one version
\* of its question, however the form, the context and the users changed between
\* runs.  A single assignment reads the answers about its own case only.
ReadsAreWhole ==
  \A r \in SourceRuns : source[r].at # "new" =>
    LET read == source[r].read IN
    /\ \A t \in read : \A u \in 1..source[r].then :
         tasks[u].group = tasks[t].group => u \in read \/ tasks[u].subject # tasks[t].subject
    /\ \A t, u \in read : tasks[t].subject = tasks[u].subject => tasks[t].group = tasks[u].group
    /\ Len(source[r].cases) = 1 => \A t \in read : tasks[t].subject = Subjects(source[r], r)[1]

AnswersHold == EveryCaseIsAsked /\ ReadsAreWhole
=============================================================================
