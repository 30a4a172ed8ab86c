----------------------------- MODULE ReviewNodes -----------------------------
(* The review nodes (app/nodes/review): a case is received, forms are        *)
(* published in it, its documents are read and its fields extracted, it is   *)
(* reviewed by a model and by people, scored and decided.  A workflow may    *)
(* connect the nodes in any order; a step whose node raises does not happen. *)
(* Values are what validation tells apart: none, empty, text, a number.      *)
(* Numbers and bounds are floats, here in eighths, which floats hold exactly. *)
(* The nodes only append to decisions and history, which are left out.       *)
EXTENDS Integers, Sequences, SequencesExt, FiniteSets

CONSTANTS
  None,
  FieldIds,
  Forms,      \* what form nodes may publish: [id, mode, fields]
  Replies,    \* what people and models may answer: field -> value
  Reviewers,  \* who a recorded response may name
  Users,      \* who tasks may be assigned to
  Files,      \* artifacts of the project: [id, pdf]
  Submissions, \* cases as JSON: [fields, docs, forms, active, reviews, ai, status]
  MaxSteps    \* bound: nodes a case passes, in all its runs

VARIABLES
  case,    \* the case on the wire of the run that is going on
  brought, \* history: what the submission of that case carried
  intents, \* what the run has assigned: [form, fields, docs, assignees]
  tasks,   \* review_tasks of the case, in the order of their ids
  steps

vars == <<case, brought, intents, tasks, steps>>

Value(is, n) == [is |-> is, n |-> n]
NoValue == Value("none", 0)
Missing(v) == v.is \in {"none", "empty"}

FormIds == {f.id : f \in Forms} \cup UNION {DOMAIN s.forms : s \in Submissions}
NoFields == [k \in FieldIds |-> NoValue]

-----------------------------------------------------------------------------
(* Forms and answers: contract.py *)

Ids(fields) == {fields[i].id : i \in DOMAIN fields}
Bounded(f)  == f.max # None
Floored(f)  == f.min # None

\* validate_fields
FieldsValid(fields) ==
  /\ fields # <<>>
  /\ Cardinality(Ids(fields)) = Len(fields)
  /\ \A f \in ToSet(fields) : f.type \in {"number", "score"} =>
       /\ Floored(f) /\ Bounded(f) => f.min <= f.max
       /\ f.type = "score" => Bounded(f) /\ f.max > 0 /\ (Floored(f) => f.min >= 0)

FieldError(f, v) ==
  CASE Missing(v) -> IF f.required THEN {"required"} ELSE {}
    [] ~Missing(v) /\ f.type \in {"number", "score"} ->
         IF v.is # "number" THEN {"type"}
         ELSE IF (Floored(f) /\ v.n < f.min) \/ (Bounded(f) /\ v.n > f.max) THEN {"range"} ELSE {}
    [] OTHER -> IF v.is # "text" THEN {"type"} ELSE {}

\* validate_response: keys of the form only, and every value in its range.
Errors(fields, answers) ==
  (IF \E k \in FieldIds \ Ids(fields) : answers[k] # NoValue THEN {"unknown_field"} ELSE {})
  \cup UNION {FieldError(f, answers[f.id]) : f \in ToSet(fields)}

Optional(fields) == [i \in DOMAIN fields |-> [fields[i] EXCEPT !.required = FALSE]]
Only(answers, ids) == [k \in FieldIds |-> IF k \in ids THEN answers[k] ELSE NoValue]
Over(fields, answers) == [k \in FieldIds |-> IF answers[k] = NoValue THEN fields[k] ELSE answers[k]]

\* The criteria a form is scored by: its score fields, else its numbers.
Rubric(form) ==
  LET scores == SelectSeq(form.fields, LAMBDA f : f.type = "score")
  IN IF scores # <<>> THEN scores ELSE SelectSeq(form.fields, LAMBDA f : f.type = "number")

\* What no integration has filled in.
NoSubmission == [fields |-> NoFields, docs |-> [d \in {} |-> 0], forms |-> [f \in {} |-> 0],
                 active |-> None, reviews |-> {}, ai |-> {}, status |-> "received"]

\* make_case: what is submitted is taken over as it is, except scores and the
\* outcome of a validation.
NewCase(s) ==
  [fields |-> s.fields, docs |-> s.docs, forms |-> s.forms, active |-> s.active, reviews |-> s.reviews,
   ai |-> s.ai, scores |-> None, validated |-> None, status |-> s.status]

\* _publish_form: a form keeps its definition as long as its case lives.
Publishable(c, f) == f.id \in DOMAIN c.forms => c.forms[f.id] = f

Published(c, f) ==
  [c EXCEPT !.forms = [k \in DOMAIN c.forms \cup {f.id} |-> IF k = f.id THEN f ELSE c.forms[k]],
            !.active = f.id]

-----------------------------------------------------------------------------
(* The nodes *)

Passes(c) == steps < MaxSteps /\ case' = c /\ steps' = steps + 1

runVars == <<brought, intents, tasks>>

\* What the settings of the node enter; a dynamic form leaves it to be asked.
Typed(v) == [NoSubmission EXCEPT !.fields = v]

\* RV-001 and its dynamic form, if it publishes one.
Intake(files, form, s) ==
  LET c == [NewCase(s) EXCEPT !.docs = [d \in DOMAIN @ \cup files |-> IF d \in files THEN "stored" ELSE @[d]]]
  IN /\ case = None
     /\ form.mode = "dynamic" => FieldsValid(form.fields) /\ Publishable(c, form)
     /\ Passes(IF form.mode = "dynamic" THEN Published(c, form) ELSE c)
     /\ brought' = IF s \in Submissions THEN s ELSE NoSubmission
     /\ UNCHANGED <<intents, tasks>>

\* _static_form_values: what a static field list carries itself.
Entered(f, values) ==
  Only(values, {k \in Ids(f.fields) : f.mode = "static" /\ ~Missing(values[k])})

\* RV-002: a static form is answered in its settings.
DefineForm(f, values) ==
  /\ FieldsValid(f.fields) /\ Publishable(case, f)
  /\ f.mode = "static" => Errors(f.fields, Entered(f, values)) = {}
  /\ Passes([Published(case, f) EXCEPT !.fields = Over(@, Entered(f, values))])
  /\ UNCHANGED runVars

\* The model is asked for the fields without a value only.
Asked(f, manual) == {k \in Ids(f.fields) : Entered(f, manual)[k] = NoValue}

Extracted(f, manual, model) == Over(Only(model, Asked(f, manual)), Entered(f, manual))

\* RV-011 and RV-003 on one PDF of the case: its other documents stay behind.
Extract(f, manual, model, file) ==
  /\ file \in DOMAIN case.docs /\ file.pdf
  /\ FieldsValid(f.fields)
  /\ f.mode = "dynamic" => Publishable(case, f)
  /\ Errors(Optional(f.fields), Entered(f, manual)) = {}
  /\ Errors(Optional(f.fields), Only(model, Asked(f, manual))) = {}
  /\ Passes(LET c == [case EXCEPT !.fields = Over(@, Extracted(f, manual, model)),
                                  !.docs = [d \in {file} |-> "read"]]
            IN IF f.mode = "dynamic" THEN Published(c, f) ELSE c)
  /\ UNCHANGED runVars

\* RV-004
Validate(required) ==
  /\ Passes([case EXCEPT !.validated = {k \in required : Missing(case.fields[k])}])
  /\ UNCHANGED runVars

HasText(c) == \E d \in DOMAIN c.docs : c.docs[d] = "read"

\* RV-005: a score for every criterion and nothing else, in range.
AIReview(id, scores) ==
  /\ id \in DOMAIN case.forms
  /\ LET rubric == Rubric(case.forms[id])
         all == [i \in DOMAIN rubric |-> [rubric[i] EXCEPT !.required = TRUE]]
     IN /\ rubric # <<>> /\ HasText(case) /\ Errors(all, scores) = {}
        /\ Passes([case EXCEPT !.ai = @ \cup {[form |-> id, scores |-> scores]}])
  /\ UNCHANGED runVars

Reviewed(c, id) == {r \in c.reviews : r.form = id}

\* RV-006
RecordReview(id, who, answers) ==
  /\ id \in DOMAIN case.forms
  /\ Errors(case.forms[id].fields, answers) = {}
  /\ \A r \in Reviewed(case, id) : r.who # who
  /\ Passes([case EXCEPT !.reviews = @ \cup {[form |-> id, who |-> who, answers |-> answers]}])
  /\ UNCHANGED runVars

-----------------------------------------------------------------------------
(* RV-007: hundredths; round() goes to the even neighbour of a tie *)

Rounded(n, d) == LET q == n \div d  r == 2 * (n % d)
                 IN IF r > d \/ (r = d /\ q % 2 = 1) THEN q + 1 ELSE q

Hundredths(eighths, n) == Rounded(25 * eighths, 2 * n)

\* Mutant: the average is over the reviewers asked for, not those counted.
AverageOfMinimum(reviews, minimum, k) ==
  Hundredths(MapThenSumSet(LAMBDA r : r.answers[k].n, reviews), minimum)

Average(reviews, minimum, k) ==
  Hundredths(MapThenSumSet(LAMBDA r : r.answers[k].n, reviews), Cardinality(reviews))

MaxOf(f) == IF Bounded(f) THEN f.max ELSE 0

Aggregate(id, minimum) ==
  /\ id \in DOMAIN case.forms
  /\ LET rubric == ToSet(Rubric(case.forms[id]))
         reviews == Reviewed(case, id)
         criteria == [k \in {f.id : f \in rubric} |-> Average(reviews, minimum, k)]
         maximum == Hundredths(MapThenSumSet(MaxOf, rubric), 1)
     IN /\ rubric # {} /\ Cardinality(reviews) >= minimum
        /\ \A r \in reviews, f \in rubric : r.answers[f.id].is = "number"
        /\ maximum > 0
        /\ Passes([case EXCEPT !.status = "scored",
                     !.scores = [form |-> id, criteria |-> criteria, reviewers |-> Cardinality(reviews),
                                 total |-> MapThenSumSet(LAMBDA k : criteria[k], DOMAIN criteria),
                                 maximum |-> maximum]])
  /\ UNCHANGED runVars

\* RV-008
Decide(outcome, reason) ==
  /\ outcome \in {"rejected", "revision_requested", "stopped"} => reason
  /\ Passes([case EXCEPT !.status = outcome])
  /\ UNCHANGED runVars

-----------------------------------------------------------------------------
(* RV-009 and RV-010: the tasks of a case, and the run that loads them *)

\* The form named, else the one published last, else the only one.
FormChosen(c, named) ==
  CASE named # None -> {named} \cap DOMAIN c.forms
    [] named = None /\ c.active \in DOMAIN c.forms -> {c.active}
    [] OTHER -> IF Cardinality(DOMAIN c.forms) = 1 THEN DOMAIN c.forms ELSE {}

\* The run goes on with the case; its tasks are written when it ends.
Assign(named, assignees) ==
  /\ assignees # {}
  /\ \E id \in FormChosen(case, named) :
       /\ case.forms[id].mode # "static"
       /\ intents' = Append(intents, [form |-> case.forms[id], fields |-> case.fields, docs |-> case.docs,
                                      assignees |-> assignees])
  /\ Passes([case EXCEPT !.status = "awaiting_review"])
  /\ UNCHANGED <<brought, tasks>>

\* persist_task_intents, for runs of one workflow: one task for a user and a
\* form, and none for what the user was asked before, whatever came since.
Wanted(n) ==
  LET i == intents[n]
      before == {m \in 1..(n - 1) : intents[m].form.id = i.form.id}
  IN {u \in i.assignees : /\ \A m \in before : u \notin intents[m].assignees
                          /\ \A t \in ToSet(tasks) : \/ t.who # u \/ t.form # i.form
                                                     \/ t.fields # i.fields \/ t.docs # i.docs}

Task(i, u) == [who |-> u, form |-> i.form, fields |-> i.fields, docs |-> i.docs, answers |-> None]

Finish ==
  /\ case # None
  /\ LET written(ts, n) == ts \o SetToSeq({Task(intents[n], u) : u \in Wanted(n)})
     IN tasks' = FoldLeft(written, tasks, [n \in DOMAIN intents |-> n])
  /\ case' = None /\ intents' = <<>> /\ brought' = NoSubmission
  /\ UNCHANGED steps

\* submit_task
Submit(n, answers) ==
  /\ tasks[n].answers = None /\ Errors(tasks[n].form.fields, answers) = {}
  /\ tasks' = [tasks EXCEPT ![n].answers = answers]
  /\ UNCHANGED <<case, brought, intents, steps>>

\* The tasks of a form over all runs; of each user the newest counts.
TasksOf(id) == {n \in DOMAIN tasks : tasks[n].form.id = id}
Newest(id)  == {n \in TasksOf(id) : \A m \in TasksOf(id) : tasks[m].who = tasks[n].who => m <= n}
Answered(id) == {n \in Newest(id) : tasks[n].answers # None}

\* The form and the summary are those of the newest task of all; the text of
\* the documents is not part of the summary.
Loaded(id) ==
  LET t == tasks[Max(TasksOf(id))]
      docs == [d \in DOMAIN t.docs |-> "stored"]
  IN NewCase([Typed(t.fields) EXCEPT !.docs = docs, !.forms = [k \in {id} |-> t.form],
                                     !.status = "awaiting_review"])

LoadReviews(id) ==
  /\ case = None /\ TasksOf(id) # {}
  /\ Passes([Loaded(id) EXCEPT
               !.reviews = {[form |-> id, who |-> tasks[n].who, answers |-> tasks[n].answers] : n \in Answered(id)},
               !.status = IF Answered(id) = Newest(id) THEN "reviews_complete" ELSE @])
  /\ UNCHANGED runVars

LoadFields(id) ==
  /\ case = None /\ Cardinality(Newest(id)) = 1
  /\ \E n \in Answered(id) :
       /\ Errors(Loaded(id).forms[id].fields, tasks[n].answers) = {}
       /\ Passes([Loaded(id) EXCEPT !.fields = Over(@, tasks[n].answers), !.status = "received"])
  /\ UNCHANGED runVars

-----------------------------------------------------------------------------
Init == case = None /\ brought = NoSubmission /\ intents = <<>> /\ tasks = <<>> /\ steps = 0

Next ==
  \/ \E files \in SUBSET Files, form \in Forms :
       \/ \E s \in Submissions \cup {NoSubmission} : Intake(files, form, s)
       \/ form.mode = "static" /\ \E v \in Replies : Intake(files, form, Typed(v))
  \/ /\ case # None
     /\ \/ \E f \in Forms, v \in Replies \cup {NoFields} : DefineForm(f, v)
        \/ \E f \in Forms, v \in Replies \cup {NoFields}, m \in Replies, d \in Files : Extract(f, v, m, d)
        \/ Validate(FieldIds)
        \/ \E id \in FormIds, a \in Replies : AIReview(id, a) \/ \E u \in Reviewers : RecordReview(id, u, a)
        \/ \E id \in FormIds, n \in 1..2 : Aggregate(id, n)
        \/ \E o \in {"approved", "rejected"}, reason \in BOOLEAN : Decide(o, reason)
        \/ \E id \in FormIds \cup {None}, A \in SUBSET Users : Assign(id, A)
        \/ Finish
  \/ \E n \in DOMAIN tasks, a \in Replies : Submit(n, a)
  \/ \E id \in FormIds : LoadReviews(id) \/ LoadFields(id)

-----------------------------------------------------------------------------
(* Batches and pages *)

\* A name is a sequence of words; the ids of a batch of proposals are its file
\* names, and a name seen before is followed by the id of its file.
CaseIds(files) ==
  LET next(ids, f) == Append(ids, IF f.stem \in ToSet(ids) THEN Append(f.stem, f.id) ELSE f.stem)
  IN FoldLeft(next, <<>>, files)

PageOf(i, entry) == IF entry.index = None THEN i - 1 ELSE entry.index

\* RV-011: the first text that came for each page of n.
PagesRead(n, entries) ==
  LET first(read, i) == IF PageOf(i, entries[i]) \in (0..(n - 1)) \ DOMAIN read
                        THEN [p \in DOMAIN read \cup {PageOf(i, entries[i])} |->
                                IF p \in DOMAIN read THEN read[p] ELSE entries[i].text]
                        ELSE read
  IN FoldLeft(first, [p \in {} |-> 0], [i \in DOMAIN entries |-> i])

-----------------------------------------------------------------------------
(* What a case can be relied on for *)

Sample == {NoValue, Value("text", 0)} \cup {Value("number", n) : n \in 0..16}

\* Excused: a submission may bring a form that no node has validated, and it
\* may be assigned and loaded again by a later run.
Unchecked(f) == \E s \in Submissions : f.id \in DOMAIN s.forms /\ s.forms[f.id] = f

\* Every form that is published can be answered (validate_fields).
FormsCanBeAnswered ==
  case # None => \A id \in DOMAIN case.forms :
    \/ Unchecked(case.forms[id])
    \/ \A f \in ToSet(case.forms[id].fields) : \E v \in Sample : ~Missing(v) /\ FieldError(f, v) = {}

\* Excused: a submission may bring reviews that fit nothing.
Foreign(r) == r \in brought.reviews

\* Excused: a later run has asked others with a changed form, and the answer to
\* the form as it was counts beside theirs.
Stale(r) == \E n \in Answered(r.form) :
              /\ tasks[n].who = r.who /\ tasks[n].answers = r.answers
              /\ tasks[n].form # case.forms[r.form] /\ tasks[n].form # tasks[Max(TasksOf(r.form))].form
              /\ Errors(tasks[n].form.fields, r.answers) = {}

\* Reviews and the model's scores fit the forms the case holds now, however
\* many nodes and runs ago they were given, and a reviewer counts once per
\* form, whatever was brought along (validate_response, seen_users).
ReviewsFit ==
  case # None =>
    /\ \A r \in case.reviews : \/ Foreign(r)
                               \/ /\ r.form \in DOMAIN case.forms
                                  /\ Stale(r) \/ Errors(case.forms[r.form].fields, r.answers) = {}
    /\ \A r, q \in case.reviews : r.form = q.form /\ r.who = q.who => r = q \/ {r, q} \subseteq brought.reviews
    /\ \A a \in case.ai \ brought.ai :
         /\ a.form \in DOMAIN case.forms
         /\ \A f \in ToSet(Rubric(case.forms[a.form])) : FieldError(f, a.scores[f.id]) = {}

\* Every average lies in the range of its criterion, and the total does not
\* exceed its maximum where every criterion has one, up to the half hundredth
\* that each rounding may add: a criterion of at most 1.375 is given 1.38.
ScoresFit ==
  case # None /\ case.scores # None =>
    LET rubric == ToSet(Rubric(case.forms[case.scores.form]))
        s == case.scores
    IN \/ \E r \in Reviewed(case, s.form) : Foreign(r) \/ Stale(r)
       \/ /\ \A f \in rubric : /\ Floored(f) => 2 * s.criteria[f.id] >= 25 * f.min - 1
                               /\ Bounded(f) => 2 * s.criteria[f.id] <= 25 * f.max + 1
          /\ (\A f \in rubric : Bounded(f)) => 2 * s.total <= 2 * s.maximum + Cardinality(rubric) + 1

\* A case that loading has called complete has the review of everyone who was
\* ever asked with its form, the newest one they were asked for.
CompleteHasAll ==
  case # None /\ case.status = "reviews_complete" /\ brought.status # "reviews_complete" =>
    \E id \in DOMAIN case.forms : \A n \in Newest(id) :
      [form |-> id, who |-> tasks[n].who, answers |-> tasks[n].answers] \in case.reviews

\* Pages that name themselves may come in any order.
PagesInAnyOrder(n, entries) ==
  (\A i, j \in DOMAIN entries : entries[i].index # None
                                /\ (entries[i].index = entries[j].index => i = j))
  => PagesRead(n, entries) = PagesRead(n, Reverse(entries))

\* The cases of a batch have ids of their own, unless a file is named like
\* another one followed by the id of a third.
BatchIdsDiffer(files) ==
  (\A i, j, k \in DOMAIN files : files[i].stem # Append(files[j].stem, files[k].id))
  => \A i, j \in DOMAIN files : i # j => CaseIds(files)[i] # CaseIds(files)[j]

\* What was entered by hand is not replaced by what the model returns, and a
\* field that is not asked for keeps its value.
EnteredStays(f, manual, model) ==
  \A k \in FieldIds :
    /\ Entered(f, manual)[k] # NoValue => Extracted(f, manual, model)[k] = Entered(f, manual)[k]
    /\ k \notin Ids(f.fields) => Extracted(f, manual, model)[k] = NoValue

CasesHold == FormsCanBeAnswered /\ ReviewsFit /\ ScoresFit /\ CompleteHasAll
=============================================================================
