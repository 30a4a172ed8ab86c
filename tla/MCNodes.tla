-------------------------------- MODULE MCNodes --------------------------------
(* What workflows are made of and what their nodes do, one scene at a time:   *)
(* reusable components; the cases of a project as they are imported and run;  *)
(* assignments and their answers; the review of a case; tables on their way   *)
(* through the nodes; anomaly detection; and training.  A scene leaves the    *)
(* variables of the others at None.                                           *)
EXTENDS Integers, Sequences, FiniteSets, SequencesExt, TLC

CONSTANTS None, Sessions

VARIABLES scene,
          steps,                                              \* review, tables
          request, overlapped,                                \* components, files
          current, version, workflow, issued, copied,         \* components
          records, started,                                   \* files
          assigned, asking,                                   \* answers
          case, brought, intents, tasks,                      \* review
          table, side, trained,                               \* tables
          tables, wired, found,                               \* anomalies
          gaps, result,                                       \* sorted gaps
          frame, items, model, scored                         \* training

componentVars == <<current, version, workflow, issued, copied>>
fileVars == <<records, started>>
answerVars == <<assigned, asking>>
reviewVars == <<case, brought, intents, tasks>>
tableVars == <<table, side, trained>>
anomalyVars == <<tables, wired, found>>
gapVars == <<gaps, result>>
trainingVars == <<frame, items, model, scored>>
requestVars == <<request, overlapped>>
vars == <<scene, steps, requestVars, componentVars, fileVars, answerVars, reviewVars, tableVars, anomalyVars,
          gapVars, trainingVars>>

Components == INSTANCE WorkflowComponents WITH Bodies <- {"b"}, MaxIds <- 4

Id(word, caps) == [word |-> word, caps |-> caps]
File(id, f) == [id |-> id, file |-> f]
Output(id, f, score) == [id |-> id, file |-> f, node |-> "n", score |-> score]

Imported == INSTANCE CaseFiles WITH
  Ids <- {Id("a", FALSE), Id("a", TRUE), Id("b", FALSE)}, Files <- {1, 2}, NodeIds <- {"n"},
  Statuses <- {"awaiting_review", "completed"}, MaxRequests <- 3,
  Imports <- {<<File(Id("a", FALSE), 1), File(Id("b", FALSE), 2)>>, <<File(Id("a", TRUE), 2)>>},
  Outputs <- {<<Output(Id("a", TRUE), 1, None), Output(Id("b", FALSE), 1, 2)>>,
              <<Output(Id("a", FALSE), 2, None)>>}

Asked(subject, form) == [subject |-> subject, form |-> form]
Of(values) == [of |-> values]
Answers == INSTANCE TaskAnswers WITH
  tasks <- assigned, source <- asking, RunIds <- <<"r1", "r2", "r3">>, Panels <- {<<"u">>, <<"u", "v">>},
  Cases <- {<<Asked("a", 1)>>, <<Asked("a", 1), Asked("b", 1)>>, <<Asked("b", 2), Asked("c", 1)>>},
  Contexts <- {<<>>, <<Of([k \in {"a", "b"} |-> 1])>>, <<[subject |-> "a", is |-> 1]>>,
               <<Of([k \in {"b", "c"} |-> 2]), [subject |-> None, is |-> 2]>>}

Value(is, n) == [is |-> is, n |-> n]
Field(id, type, min, max, req) == [id |-> id, type |-> type, min |-> min, max |-> max, required |-> req]
Form(id, mode, fields) == [id |-> id, mode |-> mode, fields |-> fields]
Reply(a, b) == [k \in {"s", "t"} |-> IF k = "s" THEN a ELSE b]
Version(max) == Form("f", "dynamic", <<Field("s", "score", None, max, TRUE)>>)
MCForms ==
  {Version(11), Form("f", "dynamic", <<Field("s", "score", 8, 16, TRUE), Field("t", "text", None, None, FALSE)>>),
   Form("g", "dynamic", <<Field("s", "number", 0, None, TRUE), Field("t", "number", None, 11, TRUE)>>),
   Form("h", "static", <<Field("t", "text", None, None, TRUE)>>),
   Form("i", "dynamic", <<Field("s", "score", 16, 8, TRUE)>>)}
MCReplies ==
  {Reply(Value("number", 11), Value("none", 0)), Reply(Value("number", 16), Value("text", 0)),
   Reply(Value("number", 16), Value("number", 11)), Reply(Value("empty", 0), Value("text", 0))}

\* A case with answers and scores out of range, and a form nobody can answer.
Foreign == Reply(Value("number", 99), Value("none", 0))
Submitted ==
  [fields |-> Foreign, docs |-> [d \in {} |-> 0], active |-> "i",
   forms |-> [k \in {"i"} |-> Form("i", "dynamic", <<Field("s", "score", 24, 8, TRUE)>>)],
   reviews |-> {[form |-> "f", who |-> "u", answers |-> Foreign]},
   ai |-> {[form |-> "f", scores |-> Foreign]}, status |-> "reviews_complete"]

Review == INSTANCE ReviewNodes WITH
  FieldIds <- {"s", "t"}, Forms <- MCForms, Replies <- MCReplies, Reviewers <- {"u", "v"}, Users <- {},
  Files <- {[id |-> 1, pdf |-> TRUE], [id |-> 2, pdf |-> FALSE]}, Submissions <- {Submitted}, MaxSteps <- 4

\* A form that is changed between the runs that ask for it.
Rounds == INSTANCE ReviewNodes WITH
  FieldIds <- {"s", "t"}, Forms <- {Version(11), Version(8)}, Reviewers <- {"u"}, Users <- {"u", "v"},
  Replies <- {Reply(Value("number", n), Value("none", 0)) : n \in {8, 11}},
  Files <- {}, Submissions <- {Submitted}, MaxSteps <- 6

Line(a, b) == [a |-> a, b |-> b]
Lineage == INSTANCE TableLineage WITH
  Sources <- {<<Line(1, 1), Line(2, 1), Line(3, 2)>>, <<Line(1, 2), Line(1, 1), Line(4, 2)>>},
  Groups <- {1, 2}, Subsets <- {{1, 3}, {2, 3}, 1..4}, Orders <- {<<3, 1>>, <<2, 1, 3>>}, MaxSteps <- 4

Sample(id, x) == [id |-> id, x |-> x]
Number(n) == <<n, "number">>
Text(n) == <<n, "text">>
Column(base, prefix) == [base |-> base, prefix |-> prefix]
Table(rows, named, cols) == [rows |-> rows, named |-> named, cols |-> cols]
MCTables ==
  {Table(<<Sample(Number(1), 150), Sample(Number(2), 250), Sample(Number(3), -150)>>, TRUE,
         <<Column("fe", "ln_"), Column("fe", "raw_")>>),
   Table(<<Sample(Number(3), 1), Sample(Text(1), 2), Sample(Number(2), None), Sample(Number(4), 3)>>, TRUE,
         <<Column("cu", "bc_"), Column("fe", "n_")>>),
   Table(<<Sample(Number(1), 150), Sample(Text(1), 250)>>, TRUE, <<Column("fe", "raw_")>>),
   Table(<<Sample(None, 150), Sample(Number(2), 250)>>, TRUE, <<Column("fe", "raw_")>>),
   Table(<<Sample(None, 150), Sample(None, -350), Sample(None, None)>>, FALSE,
         <<Column("cu", "raw_"), Column("fe", "raw_")>>),
   Table(<<Sample(None, 1), Sample(None, 2), Sample(None, 3)>>, FALSE, <<Column("fe", "raw_")>>)}

Anomalies == INSTANCE AnomalyClasses WITH
  Tables <- MCTables, Limits <- {{100, 200}, {100, 101}, {-100, 100}}, Centers <- {<<-50, 60, 1>>, <<0, 0, 0>>}

Gap == INSTANCE SortedGap WITH
  Steps <- {0, 1, 4}, MaxSize <- 6, Cuts <- {<<1, 3, 2>>, <<2, 3, 0>>, <<2, 5, 2>>}

Training == INSTANCE ModelTraining WITH
  Rows <- 1..3, Category <- <<"u", "v", "v">>, Splits <- {<<{1, 2}, {3}>>, <<{1, 3}, {2}>>},
  FoldLists <- {<<{1}, {2, 3}>>, <<{3}, {1}, {2}>>}, Columns <- {"x", "y"}, MaxItems <- 2

-----------------------------------------------------------------------------
NoRequest == request = None /\ overlapped = None
NoComponents == /\ current = None /\ version = None /\ workflow = None
                /\ issued = None /\ copied = None
NoFiles == records = None /\ started = None
NoAnswer == assigned = None /\ asking = None
NoReview == case = None /\ brought = None /\ intents = None /\ tasks = None
NoTable == table = None /\ side = None /\ trained = None
NoAnomaly == tables = None /\ wired = None /\ found = None
NoGap == gaps = None /\ result = None
NoTraining == frame = None /\ items = None /\ model = None /\ scored = None

Init ==
  \/ /\ scene = "components" /\ Components!Init
     /\ steps = None /\ NoFiles /\ NoAnswer /\ NoReview /\ NoTable /\ NoAnomaly /\ NoGap /\ NoTraining
  \/ /\ scene = "files" /\ Imported!Init
     /\ steps = None /\ NoComponents /\ NoAnswer /\ NoReview /\ NoTable /\ NoAnomaly /\ NoGap /\ NoTraining
  \/ /\ scene = "answers" /\ Answers!Init
     /\ steps = None /\ NoRequest /\ NoComponents /\ NoFiles /\ NoReview /\ NoTable /\ NoAnomaly /\ NoGap /\ NoTraining
  \/ /\ scene \in {"review", "rounds"} /\ Review!Init
     /\ NoRequest /\ NoComponents /\ NoFiles /\ NoAnswer /\ NoTable /\ NoAnomaly /\ NoGap /\ NoTraining
  \/ /\ scene = "tables" /\ Lineage!Init
     /\ NoRequest /\ NoComponents /\ NoFiles /\ NoAnswer /\ NoReview /\ NoAnomaly /\ NoGap /\ NoTraining
  \/ /\ scene = "anomalies" /\ Anomalies!Init
     /\ steps = None /\ NoRequest /\ NoComponents /\ NoFiles /\ NoAnswer /\ NoReview /\ NoTable /\ NoGap /\ NoTraining
  \/ /\ scene = "gaps" /\ Gap!Init
     /\ steps = None /\ NoRequest /\ NoComponents /\ NoFiles /\ NoAnswer /\ NoReview /\ NoTable /\ NoAnomaly /\ NoTraining
  \/ /\ scene = "training" /\ Training!Init
     /\ steps = None /\ NoRequest /\ NoComponents /\ NoFiles /\ NoAnswer /\ NoReview /\ NoTable /\ NoAnomaly /\ NoGap

Next ==
  /\ UNCHANGED scene
  /\ \/ /\ scene = "components" /\ Components!Next
        /\ UNCHANGED <<steps, fileVars, answerVars, reviewVars, tableVars, anomalyVars, gapVars, trainingVars>>
     \/ /\ scene = "files" /\ Imported!Next
        /\ UNCHANGED <<steps, componentVars, answerVars, reviewVars, tableVars, anomalyVars, gapVars, trainingVars>>
     \/ /\ scene = "answers" /\ Answers!Next
        /\ UNCHANGED <<steps, requestVars, componentVars, fileVars, reviewVars, tableVars, anomalyVars, gapVars, trainingVars>>
     \/ /\ \/ scene = "review" /\ Review!Next
           \/ scene = "rounds" /\ Rounds!Next
        /\ UNCHANGED <<requestVars, componentVars, fileVars, answerVars, tableVars, anomalyVars, gapVars, trainingVars>>
     \/ /\ scene = "tables" /\ Lineage!Next
        /\ UNCHANGED <<requestVars, componentVars, fileVars, answerVars, reviewVars, anomalyVars, gapVars, trainingVars>>
     \/ /\ scene = "anomalies" /\ Anomalies!Next
        /\ UNCHANGED <<steps, requestVars, componentVars, fileVars, answerVars, reviewVars, tableVars, gapVars, trainingVars>>
     \/ /\ scene = "gaps" /\ Gap!Next
        /\ UNCHANGED <<steps, requestVars, componentVars, fileVars, answerVars, reviewVars, tableVars, anomalyVars, trainingVars>>
     \/ /\ scene = "training" /\ Training!Next
        /\ UNCHANGED <<steps, requestVars, componentVars, fileVars, answerVars, reviewVars, tableVars, anomalyVars, gapVars>>

Spec == Init /\ [][Next]_vars

Symmetry == Permutations(Sessions)

-----------------------------------------------------------------------------
MCNames == {[id |-> 1, stem |-> <<"a">>], [id |-> 2, stem |-> <<"a">>],
            [id |-> 3, stem |-> <<"a", 2>>], [id |-> 4, stem |-> <<"b">>]}
MCPages == [index : {None, 0, 1, 2}, text : {"", "x"}]

\* Workflows of four nodes that cases may be launched with.
Link(i, j) == [source |-> <<"get", i>>, target |-> <<"get", j>>]
CaseKinds == {<<"RV-001", None>>, <<"RV-009", "f">>, <<"RV-009", None>>, <<"RV-010", "f">>,
              <<"RV-007", "f">>, <<"RV-007", "expert_review">>}
CaseGraphs ==
  {[nodes |-> [i \in 1..4 |-> [id |-> <<"get", i>>, type |-> k[i][1], form |-> k[i][2], case |-> None]],
    edges |-> edges] :
     k \in [1..4 -> CaseKinds], edges \in {<<>>, <<Link(1, 2), Link(3, 4)>>, <<Link(4, 3)>>}}

(* No component contains itself, nothing it refers to is missing, a package   *)
(* is complete (see WorkflowComponents); and a case that is imported keeps    *)
(* its name, its file and its score, and runs with the graph it fits (see     *)
(* CaseFiles).                                                                *)
ImportsHold ==
  /\ scene = "components" => Components!ComponentsHold
  /\ scene = "files" =>
       /\ Imported!CaseFilesHold
       /\ started = 0 => \A g \in CaseGraphs : Imported!BindingSettles(g, "c") /\ Imported!BranchIsBound(g, "c")

(* Who is asked is the one whose answer is read (see TaskAnswers); forms,      *)
(* reviews and scores of a case fit one another, batches of proposals keep    *)
(* apart and pages come in any order (see ReviewNodes).                       *)
ReviewHolds ==
  /\ scene = "answers" => Answers!AnswersHold
  /\ scene = "rounds" => Rounds!CasesHold
  /\ scene = "review" =>
    /\ Review!CasesHold
    /\ steps = 0 =>
         /\ \A pages \in UNION {[1..n -> MCNames] : n \in 1..3} :
              IsInjective([i \in DOMAIN pages |-> pages[i].id]) => Review!BatchIdsDiffer(pages)
         /\ \A entries \in UNION {[1..n -> MCPages] : n \in 1..3} : Review!PagesInAnyOrder(2, entries)
         /\ \A f \in MCForms, v, m \in MCReplies : Review!EnteredStays(f, v, m)

(* Rows keep their names and held-out rows stay out, from a table to the      *)
(* score of a model; what is reported as anomalous is: see TableLineage,      *)
(* ModelTraining, AnomalyClasses and SortedGap.                               *)
TablesHold ==
  /\ scene = "tables" => Lineage!LineageHolds
  /\ scene = "training" => Training!TrainingHolds
  /\ scene = "anomalies" => Anomalies!AnomaliesHold
  /\ scene = "gaps" => Gap!TailsAreCut
=============================================================================
