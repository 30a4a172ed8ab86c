----------------------------- MODULE ModelTraining -----------------------------
(* Training and validating a model (nodes/ml_data_processing, ml_training,    *)
(* ml_analysis): the target is chosen, the rows are split or folded, one      *)
(* model is fitted, or one per fold, and pairs of rows are scored.  The       *)
(* library that draws splits and fits estimators is external: any split, and  *)
(* a fitted model is the rows and the encoded columns it was fitted on.       *)
(*                                                                            *)
(* What flows on an edge is a value: the keys it carries (`has`) decide what  *)
(* the receiving node makes of it.                                            *)
EXTENDS Integers, Sequences, FiniteSets, SequencesExt, FiniteSetsExt

CONSTANTS
  None,
  Rows,        \* rows of the table whose target is known
  Category,    \* row -> the category it has: which columns its encoding adds
  Splits,      \* <<train, test>> that may be drawn
  FoldLists,   \* sequences of test rows that may be drawn
  Columns,     \* active columns; "id" is the workflow ID
  MaxItems     \* bound: splits, folds and selections connected

VARIABLES
  frame,       \* the table: its target, the features it declares, are they chosen
  items,       \* nodes that offer training data
  model,       \* the trained model
  scored       \* the last validation

vars == <<frame, items, model, scored>>

Init ==
  /\ frame = [target |-> None, features |-> {}, direct |-> FALSE]
  /\ items = <<>> /\ model = None /\ scored = None

-----------------------------------------------------------------------------
(* Target and features *)

\* Set Target Column
SetTarget(t) ==
  /\ items = <<>> /\ t \in Columns
  /\ frame' = [frame EXCEPT !.target = t, !.direct = FALSE]
  /\ UNCHANGED <<items, model, scored>>

OrAll(cols, t) == IF cols \ {t} = {} THEN Columns \ {t} ELSE cols \ {t}

\* Select Features & Target: its table declares the features, its whole
\* result carries them.
SelectFeatures(t, cols, whole) ==
  /\ items = <<>> /\ t \in Columns
  /\ frame' = [target |-> t, features |-> OrAll(cols, t), direct |-> whole]
  /\ UNCHANGED <<items, model, scored>>

\* feature_target_from_inputs: chosen features, or all that are not the target.
Features(asked) == IF frame.direct THEN frame.features ELSE OrAll(frame.features, asked)

Target(asked) == IF frame.direct \/ asked = None THEN frame.target ELSE asked

-----------------------------------------------------------------------------
(* Splits and folds *)

Offer(item) ==
  /\ Len(items) < MaxItems /\ model = None
  /\ frame.target # None
  /\ items' = Append(items, [item EXCEPT !.target = frame.target, !.features = Features(frame.target)])
  /\ UNCHANGED <<frame, model, scored>>

Item(kind, parts) == [kind |-> kind, parts |-> parts, target |-> None, features |-> {}, prepared |-> FALSE]

\* Train/Test Split, K-Fold Split, Select Features as a source of its own.
TrainTestSplit(split) == Offer(Item("split", split))
KFoldSplit(folds) == Len(folds) >= 2 /\ Offer(Item("folds", folds))
WholeTable == Offer(Item("whole", <<Rows>>))

\* What a port of an item carries; without a handle, the whole result.
\* (Port "folds" carries the folds themselves and not under "kfold_data".)
Has(item, handle) ==
  CASE handle = "output" -> {"data_pairs", "features_df"}
         \cup (IF item.kind = "split" THEN {"split_data"} ELSE {})
         \cup (IF item.kind = "folds" THEN {"kfold_data"} ELSE {})
    [] handle = "port" /\ item.kind = "split" -> {"data_pairs", "split_data"}
    [] handle = "port" /\ item.kind = "folds" -> {"data_pairs"}
    [] OTHER -> {}

\* Training Preprocessor: refuses what is neither a split nor folds.
Prepare(i, handle) ==
  /\ model = None /\ ~items[i].prepared
  /\ Has(items[i], handle) \cap {"split_data", "kfold_data"} # {}
  /\ items' = [items EXCEPT ![i].prepared = TRUE]
  /\ UNCHANGED <<frame, model, scored>>

-----------------------------------------------------------------------------
(* Training *)

Pair(rows, fold, from) == [rows |-> rows, fold |-> fold, from |-> from]

\* data_pairs of an item, by name and fold.
PairsOf(i) ==
  LET item == items[i] IN
  CASE item.kind = "split" -> ( <<"train", 0>> :> Pair(item.parts[1], None, i)
                                @@ <<"test", 0>> :> Pair(item.parts[2], None, i) )
    [] item.kind = "folds" ->
         [p \in {"train", "test"} \X DOMAIN item.parts |->
            Pair(IF p[1] = "test" THEN item.parts[p[2]] ELSE Rows \ item.parts[p[2]], p[2], i)]
    [] item.kind = "whole" -> <<"all", 0>> :> Pair(Rows, None, i)

\* _fit_one: columns are encoded from the rows of the fit.
Encoded(rows) == {Category[r] : r \in rows}
Fitted(rows) == [rows |-> rows, columns |-> Encoded(rows)]

Model(i, mode, fits) ==
  [from |-> i, mode |-> mode, fits |-> fits, pairs |-> PairsOf(i),
   features |-> items[i].features, target |-> items[i].target]

\* The first input that carries what the mode asks for.
Usable(v, mode) ==
  \/ mode \in {"auto", "train_test_split"} /\ "split_data" \in v.has
  \/ mode \in {"auto", "k_fold"} /\ "kfold_data" \in v.has
  \/ mode \in {"auto", "full_data"} /\ "features_df" \in v.has

Train(inputs, mode) ==
  LET usable == {k \in DOMAIN inputs : Usable(inputs[k], mode)}
      v      == inputs[Min(usable)]
      item   == items[v.item]
  IN /\ model = None
     /\ usable # {}
     /\ model' =
          IF "split_data" \in v.has /\ mode # "full_data" THEN Model(v.item, "split", <<Fitted(item.parts[1])>>)
          ELSE IF "kfold_data" \in v.has /\ mode # "full_data"
          THEN Model(v.item, "folds", [f \in DOMAIN item.parts |-> Fitted(Rows \ item.parts[f])])
          ELSE Model(v.item, "full", <<Fitted(Rows)>>)
     /\ UNCHANGED <<frame, items, scored>>

\* A model node on a table: its own target setting, or the table's.
TrainOnTable(asked) ==
  /\ model = None /\ items = <<>>
  /\ Target(asked) # None
  /\ model' = [from |-> None, mode |-> "full", fits |-> <<Fitted(Rows)>>,
               pairs |-> <<"all", 0>> :> Pair(Rows, None, None),
               features |-> Features(Target(asked)), target |-> Target(asked)]
  /\ UNCHANGED <<frame, items, scored>>

-----------------------------------------------------------------------------
(* Validation *)

\* collect_data_pairs: what is connected besides adds to the model's own pairs
\* and takes the place of those with the same name.
CollectPairs(extra) == IF extra = None THEN model.pairs ELSE PairsOf(extra) @@ model.pairs

FoldTests(pairs) == {p \in DOMAIN pairs : p[1] = "test" /\ p[2] # 0}

\* _selected_pair_keys
SelectedPairs(pairs, asked) ==
  CASE asked = "fold_tests" -> FoldTests(pairs)
    [] asked # "auto" -> {<<asked, 0>>} \cap DOMAIN pairs
    [] OTHER -> IF <<"test", 0>> \in DOMAIN pairs THEN {<<"test", 0>>}
                ELSE IF FoldTests(pairs) # {} THEN FoldTests(pairs)
                ELSE {<<"all", 0>>} \cap DOMAIN pairs

\* predict_with_payload: a fold is predicted by its own model, with its columns.
Predictor(fold) ==
  IF fold # None /\ model.mode = "folds" /\ fold \in DOMAIN model.fits
  THEN model.fits[fold]
  ELSE model.fits[Len(model.fits)]

\* Model Validation; Prediction Plot does the same for the first pair.
Score(extra, asked, first) ==
  LET pairs == CollectPairs(extra)
      keys  == SelectedPairs(pairs, asked)
      taken == IF first /\ keys # {} THEN {CHOOSE p \in keys : \A q \in keys : p[2] <= q[2]} ELSE keys
  IN /\ model # None /\ scored = None
     /\ keys # {}
     /\ scored' = {[name |-> p, pair |-> pairs[p], by |-> Predictor(pairs[p].fold)] : p \in taken}
     /\ UNCHANGED <<frame, items, model>>

Values == UNION {{[item |-> i, has |-> Has(items[i], h)] : h \in {"output", "port"}} : i \in DOMAIN items}

Next ==
  \/ \E t \in Columns : SetTarget(t) \/ \E cols \in SUBSET Columns, whole \in BOOLEAN : SelectFeatures(t, cols, whole)
  \/ \E split \in Splits : TrainTestSplit(split)
  \/ \E folds \in FoldLists : KFoldSplit(folds)
  \/ WholeTable
  \/ \E i \in DOMAIN items, h \in {"output", "port"} : Prepare(i, h)
  \/ \E mode \in {"auto", "full_data", "train_test_split", "k_fold"} :
       \/ \E v \in Values : Train(<<v>>, mode)
       \/ \E v, w \in Values : v.item # w.item /\ Train(<<v, w>>, mode)
  \/ \E t \in {None} \cup Columns : TrainOnTable(t)
  \/ \E extra \in {None} \cup DOMAIN items, asked \in {"auto", "test", "train", "all", "fold_tests"}, first \in BOOLEAN :
       Score(extra, asked, first)

-----------------------------------------------------------------------------
(* Rows held out from training stay held out: whatever else is connected, a  *)
(* test pair of the model's own split or folds is never predicted by a model *)
(* that was fitted on one of its rows (predict_with_payload).  Excused: a    *)
(* model told to train on the full data of a split.                          *)
HeldOutStaysOut ==
  (scored # None /\ model.mode # "full") =>
    \A s \in scored :
      (s.name[1] = "test" /\ s.pair.from = model.from) => s.pair.rows \cap s.by.rows = {}

(* Together the folds score every row once, each with its own columns.       *)
FoldsScoreEveryRow ==
  (scored # None /\ model.mode = "folds" /\ {s.pair.from : s \in scored} = {model.from}
     /\ {s.name : s \in scored} = FoldTests(model.pairs)) =>
    /\ UNION {s.pair.rows : s \in scored} = Rows
    /\ \A s, t \in scored : s # t => s.pair.rows \cap t.pair.rows = {}
    /\ \A s \in scored : s.by.columns = Encoded(Rows \ s.pair.rows)

(* The target is never among the features, however the table declared them.  *)
TargetIsNoFeature ==
  /\ \A i \in DOMAIN items : items[i].target \notin items[i].features
  /\ model # None => (model.target \notin model.features /\ model.features # {})

TrainingHolds == HeldOutStaysOut /\ FoldsScoreEveryRow /\ TargetIsNoFeature
=============================================================================
