------------------------------- MODULE SortedGap -------------------------------
(* Sorted-gap Outliers (sorted_gap_node.py) on one column: an abrupt step     *)
(* between two neighbours of the sorted values cuts off a tail, whose values  *)
(* may be replaced.  How wide a step must be to be abrupt is external.        *)
EXTENDS Integers, Sequences, FiniteSets, SequencesExt, FiniteSetsExt

CONSTANTS
  None,
  Steps,       \* how much a value may exceed the one before it
  MaxSize,     \* bound: values in the column
  Cuts         \* <<most outliers per tail, fewest regular values, abrupt step>>

VARIABLES
  gaps,        \* the steps between the sorted values
  result

vars == <<gaps, result>>

Init == gaps = <<>> /\ result = None

\* The column has one value more.
Read(step) ==
  /\ result = None /\ Len(gaps) + 1 < MaxSize
  /\ gaps' = Append(gaps, step)
  /\ UNCHANGED result

Values == [i \in 1..(Len(gaps) + 1) |-> FoldLeft(+, 0, SubSeq(gaps, 1, i - 1))]

\* _tail_cut: the gaps where a tail may be cut; place i is the gap after value i.
Cuttable(side, size, cut) ==
  IF side = "upper" THEN Max({cut[2], size - cut[1]})..(size - 1)
  ELSE 1..Min({cut[1], size - cut[2]})

\* The widest such gap beyond the threshold, the first of equals.
TailCut(side, cut) ==
  LET eligible == {i \in Cuttable(side, Len(gaps) + 1, cut) : gaps[i] > cut[3]}
  IN IF Len(gaps) + 1 < Max({5, cut[2] + 1}) \/ eligible = {} THEN None
     ELSE CHOOSE i \in eligible : \A j \in eligible : gaps[j] < gaps[i] \/ (gaps[j] = gaps[i] /\ i <= j)

\* _replacement_value, for values counted double because of the median.
Replacement(mode, clean, bound) ==
  CASE mode = "nearest_boundary" -> 2 * bound
    [] mode = "median" -> clean[(Len(clean) + 1) \div 2] + clean[(Len(clean) + 2) \div 2]
    [] mode = "missing" -> None

CutTails(tail, cut, mode) ==
  LET values == Values
      lower == IF tail \in {"both", "lower"} THEN TailCut("lower", cut) ELSE None
      upper == IF tail \in {"both", "upper"} THEN TailCut("upper", cut) ELSE None
      low   == IF lower = None THEN {} ELSE {i \in DOMAIN values : values[i] < values[lower + 1]}
      high  == IF upper = None THEN {} ELSE {i \in DOMAIN values : values[i] > values[upper]}
      clean == SelectSeq([i \in DOMAIN values |-> IF i \in low \cup high THEN None ELSE values[i]],
                         LAMBDA v : v # None)
      corrected(i) == CASE mode = "keep" \/ i \notin low \cup high -> 2 * values[i]
                        [] i \in high -> Replacement(mode, clean, values[upper])
                        [] OTHER -> Replacement(mode, clean, values[lower + 1])
  IN /\ result = None
     /\ result' = [values |-> values, low |-> low, high |-> high, cut |-> cut, mode |-> mode,
                  corrected |-> [i \in DOMAIN values |-> corrected(i)]]
     /\ UNCHANGED gaps

Next ==
  \/ \E step \in Steps : Read(step)
  \/ \E tail \in {"both", "upper", "lower"}, cut \in Cuts,
        mode \in {"keep", "nearest_boundary", "median", "missing"} : CutTails(tail, cut, mode)

-----------------------------------------------------------------------------
(* A tail loses at most its share and leaves the fewest regular values; what *)
(* is put in place of an outlier lies among the values that remain, in their *)
(* order.  Excused: both tails together may leave fewer.                     *)
TailsAreCut ==
  result # None =>
    LET clean == DOMAIN result.values \ (result.low \cup result.high) IN
    /\ \A side \in {result.low, result.high} :
         /\ Cardinality(side) <= result.cut[1]
         /\ side = {} \/ Len(result.values) - Cardinality(side) >= result.cut[2]
    /\ result.low \cap result.high = {} /\ clean # {}
    /\ \A i \in result.low \cup result.high :
         result.mode \in {"nearest_boundary", "median"} =>
           /\ \E j \in clean : 2 * result.values[j] <= result.corrected[i]
           /\ \E j \in clean : 2 * result.values[j] >= result.corrected[i]
    /\ result.mode = "nearest_boundary" =>
         \A i, j \in DOMAIN result.values : i < j => result.corrected[i] <= result.corrected[j]

=============================================================================
