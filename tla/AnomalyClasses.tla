----------------------------- MODULE AnomalyClasses -----------------------------
(* Anomaly detection over two tables (nodes/anomaly_detection): one table     *)
(* decides which samples are anomalous, the other supplies the values that    *)
(* are reported, and the two are joined by the workflow ID.                   *)
(*                                                                            *)
(* A table is a sequence of [id, x]; an ID is <<what it is compared by, how   *)
(* it is written>>, since 1, 1.0 and "1" are one ID.  A column is             *)
(* [base, prefix]: the variable and the transformation its name tells.  Every *)
(* variable of a row has the value x.  Means and quantiles are external.      *)
EXTENDS Integers, Sequences, FiniteSets, SequencesExt, FiniteSetsExt

CONSTANTS
  None,
  Tables,      \* payloads: [rows, cols |-> numeric columns, named |-> has an ID column]
  Limits,      \* sets of thresholds or multipliers, in hundredths
  Centers      \* <<low, high, spread>>: the statistics of a column

VARIABLES
  tables,      \* upstream node -> its payload
  wired,       \* upstream nodes connected to "data"
  found        \* what the last detector returned

vars == <<tables, wired, found>>

Nodes == {"p", "q"}
Ascending(S) == SetToSortSeq(S, <)
Descending(S) == SetToSortSeq(S, >)

-----------------------------------------------------------------------------
(* _build_alignment: where each calculated sample is in the other table *)

Normal(row) == row.id[1]
Keys(t) == [i \in DOMAIN t.rows |-> Normal(t.rows[i])]
HasIds(t) == \A i \in DOMAIN t.rows : t.rows[i].id # None

\* Two tables can be aligned.  The two are always copies, so a table compared
\* with itself needs unique IDs as well.
Alignable(calc, det) ==
  \/ /\ calc.named /\ det.named /\ HasIds(calc) /\ HasIds(det)
     /\ IsInjective(Keys(calc)) /\ IsInjective(Keys(det))
     /\ ToSet(Keys(calc)) \subseteq ToSet(Keys(det))
  \/ /\ ~calc.named /\ ~det.named
     /\ Len(calc.rows) = Len(det.rows)

Positions(calc, det) ==
  IF ~calc.named THEN [i \in DOMAIN calc.rows |-> i]
  ELSE [i \in DOMAIN calc.rows |-> CHOOSE j \in DOMAIN det.rows : Keys(det)[j] = Keys(calc)[i]]

-----------------------------------------------------------------------------
(* _resolve_pairs *)

Candidates(det, c) == {d \in ToSet(det) : d.base = c.base}

\* _resolve_pairs: the same name, or else the only column of that variable.
Resolvable(calc, det) ==
  /\ \A k \in DOMAIN calc : calc[k] \in ToSet(det) \/ Cardinality(Candidates(det, calc[k])) = 1
  /\ IsInjective([k \in DOMAIN calc |-> calc[k].base])

PairOf(det, c) == IF c \in ToSet(det) THEN c ELSE CHOOSE d \in Candidates(det, c) : TRUE

Pairs(calc, det) == [k \in DOMAIN calc |-> <<calc[k], PairOf(det, calc[k])>>]

-----------------------------------------------------------------------------
(* Classes: what is tried on a value, in order, and how it is named *)

\* _number_label prints six digits: here hundredths are lost.
Named(prefix, limit) == <<prefix, limit \div 100>>

\* _slug: of the sign of a number, of + and of the operator nothing remains.
Slug(name) == <<IF name[1] \in {"Q1", "Q3"} THEN name[1] ELSE "",
                IF name[2] < 0 THEN -name[2] ELSE name[2]>>

Test(op, limit, name) == [op |-> op, limit |-> limit, name |-> name]

Crossed(test, v) ==
  CASE test.op = ">"  -> v > test.limit  [] test.op = ">=" -> v >= test.limit
    [] test.op = "<"  -> v < test.limit  [] test.op = "<=" -> v <= test.limit
    [] test.op = "==" -> v = test.limit  [] test.op = "!=" -> v # test.limit

\* manual
Manual(op, limits) ==
  LET ordered == IF op \in {">", ">="} THEN Descending(limits) ELSE Ascending(limits)
  IN [k \in DOMAIN ordered |-> Test(op, ordered[k], Named(op, ordered[k]))]

Upper(prefix, high, spread, ms) ==
  [k \in DOMAIN ms |-> Test(">", high + ms[k] * spread, Named(prefix, ms[k]))]
Lower(prefix, low, spread, ms) ==
  [k \in DOMAIN ms |-> Test("<", low - ms[k] * spread, Named(prefix, ms[k]))]

\* zscore, iqr: the widest band is tried first; no spread, no anomaly.
Banded(names, tail, stat, limits) ==
  LET ms == Descending({m \in limits : m > 0})
  IN IF stat[3] <= 0 THEN <<>>
     ELSE (IF tail \in {"upper", "both"} THEN Upper(names[2], stat[2], stat[3], ms) ELSE <<>>)
          \o (IF tail \in {"lower", "both"} THEN Lower(names[1], stat[1], stat[3], ms) ELSE <<>>)

\* The first test a value crosses.
Class(tests, v) ==
  LET hit == {k \in DOMAIN tests : Crossed(tests[k], v)}
  IN IF v = None \/ hit = {} THEN None ELSE tests[Min(hit)].name

-----------------------------------------------------------------------------
(* _build_result *)

\* The records of every class, one class after the other.
Records(calc, det, tests) ==
  LET at == Positions(calc, det)
      rec(i, name) == [sample |-> det.rows[at[i]].id, class |-> name, calc |-> i, det |-> at[i]]
      of(name) == LET is == Ascending({i \in DOMAIN calc.rows : Class(tests, calc.rows[i].x) = name})
                  IN [k \in DOMAIN is |-> rec(is[k], name)]
  IN FlattenSeq([k \in DOMAIN tests |-> of(tests[k].name)])

\* A flag column per class; a later class of the same name replaces it.
Flags(records, tests) ==
  LET column(slug) ==
        LET last == Max({k \in DOMAIN tests : Slug(tests[k].name) = slug})
        IN {records[r].det : r \in {r \in DOMAIN records : records[r].class = tests[last].name}}
  IN [slug \in {Slug(tests[k].name) : k \in DOMAIN tests} |-> column(slug)]

Result(calc, det, pairs, tests) ==
  LET records == Records(calc, det, tests)
  IN [calc |-> calc, det |-> det, pairs |-> pairs, tests |-> tests,
      records |-> records,
      counts |-> [k \in DOMAIN tests |->
                    Cardinality({i \in DOMAIN calc.rows : Class(tests, calc.rows[i].x) = tests[k].name})],
      flags |-> Flags(records, tests)]

-----------------------------------------------------------------------------
(* The nodes *)

Init ==
  /\ tables \in [Nodes -> Tables]
  /\ wired \in SUBSET Nodes
  /\ found = None

\* selected_input_dataframe: the settings name a node that is connected.
Selectable(source) == source \in wired

HasNumbers(t) == \E i \in DOMAIN t.rows : t.rows[i].x # None

\* AnomalyDetection._split_combined: one table that holds both.
Combined(columns) ==
  LET raw  == SelectSeq(columns, LAMBDA c : c.prefix = "raw_")
      calc == SelectSeq(columns, LAMBDA c : c.prefix \in {"ln_", "bc_", "r_"})
  IN IF raw = <<>> \/ calc = <<>> THEN <<columns, columns>> ELSE <<calc, raw>>

\* DualDataAnomalyDetector
Detected(calc, det, from, to, tests) ==
  /\ found = None
  /\ Len(from) > 0 /\ Len(to) > 0 /\ Resolvable(from, to)
  /\ HasNumbers(calc) /\ HasNumbers(det) /\ Alignable(calc, det)
  /\ found' = Result(calc, det, Pairs(from, to), tests)
  /\ UNCHANGED <<tables, wired>>

\* Z-Score (upper tail), IQR (both tails), Manual Threshold: all numeric
\* columns, or those the settings select.
Detect(from, to, columns, tests) ==
  LET calc == tables[from] det == tables[to] IN
  /\ Selectable(from) /\ Selectable(to)
  /\ Detected(calc, det, SelectSeq(calc.cols, LAMBDA c : c \in columns), det.cols, tests)

\* AnomalyDetection without a second table.
DetectCombined(from, tests) ==
  LET both == Combined(tables[from].cols)
      bare == [tables[from] EXCEPT !.named = FALSE]
  IN Detected(bare, bare, both[1], both[2], tests)

-----------------------------------------------------------------------------
Tails == {"upper", "lower", "both"}
Operators == {">", ">=", "<", "<=", "==", "!="}

Tests ==
  {Manual(op, limits) : op \in Operators, limits \in Limits}
    \cup {Banded(<<"Q1", "Q3">>, tail, stat, limits) : tail \in Tails, stat \in Centers, limits \in Limits}
    \cup {Banded(<<"X -", "X +">>, tail, <<stat[1], stat[1], stat[3]>>, limits) :
            tail \in Tails, stat \in Centers, limits \in Limits}

Next ==
  \E from \in Nodes, tests \in Tests :
    \/ \E to \in Nodes, columns \in SUBSET ToSet(tables[from].cols) : Detect(from, to, columns, tests)
    \/ DetectCombined(from, tests)

-----------------------------------------------------------------------------
NamesApart(tests) == IsInjective([k \in DOMAIN tests |-> tests[k].name])
Recorded(i) == {r \in DOMAIN found.records : found.records[r].calc = i}

(* Every record joins two rows of one sample (_build_alignment), however the *)
(* two tables are ordered and the IDs are written.                           *)
RecordsJoinOneSample ==
  found # None =>
    \A r \in DOMAIN found.records :
      LET rec == found.records[r] IN
      IF found.calc.named THEN Keys(found.calc)[rec.calc] = Keys(found.det)[rec.det] ELSE rec.calc = rec.det

(* A sample is recorded once, in the tightest class whose limit it crosses,  *)
(* if and only if it crosses one; counts say the same.  Excused: limits that *)
(* print alike, whose records are repeated.                                  *)
TightestClass ==
  (found # None /\ NamesApart(found.tests)) =>
      /\ \A i \in DOMAIN found.calc.rows :
           LET v   == found.calc.rows[i].x
               hit == {k \in DOMAIN found.tests : v # None /\ Crossed(found.tests[k], v)}
           IN /\ Cardinality(Recorded(i)) = IF hit = {} THEN 0 ELSE 1
              /\ \A r \in Recorded(i), k \in DOMAIN found.tests :
                   found.records[r].class = found.tests[k].name =>
                     /\ k \in hit
                     /\ \A j \in hit : found.tests[j].op = found.tests[k].op =>
                          CASE found.tests[k].op \in {">", ">="} -> found.tests[j].limit <= found.tests[k].limit
                            [] found.tests[k].op \in {"<", "<="} -> found.tests[j].limit >= found.tests[k].limit
                            [] OTHER -> TRUE
      /\ FoldLeft(+, 0, found.counts) = Len(found.records)

(* The flag columns mark the recorded rows.  Excused: classes whose names    *)
(* differ only in sign, which share a column.                                *)
FlagsMarkRecords ==
  (found # None /\ IsInjective([k \in DOMAIN found.tests |-> Slug(found.tests[k].name)])) =>
      \A k \in DOMAIN found.tests :
        found.flags[Slug(found.tests[k].name)] =
          {found.records[r].det : r \in {r \in DOMAIN found.records : found.records[r].class = found.tests[k].name}}

(* No two variables are reported from one column, and none from a column of  *)
(* another variable (_resolve_pairs: "instead of silently pairing").         *)
PairsAreApart ==
  found # None =>
    /\ IsInjective([k \in DOMAIN found.pairs |-> found.pairs[k][2]])
    /\ \A k \in DOMAIN found.pairs : found.pairs[k][1].base = found.pairs[k][2].base

AnomaliesHold ==
  /\ RecordsJoinOneSample
  /\ TightestClass
  /\ FlagsMarkRecords
  /\ PairsAreApart
=============================================================================
