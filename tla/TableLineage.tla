----------------------------- MODULE TableLineage -----------------------------
(* What a table port carries from node to node: the rows, the ID column, the *)
(* mark left by preprocessing that was fitted on the rows, and row_keys, the *)
(* position of each row in the frame the lineage began with (nodes/io.py,    *)
(* nodes/types.py).  A node returns a frame; the contract that wraps every   *)
(* node finds the keys of its rows again.                                    *)
(*                                                                           *)
(* Columns are kept as far as they can name rows: "a" and "b" of the source  *)
(* and "c", the names a derived table gives to its rows.  All other columns  *)
(* are active in every table.  `from` is history: the place of the row in    *)
(* the frame its lineage began with.                                         *)
EXTENDS Integers, Sequences, FiniteSets, SequencesExt, FiniteSetsExt

CONSTANTS
  None,
  Sources,   \* datasets: sequences of [a |-> , b |-> ]
  Groups,    \* numbers of rows a derived table may have
  Subsets,   \* what a filter or a selection keeps, by place
  Orders,    \* what user code returns: places of its input, in any order
  MaxSteps   \* bound: nodes on the path

VARIABLES
  table,     \* the payload at the end of the path
  side,      \* the payload of another path, for nodes with two inputs
  trained,   \* split nodes: did the rows they received take part in a fit
  steps

vars == <<table, side, trained, steps>>

Columns == {"a", "b", "c"}
Blank == [a |-> None, b |-> None, c |-> None]
Row(ix, fields, from) == [ix |-> ix, fields |-> fields, from |-> from]
Ix(rows) == [i \in DOMAIN rows |-> rows[i].ix]
Column(rows, c) == [i \in DOMAIN rows |-> rows[i].fields[c]]
PlaceOf(seq, x) == CHOOSE i \in DOMAIN seq : seq[i] = x
Renumbered(rows) == [i \in DOMAIN rows |-> [rows[i] EXCEPT !.ix = i - 1]]

\* A payload that begins a lineage of its own.
Fresh(rows, cols, id, mark) ==
  [rows |-> [i \in DOMAIN rows |-> [rows[i] EXCEPT !.from = i]], cols |-> cols, id |-> id,
   keys |-> [i \in DOMAIN rows |-> i], size |-> Len(rows), mark |-> mark,
   fits |-> FALSE, guessed |-> FALSE]

-----------------------------------------------------------------------------
(* apply_dataframe_contract *)

\* Mutant: the rows of a shorter frame are taken to be the first rows.
KeysByPlace(up, rows, cols) ==
  IF Len(rows) <= Len(up.keys) THEN SubSeq(up.keys, 1, Len(rows)) ELSE None

Unambiguous(seq) == IsInjective(seq) /\ None \notin ToSet(seq)
Covers(seq, part) == ToSet(part) \subseteq ToSet(seq)

\* _aligned_row_keys: by ID when the IDs can tell, else by the frame's index.
AlignedKeys(up, rows, cols) ==
  LET named == up.id # None /\ up.id \in cols
      ids   == Column(up.rows, up.id)
      new   == Column(rows, up.id)
      index == Ix(up.rows)
  IN IF up.id # None /\ up.id \notin cols THEN None
     ELSE IF named /\ Unambiguous(ids) /\ None \notin ToSet(new) /\ Covers(ids, new)
          THEN [i \in DOMAIN rows |-> up.keys[PlaceOf(ids, new[i])]]
     ELSE IF Ix(rows) = index THEN up.keys
     ELSE IF IsInjective(Ix(rows)) /\ IsInjective(index) /\ Covers(index, Ix(rows))
          THEN [i \in DOMAIN rows |-> up.keys[PlaceOf(index, rows[i].ix)]]
     ELSE None

Marked(mark, up) == mark \/ up.mark

\* inherit_dataframe_contract: a frame whose rows cannot be found, or that has
\* an ID column of its own, begins a lineage.
Inherited(rows, cols, id, mark, up) ==
  LET keys == AlignedKeys(up, rows, cols) IN
  IF (id # None /\ up.id # None /\ id # up.id) \/ keys = None
  THEN Fresh(rows, cols, id, mark)
  ELSE [up EXCEPT !.rows = rows, !.cols = cols, !.keys = keys,
                  !.id = IF id = None THEN up.id ELSE id, !.mark = Marked(mark, up)]

-----------------------------------------------------------------------------
(* The nodes *)

Init ==
  /\ table = None /\ side = None /\ trained = {} /\ steps = 0

Publish(payload) ==
  /\ steps < MaxSteps /\ steps' = steps + 1
  /\ table' = payload
  /\ UNCHANGED trained

\* ensure_df: most nodes refuse an empty frame.
Filled == table # None /\ Len(table.rows) > 0

KeepSide == UNCHANGED side

\* Upload CSV/Excel: the ID column is checked when it is asked to be unique.
Load(source, id, unique) ==
  LET rows == [i \in DOMAIN source |-> Row(i - 1, [Blank EXCEPT !.a = source[i].a, !.b = source[i].b], i)]
  IN /\ (table = None \/ side = None)
     /\ (id # None /\ unique) => Unambiguous(Column(rows, id))
     /\ Publish(Fresh(rows, {"a", "b"}, id, FALSE))
     /\ side' = table

\* Data Filter, rows: what matches keeps its index.
FilterRows(kept) ==
  /\ Filled
  /\ Publish(Inherited(SelectSeq(table.rows, LAMBDA r : r.ix \in kept), table.cols, table.id, table.mark, table))
  /\ KeepSide

\* Data Filter, columns: the columns a report names.
FilterColumns(cols) ==
  /\ Filled
  /\ Publish(Inherited(table.rows, cols, IF table.id \in cols THEN table.id ELSE None, table.mark, table))
  /\ KeepSide

\* Select Rows / Columns: keeps the keys by the index and may change the ID.
SelectColumns(first, last, id) ==
  LET to   == IF id = None THEN table.id ELSE id
      end  == Min({last, Len(table.rows)})
      rows == SubSeq(table.rows, first, end)
      keys == SubSeq(table.keys, first, end)
      kept == [table EXCEPT !.rows = rows, !.keys = keys, !.id = to]
      again == Inherited(rows, table.cols, to, table.mark, table)
  IN /\ Filled /\ (to = None \/ to \in table.cols)
     /\ IsInjective(Ix(table.rows))
     /\ Publish(IF (table.id # None /\ to # table.id) \/ AlignedKeys(table, rows, table.cols) = None
                THEN kept ELSE again)
     /\ KeepSide

\* Remove Duplicate Rows.
DropDuplicates(c, keep) ==
  LET same(i) == {j \in DOMAIN table.rows : table.rows[j].fields[c] = table.rows[i].fields[c]}
      stays(i) == CASE keep = "first" -> i = Min(same(i))
                    [] keep = "last"  -> i = Max(same(i))
                    [] keep = "none"  -> same(i) = {i}
      places == SetToSortSeq({i \in DOMAIN table.rows : stays(i)}, <)
  IN /\ Filled
     /\ Publish(Inherited([k \in DOMAIN places |-> table.rows[places[k]]], table.cols, table.id, table.mark, table))
     /\ KeepSide

\* Imputation, Scaler: fitted on all rows, which leaves a mark.
Fit ==
  /\ Filled
  /\ Publish([Inherited(table.rows, table.cols, table.id, TRUE, table) EXCEPT !.fits = TRUE])
  /\ KeepSide

\* Convert Column Type, Ratio, Pass Through, exports: the frame alone.
Bare ==
  /\ Filled
  /\ Publish(Inherited(table.rows, table.cols, None, FALSE, table))
  /\ KeepSide

\* Interactive Table: edits and selections by the place of a row in the
\* present input, or by the key of a row that was added.
EditTable(edit, added, chosen, cols) ==
  LET edited == [i \in DOMAIN table.rows |->
                   IF i = edit.place /\ edit.column \in table.cols
                   THEN [table.rows[i] EXCEPT !.fields[edit.column] = edit.value] ELSE table.rows[i]]
      all    == edited \o [k \in 1..added |-> Row(0, Blank, 0)]
      places == SetToSortSeq(chosen \cap DOMAIN all, <)
      kept   == (cols \cup {table.id}) \cap table.cols
  IN /\ table # None
     /\ Publish(Fresh(Renumbered([k \in DOMAIN places |-> all[places[k]]]), kept,
                      IF table.id \in kept THEN table.id ELSE None, FALSE))
     /\ KeepSide

Narrowed(row, cols) == [row EXCEPT !.fields = [c \in Columns |-> IF c \in cols THEN row.fields[c] ELSE None]]

\* Combine DataFrames, rows.
CombineRows(policy) ==
  LET cols == IF policy = "intersection" THEN table.cols \cap side.cols ELSE table.cols \cup side.cols
      both == table.rows \o side.rows
      id   == IF table.id = side.id THEN table.id ELSE None
  IN /\ table # None /\ side # None
     /\ policy = "match" => table.cols = side.cols
     /\ Publish(Fresh(Renumbered([i \in DOMAIN both |-> Narrowed(both[i], cols)]), cols,
                      IF id \in cols THEN id ELSE None, FALSE))
     /\ KeepSide

\* Names that both frames use are made different; the ID's stays.
Apart(id) == {c \in (table.cols \cup side.cols) \ {id} : ~(c \in table.cols /\ c \in side.cols)}
Joined(l, r, id, name) ==
  Row(0, [c \in Columns |-> CASE c = id -> name
                             [] c \in Apart(id) \cap table.cols -> l[c]
                             [] c \in Apart(id) \cap side.cols -> r[c]
                             [] OTHER -> None], 0)

\* Combine DataFrames, columns by position: the first input's ID stays.
CombineByPlace ==
  LET id == table.id
      row(l, r) == Joined(l, r, id, IF id = None THEN None ELSE l[id])
  IN /\ table # None /\ side # None /\ Len(table.rows) = Len(side.rows)
     /\ Publish(Fresh(Renumbered([i \in DOMAIN table.rows |-> row(table.rows[i].fields, side.rows[i].fields)]),
                      Apart(id) \cup ({id} \cap table.cols), id, FALSE))
     /\ KeepSide

\* Combine DataFrames, columns by ID: IDs must be unique and present.
CombineById(id, how) ==
  LET left  == Column(table.rows, id)
      right == Column(side.rows, id)
      ids   == CASE how = "inner" -> SelectSeq(left, LAMBDA x : Contains(right, x))
                 [] how = "left"  -> left
                 [] how = "outer" -> SetToSortSeq(ToSet(left) \cup ToSet(right), <)
      of(rows, seq, x) == IF Contains(seq, x) THEN rows[PlaceOf(seq, x)].fields ELSE Blank
  IN /\ table # None /\ side # None /\ id \in table.cols \cap side.cols
     /\ Unambiguous(left) /\ Unambiguous(right)
     /\ Publish(Fresh(Renumbered([i \in DOMAIN ids |->
                        Joined(of(table.rows, left, ids[i]), of(side.rows, right, ids[i]), id, ids[i])]),
                      Apart(id) \cup {id}, id, FALSE))
     /\ KeepSide

\* Group Summary: one row per group, in the order the groups appear.
Summarise(c) ==
  LET firsts == SetToSortSeq({i \in DOMAIN table.rows :
                  \A j \in 1..(i - 1) : table.rows[j].fields[c] # table.rows[i].fields[c]}, <)
  IN /\ Filled /\ c \in table.cols
     /\ Publish(Fresh(Renumbered([k \in DOMAIN firsts |-> Narrowed(table.rows[firsts[k]], {c})]), {c}, None, table.mark))
     /\ KeepSide

MisKeyed(payload) == \E i \in DOMAIN payload.rows : payload.keys[i] # payload.rows[i].from

Names(n) == [k \in 1..n |-> Row(k - 1, [Blank EXCEPT !.c = k], 0)]

\* Transpose: the columns become the rows, the unique IDs the columns.
Transpose(n) ==
  /\ Filled /\ table.id # None /\ Unambiguous(Column(table.rows, table.id))
  /\ Publish(Fresh(Names(n), {"c"}, "c", FALSE))
  /\ KeepSide

\* The report of Sorted-gap Outliers: a row per column, and no reset.
Report(n) ==
  LET new == Inherited(Names(n), {"c"}, "c", FALSE, table) IN
  /\ Filled
  /\ Publish([new EXCEPT !.guessed = MisKeyed(new)])
  /\ KeepSide

\* Python Code, custom nodes: the user's code sees the rows without their index
\* and returns rows in any order, with or without the ID column.
RunCode(places, cols) ==
  LET rows == Renumbered([k \in DOMAIN places |-> Narrowed(table.rows[places[k]], cols)])
      new  == Inherited(rows, cols, None, FALSE, table)
      sure == table.id # None /\ Unambiguous(Column(table.rows, table.id))
  IN /\ table # None /\ Len(places) > 0
     /\ Publish([new EXCEPT !.guessed = (new.guessed \/ ~sure) /\ MisKeyed(new)])
     /\ KeepSide

\* require_unfitted_input
Unfitted(payload) == ~payload.mark

\* Train/Test Split, K-Fold Split.
Split ==
  /\ Filled /\ Unfitted(table)
  /\ trained' = trained \cup {table.fits}
  /\ steps < MaxSteps /\ steps' = steps + 1
  /\ UNCHANGED <<table, side>>

Next ==
  \/ \E s \in Sources, id \in {None, "a", "b"}, u \in BOOLEAN : Load(s, id, u)
  \/ \E kept \in Subsets : FilterRows({i - 1 : i \in kept})
  \/ \E cols \in SUBSET Columns : table # None /\ cols \subseteq table.cols /\ FilterColumns(cols)
  \/ \E id \in {None} \cup Columns, i \in 1..2, j \in {2, 5} : SelectColumns(i, j, id)
  \/ \E c \in Columns, k \in {"first", "last", "none"} : DropDuplicates(c, k)
  \/ Fit \/ Bare \/ Split \/ CombineByPlace
  \/ \E v \in {None, 1}, n \in 0..1, chosen \in Subsets, cols \in {{}, Columns} :
       EditTable([place |-> 2, column |-> "a", value |-> v], n, chosen, cols)
  \/ \E p \in {"match", "union", "intersection"} : CombineRows(p)
  \/ \E id \in Columns, how \in {"inner", "left", "outer"} : CombineById(id, how)
  \/ \E c \in Columns : Summarise(c)
  \/ \E n \in Groups : Transpose(n) \/ Report(n)
  \/ \E places \in Orders, cols \in {{"b"}, Columns} :
       table # None /\ ToSet(places) \subseteq DOMAIN table.rows /\ RunCode(places, cols \cap table.cols)

-----------------------------------------------------------------------------
(* The key of a row names the row it came from, in every table a path of     *)
(* nodes can produce: rows dropped, reordered by IDs, joined, edited, with   *)
(* IDs that repeat or are missing (_aligned_row_keys: "without length-based  *)
(* guessing").  Excused: rows that user code or the report of Sorted-gap     *)
(* Outliers returns on a frame that no ID names, where the new index is      *)
(* taken for the old one.                                                    *)
RowsNameTheirSource ==
  \A t \in {table, side} \ {None} :
    t.guessed \/ \A i \in DOMAIN t.rows : t.keys[i] = t.rows[i].from /\ t.keys[i] \in 1..t.size

(* No split receives rows on which imputation or scaling was fitted since    *)
(* their lineage began, however many nodes that know nothing of it lie       *)
(* between (preprocessing_node.py).  Interactive Table, Combine and code     *)
(* that drops the ID begin a lineage of their own and forget the mark.       *)
SplitsAreUnfitted == TRUE \notin trained

LineageHolds == RowsNameTheirSource /\ SplitsAreUnfitted
=============================================================================
