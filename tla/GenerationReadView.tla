------------------------- MODULE GenerationReadView -------------------------
(***************************************************************************)
(* GenerationState and the addressing of a read view over it               *)
(* (src/susano/generation_read_view.hpp): one logical row space made of an *)
(* immutable main, an optional closed delta and a prefix of the active     *)
(* delta.  RowIds count from 0, sequences from 1.                          *)
(***************************************************************************)
EXTENDS ColumnValues

CONSTANT NoDelta   \* a null closed_delta pointer

\* MainColumn{source}: the rows of source as the dictionary column decodes them
\* (DictionaryColumn says how).
MainColumn(rows) == [i \in DOMAIN rows |-> Canonical(rows[i])]

\* ClosedDeltaColumn: an immutable prefix and the RowId of its first row.
ClosedDelta == [base : Nat, rows : Seq(Row)]

ASSUME NoDeltaAssumption == NoDelta \notin ClosedDelta

\* active is a reference into the heap of ConcurrentDeltaColumns.
GenerationState ==
  [generation : Nat, main : Seq(Row), closed : ClosedDelta \cup {NoDelta},
   active : Nat, base : Nat]

ClosedSize(s) == IF s.closed = NoDelta THEN 0 ELSE Len(s.closed.rows)

\* GenerationReadView::size with n rows in the active prefix.
LogicalSize(s, n) == s.base + n

\* is_null / value: which of the three stores answers for RowId i.
RowAt(s, prefix, i) ==
  IF i < Len(s.main) THEN s.main[i + 1]
  ELSE IF i < s.base THEN s.closed.rows[i - Len(s.main) + 1]
  ELSE prefix[i - s.base + 1]

\* All rows of a view, up to the operator== of the values.
LogicalRows(s, prefix, n) ==
  [k \in 1..LogicalSize(s, n) |-> Canonical(RowAt(s, prefix, k - 1))]
=============================================================================
