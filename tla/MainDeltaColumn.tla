--------------------------- MODULE MainDeltaColumn --------------------------
(***************************************************************************)
(* MainDeltaColumn<T>: a dictionary-encoded main that never changes and a  *)
(* raw delta that only grows (src/susano/main_delta_column.hpp, with       *)
(* main_delta_address.hpp and main_delta_predicates.hpp).  Single-threaded:*)
(* what can interrupt an append is an allocation that fails.               *)
(***************************************************************************)
EXTENDS FixedColumn, DictionaryColumn

CONSTANT MaxMainRows    \* bound on the rows of the initial column

ASSUME BoundsAssumption == MaxRows \in Nat /\ MaxMainRows \in Nat

VARIABLES
  main,        \* main_, encoded
  initial,     \* the rows main was built from (what the program forgets)
  appended     \* the rows whose append returned (what the program forgets)

vars == <<main, initial, appended, columnVars>>

Initials == {rows \in UNION {[1..n -> Row] : n \in 0..MaxMainRows} : Encodable(rows)}

Init ==
  /\ initial \in Initials
  /\ main = BuildEncoded(initial)
  /\ appended = << >>
  /\ EmptyColumn

AppendSucceeds(row) ==
  /\ Len(values) < MaxRows
  /\ AppendRow(row)
  /\ appended' = Append(appended, row)
  /\ UNCHANGED <<main, initial>>

AppendThrows(row) ==
  /\ Len(values) < MaxRows
  /\ AppendFails(row)
  /\ UNCHANGED <<main, initial, appended>>

Next == \E row \in Row : AppendSucceeds(row) \/ AppendThrows(row)

Spec == Init /\ [][Next]_vars

-----------------------------------------------------------------------------
MainSize == ColumnSize(main)
LogicalSize == MainSize + Len(values)

\* Seeded fault: RowId main_size is still routed to the main.
Resolve_MainTooLong(row) ==
  IF row <= MainSize /\ MainSize > 0 THEN [domain |-> "Main", offset |-> row]
  ELSE [domain |-> "Delta", offset |-> row - MainSize]

\* resolve_main_delta_row
Resolve(row) ==
  IF row < MainSize THEN [domain |-> "Main", offset |-> row]
  ELSE [domain |-> "Delta", offset |-> row - MainSize]

\* is_null, and value of a row that is not null; NoId beyond the store routed to.
PointRead(row) ==
  LET address == Resolve(row)
      offset == address.offset
  IN  IF address.domain = "Main"
      THEN IF offset \in 0..(MainSize - 1) THEN DecodedRow(main, offset) ELSE NoId
      ELSE IF offset \in 0..(Len(values) - 1) THEN DeltaRow(offset) ELSE NoId

\* main_delta_equal, main_delta_less, ...
MainDeltaQuery(op, target) ==
  IF MainMatches(main, op, target) = Thrown THEN Thrown
  ELSE MainMatches(main, op, target) \o RawMatches(ColumnRows, MainSize, op, target)

-----------------------------------------------------------------------------
(* Properties *)

Reference == initial \o appended

\* "A failed validity allocation cannot leave the value and validity lengths
\* divergent", and a null row owns a T{} value: after any mix of appends that
\* returned and appends that threw, the delta is exactly the rows appended.
DeltaIsWhatWasAppended ==
  /\ Len(values) = size
  /\ Len(words) = (size + WordBits - 1) \div WordBits
  /\ ColumnRows = appended
  /\ \A k \in 1..Len(values) : appended[k] = Null => values[k] = Placeholder

\* Every valid logical row maps to exactly one domain: point reads give the
\* initial rows followed by the appended ones, across the boundary and through
\* the encoding, up to the operator== of the values.
PointReadsMatch ==
  /\ LogicalSize = Len(Reference)
  /\ \A row \in 0..(LogicalSize - 1) :
       Canonical(PointRead(row)) = Canonical(Reference[row + 1])

\* Dictionary ids compare as values do, on both sides of the boundary: a query
\* returns the RowIds a scan of the rows would, in row order; nulls, which hold
\* the code of the smallest value, never match.
QueriesMatch ==
  \A op \in Ops, target \in Values :
    MainDeltaQuery(op, target) = QueryOf(Reference, op, target)
=============================================================================
