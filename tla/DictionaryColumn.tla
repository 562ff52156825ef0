-------------------------- MODULE DictionaryColumn --------------------------
(***************************************************************************)
(* BasicDictionaryColumn<T, Codes> (src/susano/dictionary_column.hpp), the *)
(* encoding of an immutable main, and the predicates evaluated on its      *)
(* codes (src/susano/dictionary_predicates.hpp).  RowIds count from 0.     *)
(***************************************************************************)
EXTENDS SortedDictionary

CONSTANT Thrown    \* a call that throws std::invalid_argument

ASSUME ThrownAssumption ==
  Thrown \notin Seq(Nat) \cup [dictionary : Seq(Values), codes : Seq(Nat), valid : Seq(BOOLEAN)]

\* build, of the rows of a FixedColumn; a null row gets code 0.
BuildEncoded(rows) ==
  LET dictionary == Dictionary({rows[i] : i \in {k \in DOMAIN rows : rows[k] # Null}})
  IN  IF ~Encodable(rows) \/ ~FitsIds(dictionary) THEN Thrown
      ELSE [dictionary |-> dictionary,
            codes |-> [i \in DOMAIN rows |->
                         IF rows[i] = Null THEN 0 ELSE Find(dictionary, rows[i])],
            valid |-> [i \in DOMAIN rows |-> rows[i] # Null]]

ColumnSize(column) == Len(column.codes)
ColumnIsNull(column, i) == ~column.valid[i + 1]
ColumnValue(column, i) == column.dictionary[column.codes[i + 1] + 1]

DecodedRow(column, i) == IF ColumnIsNull(column, i) THEN Null ELSE ColumnValue(column, i)

\* The loop of every predicate: the RowIds below n that match, as they are found.
MatchingRows(n, matches) ==
  LET found[k \in 0..n] == IF k = 0 THEN << >>
                           ELSE IF k - 1 \in matches THEN Append(found[k - 1], k - 1)
                           ELSE found[k - 1]
  IN  found[n]

\* dictionary_equal: a null row holds code 0 as well, and is no match.
DictionaryEqual(column, target) ==
  LET id == Find(column.dictionary, target)
      n == ColumnSize(column)
  IN  IF id = NoId THEN << >>
      ELSE MatchingRows(n, {i \in 0..(n - 1) :
                              ~ColumnIsNull(column, i) /\ column.codes[i + 1] = id})

\* Seeded fault: the placeholder code of a null row is compared.
CodesBelow_NullsToo(column, boundary) ==
  LET n == ColumnSize(column)
  IN  MatchingRows(n, {i \in 0..(n - 1) : column.codes[i + 1] < boundary})

CodesBelow(column, boundary) ==
  LET n == ColumnSize(column)
  IN  MatchingRows(n, {i \in 0..(n - 1) :
                         ~ColumnIsNull(column, i) /\ column.codes[i + 1] < boundary})

CodesAtLeast(column, boundary) ==
  LET n == ColumnSize(column)
  IN  MatchingRows(n, {i \in 0..(n - 1) :
                         ~ColumnIsNull(column, i) /\ column.codes[i + 1] >= boundary})

\* Seeded fault: greater starts at the lower bound.
DictionaryRange_LowerBoundOnly(column, op, target) ==
  LET d == column.dictionary
  IN  CASE op = "less"          -> CodesBelow(column, LowerBoundId(d, target))
        [] op = "less_equal"    -> CodesBelow(column, UpperBoundId(d, target))
        [] op = "greater"       -> CodesAtLeast(column, LowerBoundId(d, target))
        [] op = "greater_equal" -> CodesAtLeast(column, LowerBoundId(d, target))

\* dictionary_less, _less_equal, _greater and _greater_equal of a supported target.
DictionaryRange(column, op, target) ==
  LET d == column.dictionary
  IN  CASE op = "less"          -> CodesBelow(column, LowerBoundId(d, target))
        [] op = "less_equal"    -> CodesBelow(column, UpperBoundId(d, target))
        [] op = "greater"       -> CodesAtLeast(column, UpperBoundId(d, target))
        [] op = "greater_equal" -> CodesAtLeast(column, LowerBoundId(d, target))

-----------------------------------------------------------------------------
(* Queries over a main and the raw rows of deltas *)

RangeOps == {"less", "less_equal", "greater", "greater_equal"}
Ops == RangeOps \cup {"equal"}

\* The comparison a raw row is tested with; none holds of a NaN.
Compare(op, x, y) ==
  CASE op = "equal"         -> Same(x, y)
    [] op = "less"          -> Less(x, y)
    [] op = "less_equal"    -> Less(x, y) \/ Same(x, y)
    [] op = "greater"       -> Less(y, x)
    [] op = "greater_equal" -> Less(y, x) \/ Same(x, y)

\* The RowIds of the raw rows of a delta that match; its first row has RowId base.
RawMatches(rows, base, op, target) ==
  LET n == Len(rows)
      offsets == MatchingRows(n, {i \in 0..(n - 1) :
                   rows[i + 1] # Null /\ Compare(op, rows[i + 1], target)})
  IN  [k \in DOMAIN offsets |-> base + offsets[k]]

\* The part of a query that the main answers: a range query with an unsupported
\* target throws there, whatever the deltas hold.
MainMatches(main, op, target) ==
  CASE op = "equal" -> DictionaryEqual(main, target)
    [] op \in RangeOps /\ IsSupported(target) -> DictionaryRange(main, op, target)
    [] OTHER -> Thrown

\* What a query means: every row that compares, in row order.
QueryOf(rows, op, target) ==
  IF op \in RangeOps /\ ~IsSupported(target) THEN Thrown
  ELSE RawMatches(rows, 0, op, target)
=============================================================================
