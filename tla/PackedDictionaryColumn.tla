----------------------- MODULE PackedDictionaryColumn -----------------------
(***************************************************************************)
(* DictionaryColumn<T> and PackedDictionaryColumn<T> built from the same   *)
(* source (src/susano/dictionary_column.hpp): one BasicDictionaryColumn    *)
(* whose codes are kept in a CodeVector or in a PackedCodeVector.  The     *)
(* source grows row by row and both columns are rebuilt.                   *)
(***************************************************************************)
EXTENDS DictionaryColumn, PackedCodes

CONSTANT MaxRows    \* bound on the rows of the source

ASSUME WidthAssumption == MaxRows \in Nat /\ MaxId = PowerOf2[IdBits] - 1

ASSUME ThrownVectorAssumption ==
  Thrown \notin [dictionary : Seq(Values), codes : PackedVector, valid : Seq(BOOLEAN)]

\* Seeded fault: the width of the largest id is taken for the number of ids.
MakePackedCodes_WidthOfSize(cardinality, codes) ==
  Pack(CodeBitWidth(cardinality - 1), [i \in DOMAIN codes |-> BitsOf(codes[i])])

\* make_codes into a PackedCodeVector, which may reject them.
MakePackedCodes(cardinality, codes) ==
  Pack(CodeBitWidth(cardinality), [i \in DOMAIN codes |-> BitsOf(codes[i])])

\* The constructor of a PackedDictionaryColumn.
BuildPacked(rows) ==
  LET built == BuildEncoded(rows)
      vector == MakePackedCodes(Len(built.dictionary), built.codes)
  IN  IF built = Thrown THEN Thrown
      ELSE IF vector = Rejected THEN Thrown
      ELSE [built EXCEPT !.codes = vector]

\* value_id(row): the number whose bits are read.
PackedId(column, i) == CHOOSE id \in 0..MaxId : BitsOf(id) = PackedValue(column.codes, i)

\* The column as value_id shows it to value() and to the predicates.
Unpacked(column) ==
  [column EXCEPT !.codes = [k \in 1..column.codes.size |-> PackedId(column, k - 1)]]

VARIABLES
  source,    \* the rows of the FixedColumn
  fixedColumn,     \* the DictionaryColumn built from it, or Thrown
  packedColumn     \* the PackedDictionaryColumn built from it, or Thrown

columnVars == <<source, fixedColumn, packedColumn>>

ColumnInit ==
  /\ source = << >>
  /\ fixedColumn = BuildEncoded(source)
  /\ packedColumn = BuildPacked(source)

AppendSource(row) ==
  /\ Len(source) < MaxRows
  /\ source' = Append(source, row)
  /\ fixedColumn' = BuildEncoded(source')
  /\ packedColumn' = BuildPacked(source')

ColumnNext == \E row \in Row : AppendSource(row)

ColumnSpec == ColumnInit /\ [][ColumnNext]_columnVars

-----------------------------------------------------------------------------
(* Properties *)

\* "Fixed and packed columns decode to the same logical values and IDs": both give
\* the source back, up to ==, whatever width the dictionary's size asked for.
PackedDecodesAlike ==
  packedColumn # Thrown =>
    /\ Unpacked(packedColumn) = fixedColumn
    /\ ColumnSize(fixedColumn) = Len(source)
    /\ \A i \in 0..(Len(source) - 1) :
         DecodedRow(Unpacked(packedColumn), i) = Canonical(source[i + 1])

\* Predicates that stay on the packed ids answer as a scan of the source would; in
\* a full dictionary the bound after the largest id is still an id.
PackedQueriesMatch ==
  packedColumn # Thrown =>
    \A op \in Ops, target \in Values :
      MainMatches(Unpacked(packedColumn), op, target) = QueryOf(source, op, target)

\* A source is refused only for a value that is not finite or for more distinct
\* values than the ids can number; never because its own ids do not fit the width.
RefusedForCause ==
  Thrown \in {fixedColumn, packedColumn} =>
    \/ ~Encodable(source)
    \/ Cardinality({Canonical(source[i]) : i \in DOMAIN source} \ {Null}) > MaxId
=============================================================================
