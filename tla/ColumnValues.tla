---------------------------- MODULE ColumnValues ----------------------------
(***************************************************************************)
(* The rows a column can hold.  A value is opaque but for what sets the    *)
(* doubles apart: two zeros, and values a dictionary does not accept.      *)
(***************************************************************************)
EXTENDS Integers, Sequences

CONSTANTS
  Values,        \* values a caller may append
  NegZero,       \* -0.0, which equals but is not PosZero (double columns)
  PosZero,       \* +0.0
  Unsupported,   \* NaN and the infinities, which no dictionary accepts
  Null           \* the row append_null leaves

ASSUME ValuesAssumption ==
  /\ Null \notin Values
  /\ NegZero \in Values => PosZero \in Values
  /\ Unsupported \subseteq Values \ {NegZero, PosZero}
  /\ NegZero # Null /\ PosZero # NegZero

Row == Values \cup {Null}

\* canonicalize: what a dictionary gives back for a row: -0.0 is stored as +0.0,
\* everything else unchanged.  Rows that compare equal (operator== on doubles)
\* are exactly those with one canonical form.
Canonical(row) == IF row = NegZero THEN PosZero ELSE row

\* SortedDictionary::is_supported holds of every value.
Encodable(rows) == \A i \in DOMAIN rows : rows[i] \notin Unsupported
=============================================================================
