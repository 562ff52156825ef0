----------------------------- MODULE FixedColumn ----------------------------
(***************************************************************************)
(* FixedColumn<T> and its ValidityBitmap (src/susano/fixed_column.hpp,     *)
(* src/susano/validity_bitmap.hpp): values and validity bits grow together *)
(* although either vector may fail to grow.  Also a DeltaColumn, which     *)
(* wraps one.                                                              *)
(***************************************************************************)
EXTENDS ColumnValues

CONSTANTS
  Placeholder,      \* T{}
  WordBits,         \* ValidityBitmap::bits_per_word
  MaxRows           \* bound on the rows appended

ASSUME WordBitsAssumption == WordBits \in Nat \ {0}

VARIABLES
  values,           \* values_
  words, size       \* validity_: words_, each the set of its set bits, and size_

columnVars == <<values, words, size>>

EmptyColumn == values = << >> /\ words = << >> /\ size = 0

\* The bit of the next row is the first of a word, which has to be allocated.
NeedsWord == size % WordBits = 0

\* ValidityBitmap::append, if words_ can grow.
AppendBit(valid) ==
  LET grown == IF NeedsWord THEN Append(words, {}) ELSE words
  IN  /\ words' = IF valid THEN [grown EXCEPT ![Len(grown)] = @ \cup {size % WordBits}]
                  ELSE grown
      /\ size' = size + 1

\* append and append_null.
AppendRow(row) ==
  /\ values' = Append(values, IF row = Null THEN Placeholder ELSE row)
  /\ AppendBit(row # Null)

\* Seeded fault: the pushed value is not popped when validity cannot grow.
AppendFails_NoRollback(row) ==
  \/ UNCHANGED columnVars
  \/ /\ NeedsWord
     /\ values' = Append(values, IF row = Null THEN Placeholder ELSE row)
     /\ UNCHANGED <<words, size>>

\* The values cannot grow; or they did, the words cannot, and the value is popped.
AppendFails(row) ==
  \/ UNCHANGED columnVars
  \/ /\ NeedsWord
     /\ LET pushed == Append(values, IF row = Null THEN Placeholder ELSE row)
        IN  values' = SubSeq(pushed, 1, Len(pushed) - 1)
     /\ UNCHANGED <<words, size>>

\* is_null of row i, by ValidityBitmap::is_valid.
IsNull(i) == i % WordBits \notin words[i \div WordBits + 1]

\* value of row i, if it is not null.
DeltaRow(i) == IF IsNull(i) THEN Null ELSE values[i + 1]

ColumnRows == [k \in 1..size |-> DeltaRow(k - 1)]
=============================================================================
