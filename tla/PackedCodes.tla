----------------------------- MODULE PackedCodes ----------------------------
(***************************************************************************)
(* PackedCodeVector and code_bit_width (src/susano/packed_code_vector.hpp):*)
(* codes of a fixed bit width laid end to end in machine words.  A code    *)
(* and a word are the sets of their one bits.  Rows count from 0.          *)
(***************************************************************************)
EXTENDS Integers, Sequences

CONSTANTS
  WordBits,   \* bits_per_word
  IdBits,     \* the bits of a ValueId
  SizeMax,    \* the largest size_t
  Rejected    \* the constructor has thrown

ASSUME BitsAssumption ==
  /\ IdBits \in Nat /\ WordBits \in Nat \ {0} /\ IdBits <= WordBits
  /\ SizeMax \in Nat

\* 1 << n
PowerOf2[n \in Nat] == IF n = 0 THEN 1 ELSE 2 * PowerOf2[n - 1]

Code == SUBSET (0..(IdBits - 1))
Mask(width) == 0..(width - 1)

\* size_, width_ and words_, no more of them than size_t counts.
PackedVector ==
  [size : Nat, width : Nat,
   words : UNION {[0..(n - 1) -> SUBSET (0..(WordBits - 1))] : n \in 0..(SizeMax + 1)}]

ASSUME RejectedAssumption == Rejected \notin PackedVector

\* Seeded fault: the logarithm is rounded down.
CodeBitWidth_RoundedDown(cardinality) ==
  IF cardinality <= 1 THEN 0
  ELSE CHOOSE n \in 1..cardinality : PowerOf2[n] <= cardinality /\ cardinality < PowerOf2[n + 1]

\* code_bit_width(cardinality): std::bit_width(cardinality - 1).
CodeBitWidth(cardinality) ==
  IF cardinality <= 1 THEN 0
  ELSE CHOOSE n \in 1..cardinality :
         PowerOf2[n - 1] <= cardinality - 1 /\ cardinality - 1 < PowerOf2[n]

\* A ValueId as the set of its one bits.
BitsOf(id) == {b \in 0..(IdBits - 1) : (id \div PowerOf2[b]) % 2 = 1}

\* Where the code of a row starts; size_t arithmetic.
BitOffset(width, row) == (row * width) % (SizeMax + 1)
WordIndex(width, row) == BitOffset(width, row) \div WordBits
ShiftOf(width, row) == BitOffset(width, row) % WordBits
Straddles(width, row) == ShiftOf(width, row) + width > WordBits

\* Seeded fault: a last word that is not full is not counted.
WordCount_FullOnly(width, size) == ((size * width) % (SizeMax + 1)) \div WordBits

WordCount(width, size) ==
  LET total == (size * width) % (SizeMax + 1)
  IN  total \div WordBits + (IF total % WordBits # 0 THEN 1 ELSE 0)

\* code << shift and code >> shift, in a word.
ShiftLeft(code, shift) == {b + shift : b \in code} \cap 0..(WordBits - 1)
ShiftRight(code, shift) == {b - shift : b \in {x \in code : x >= shift}}

\* Seeded fault: a code that straddles two words is stored in the first one only.
Contribution_FirstWordOnly(width, codes, row, j) ==
  IF j = WordIndex(width, row) THEN ShiftLeft(codes[row + 1], ShiftOf(width, row)) ELSE {}

\* What the constructor ORs into word j for the code of a row.
Contribution(width, codes, row, j) ==
  LET low == IF j = WordIndex(width, row)
             THEN ShiftLeft(codes[row + 1], ShiftOf(width, row)) ELSE {}
      high == IF Straddles(width, row) /\ j = WordIndex(width, row) + 1
              THEN ShiftRight(codes[row + 1], WordBits - ShiftOf(width, row)) ELSE {}
  IN  low \cup high

\* The constructor returns: the width is one, the bits can be counted, and every
\* code fits.
Accepts(width, codes) ==
  /\ width <= IdBits
  /\ width # 0 => Len(codes) <= SizeMax \div width
  /\ \A i \in DOMAIN codes : codes[i] \subseteq Mask(width)

Pack(width, codes) ==
  IF ~Accepts(width, codes) THEN Rejected
  ELSE [size |-> Len(codes), width |-> width,
        words |-> [j \in 0..(IF width = 0 THEN -1 ELSE WordCount(width, Len(codes)) - 1) |->
                     UNION {Contribution(width, codes, row, j) : row \in 0..(Len(codes) - 1)}]]

\* words_[j]; beyond the words anything may be read, here: ones.
WordAt(vector, j) == IF j \in DOMAIN vector.words THEN vector.words[j] ELSE Mask(WordBits)

\* value(row)
PackedValue(vector, row) ==
  LET j == WordIndex(vector.width, row)
      shift == ShiftOf(vector.width, row)
      low == ShiftRight(WordAt(vector, j), shift)
      high == IF Straddles(vector.width, row)
              THEN ShiftLeft(WordAt(vector, j + 1), WordBits - shift) ELSE {}
  IN  IF vector.width = 0 THEN {} ELSE (low \cup high) \cap Mask(vector.width)
=============================================================================
