---------------------------- MODULE PackedVectors ---------------------------
(***************************************************************************)
(* A PackedCodeVector of every short sequence of codes and every width.    *)
(***************************************************************************)
EXTENDS PackedCodes

CONSTANT MaxCodes    \* bound on the codes packed

ASSUME MaxCodesAssumption == MaxCodes \in Nat

VARIABLES
  width, codes,   \* the arguments of the constructor
  packed          \* the vector it constructs, or Rejected

packVars == <<width, codes, packed>>

Init ==
  /\ width \in 0..(IdBits + 1)
  /\ codes = << >>
  /\ packed = Pack(width, << >>)

Longer(code) ==
  /\ packed # Rejected
  /\ Len(codes) < MaxCodes
  /\ codes' = Append(codes, code)
  /\ packed' = Pack(width, codes')
  /\ UNCHANGED width

Next == \E code \in Code : Longer(code)

Spec == Init /\ [][Next]_packVars

-----------------------------------------------------------------------------
(* Properties *)

\* What was packed is what is read, for codes inside one word and across two, and
\* whatever the codes next to them are.
RoundTrip ==
  packed # Rejected =>
    \A row \in 0..(Len(codes) - 1) : PackedValue(packed, row) = codes[row + 1]

\* Neither the constructor nor value() goes beyond the words allocated, even when
\* the last code straddles.
AccessesInBounds ==
  packed # Rejected /\ packed.width # 0 =>
    \A row \in 0..(packed.size - 1) :
      /\ WordIndex(packed.width, row) \in DOMAIN packed.words
      /\ Straddles(packed.width, row) =>
           WordIndex(packed.width, row) + 1 \in DOMAIN packed.words
=============================================================================
