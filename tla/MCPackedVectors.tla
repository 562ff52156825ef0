--------------------------- MODULE MCPackedVectors --------------------------
(***************************************************************************)
(* PackedVectors with words of five bits for ids of three, so that codes   *)
(* straddle two words as with 64 and 32 bits, and a size_t that five codes *)
(* of three bits overflow.                                                 *)
(***************************************************************************)
EXTENDS PackedVectors
=============================================================================
