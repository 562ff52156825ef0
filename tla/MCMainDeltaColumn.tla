-------------------------- MODULE MCMainDeltaColumn -------------------------
(***************************************************************************)
(* A double column for TLC: a negative number, both zeros, an infinity and *)
(* a NaN.                                                                  *)
(***************************************************************************)
EXTENDS MainDeltaColumn, TLC

CONSTANTS a, b, nz, pz, nan, inf

DoubleValues == {a, b, nz, pz, nan, inf}
DoubleRank == a :> -1 @@ nz :> 0 @@ pz :> 0 @@ b :> 1 @@ inf :> 2
=============================================================================
