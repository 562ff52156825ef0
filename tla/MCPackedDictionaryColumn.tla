---------------------- MODULE MCPackedDictionaryColumn ----------------------
(***************************************************************************)
(* A double column for TLC with one distinct value more than ids of two    *)
(* bits can number, packed into words of three bits.                       *)
(***************************************************************************)
EXTENDS PackedDictionaryColumn, TLC

CONSTANTS a, b, c, nz, pz, nan

DoubleValues == {a, b, c, nz, pz, nan}
DoubleRank == a :> -1 @@ nz :> 0 @@ pz :> 0 @@ b :> 1 @@ c :> 2
=============================================================================
