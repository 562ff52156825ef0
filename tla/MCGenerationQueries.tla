------------------------ MODULE MCGenerationQueries -------------------------
(***************************************************************************)
(* A double column for TLC: a negative number and both zeros.              *)
(***************************************************************************)
EXTENDS GenerationQueries, TLC

CONSTANTS a, nz, pz

DoubleValues == {a, nz, pz}
DoubleRank == a :> -1 @@ nz :> 0 @@ pz :> 0
ZeroRowInitial == << nz >>
=============================================================================
