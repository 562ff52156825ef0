--------------------------- MODULE MCDeltaMemory ----------------------------
(***************************************************************************)
(* Instances of DeltaMemory for TLC: chunks of two rows, validity words of *)
(* two.                                                                    *)
(***************************************************************************)
EXTENDS DeltaMemory, TLC

ThreadSymmetry == Permutations(Writers)
=============================================================================
