------------------------- MODULE MCConcurrentDelta --------------------------
(***************************************************************************)
(* Instances of ConcurrentDelta for TLC: chunks of four rows, validity     *)
(* words of two.                                                           *)
(***************************************************************************)
EXTENDS ConcurrentDelta, TLC

ThreadSymmetry == Permutations(Writers) \cup Permutations(Readers)
=============================================================================
