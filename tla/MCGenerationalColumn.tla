------------------------ MODULE MCGenerationalColumn ------------------------
(***************************************************************************)
(* Instances of GenerationalColumn for TLC.                                *)
(***************************************************************************)
EXTENDS GenerationalColumnInv, TLC

CONSTANTS a, nz, pz, nan

EmptyInitial == << >>
OneRowInitial == << nz >>

\* int32 and int64 columns: no special values.
IntValues == {a}
\* double columns: a signed zero of each kind.
ZeroValues == {nz, pz}
\* double columns: a value no dictionary accepts.
NanValues == {a, nan, pz}

ThreadSymmetry ==
  Permutations(Readers) \cup Permutations(Writers) \cup Permutations(Mergers)
=============================================================================
