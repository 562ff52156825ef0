--------------------------- MODULE MCReadViewAudit --------------------------
(***************************************************************************)
(* ReadViewAudit for TLC.                                                  *)
(***************************************************************************)
EXTENDS ReadViewAudit, TLC

CONSTANTS a, nz, pz

EmptyInitial == << >>
IntValues == {a}
=============================================================================
