---------------------------- MODULE AtomicDelta -----------------------------
(***************************************************************************)
(* A delta as GenerationalColumn uses it: rows appear one by one, nothing  *)
(* appears after the delta is closed, and a prefix taken from it is all of *)
(* the rows of one instant and stays as it is.                             *)
(***************************************************************************)
EXTENDS Sequences

CONSTANTS
  Rows,      \* the rows that can be appended
  Threads,   \* the threads that take prefixes
  None       \* "no prefix"

VARIABLES rows, closed, prefix

deltaVars == <<rows, closed, prefix>>

DeltaInit ==
  /\ rows = << >>
  /\ closed = FALSE
  /\ prefix = [t \in Threads |-> None]

PublishRow(row) ==
  /\ ~closed
  /\ rows' = Append(rows, row)
  /\ UNCHANGED <<closed, prefix>>

Close ==
  /\ ~closed
  /\ closed' = TRUE
  /\ UNCHANGED <<rows, prefix>>

TakePrefix(t) ==
  /\ prefix[t] = None
  /\ prefix' = [prefix EXCEPT ![t] = rows]
  /\ UNCHANGED <<rows, closed>>

DropPrefix(t) ==
  /\ prefix[t] # None
  /\ prefix' = [prefix EXCEPT ![t] = None]
  /\ UNCHANGED <<rows, closed>>

DeltaNext ==
  \/ \E row \in Rows : PublishRow(row)
  \/ Close
  \/ \E t \in Threads : TakePrefix(t) \/ DropPrefix(t)

DeltaSpec == DeltaInit /\ [][DeltaNext]_deltaVars
=============================================================================
