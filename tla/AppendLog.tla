------------------------------ MODULE AppendLog -----------------------------
(***************************************************************************)
(* What a generational column promises its callers, merges unseen: a       *)
(* linearizable append-only log of rows.  An append takes effect at one    *)
(* instant between call and return and is answered with the row's          *)
(* position; a read view is the whole log at one instant between call and  *)
(* return and never changes afterwards.                                    *)
(***************************************************************************)
EXTENDS Integers, Sequences

CONSTANTS
  Writers, Readers,
  Rows,             \* the rows that can be logged
  InitialLog,       \* the rows the column is constructed from
  None              \* "no row", "no view", "no answer yet"

VARIABLES
  log,              \* the logical rows
  pending,          \* pending[w]: the row w is appending, or None
  answer,           \* answer[w]: the RowId w's last append was given, or None
  reading,          \* the readers inside acquire_read_view
  view              \* view[r]: the rows r sees, or None

logVars == <<log, pending, answer, reading, view>>

LogInit ==
  /\ log = InitialLog
  /\ pending = [w \in Writers |-> None]
  /\ answer = [w \in Writers |-> None]
  /\ reading = {}
  /\ view = [r \in Readers |-> None]

CallAppend(w, row) ==
  /\ pending[w] = None
  /\ pending' = [pending EXCEPT ![w] = row]
  /\ answer' = [answer EXCEPT ![w] = None]
  /\ UNCHANGED <<log, reading, view>>

Commit(w) ==
  /\ pending[w] # None
  /\ answer[w] = None
  /\ log' = Append(log, pending[w])
  /\ answer' = [answer EXCEPT ![w] = Len(log)]
  /\ UNCHANGED <<pending, reading, view>>

\* An append returns its RowId, or has thrown and left no trace.
ReturnAppend(w) ==
  /\ pending[w] # None
  /\ pending' = [pending EXCEPT ![w] = None]
  /\ UNCHANGED <<log, answer, reading, view>>

CallRead(r) ==
  /\ r \notin reading
  /\ view[r] = None
  /\ reading' = reading \cup {r}
  /\ UNCHANGED <<log, pending, answer, view>>

\* Several reads may take effect at the same instant.
TakeViews(R) ==
  /\ \A r \in R : r \in reading /\ view[r] = None
  /\ view' = [r \in Readers |-> IF r \in R THEN log ELSE view[r]]
  /\ UNCHANGED <<log, pending, answer, reading>>

ReturnRead(r) ==
  /\ r \in reading
  /\ view[r] # None
  /\ reading' = reading \ {r}
  /\ UNCHANGED <<log, pending, answer, view>>

\* A read may also throw, and then there is no view.
FailRead(r) ==
  /\ r \in reading
  /\ reading' = reading \ {r}
  /\ view' = [view EXCEPT ![r] = None]
  /\ UNCHANGED <<log, pending, answer>>

DropView(r) ==
  /\ r \notin reading
  /\ view[r] # None
  /\ view' = [view EXCEPT ![r] = None]
  /\ UNCHANGED <<log, pending, answer, reading>>

LogNext ==
  \/ \E w \in Writers : \/ \E row \in Rows : CallAppend(w, row)
                        \/ Commit(w)
                        \/ ReturnAppend(w)
  \/ \E R \in SUBSET Readers : TakeViews(R)
  \/ \E r \in Readers : CallRead(r) \/ ReturnRead(r) \/ FailRead(r) \/ DropView(r)

LogSpec == LogInit /\ [][LogNext]_logVars
=============================================================================
