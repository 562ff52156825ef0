-------------------------- MODULE ConcurrentDelta ---------------------------
(***************************************************************************)
(* ConcurrentDeltaColumn<T> (src/susano/concurrent_delta.hpp): rows live   *)
(* in chunks of values and validity words and are published by the release *)
(* store of visible_size_.  One action per access another thread can see.  *)
(* A section under chunks_mutex_ is one action: every access to chunks_ is *)
(* in such a section.  Accesses are sequentially consistent here; what the *)
(* memory orders of the code allow beyond that is in DeltaMemory.          *)
(*                                                                         *)
(* callerLock is the mutex under which GenerationalColumn calls append and *)
(* freeze (handoff_mutex_), which makes the delta single-writer.           *)
(***************************************************************************)
EXTENDS DeltaChunks

CONSTANTS
  Values, Null,        \* the rows: a value, or null
  Placeholder,         \* T{}, the value of a fresh or null slot
  Garbage,             \* what is read beyond the chunks of a prefix
  Writers, Readers, Closers,   \* the threads in append, snapshot and freeze
  NoThread, None,
  MaxRows,             \* bound on the rows appended
  MayThrow             \* whether allocations may fail

Row == Values \cup {Null}
Snapshotters == Readers \cup Closers

ASSUME RowsAssumption ==
  /\ Null \notin Values /\ Placeholder \notin Row
  /\ None \notin Row \cup Seq(Row)

\* A thread is in one operation at a time.
ASSUME ThreadsAssumption ==
  /\ NoThread \notin Writers \cup Snapshotters
  /\ Writers \cap Snapshotters = {} /\ Readers \cap Closers = {}

VARIABLES
  chunks,              \* chunks_
  visible, closed,     \* visible_size_, closed_
  callerLock,
  wpc, wrow, windex,   \* append_impl: step, argument, index
  spc, ssize, srefs    \* snapshot and freeze: step, size, chunk references

writerVars == <<wpc, wrow, windex>>
snapVars == <<spc, ssize, srefs>>
vars == <<chunks, visible, closed, callerLock, writerVars, snapVars>>

Chunk == [values : [Slots -> Values \cup {Placeholder}], validity : [Words -> SUBSET Bits]]

FreshChunk == [values |-> [i \in Slots |-> Placeholder], validity |-> [i \in Words |-> {}]]

Init ==
  /\ chunks = << >> /\ visible = 0 /\ closed = FALSE
  /\ callerLock = NoThread
  /\ wpc = [w \in Writers |-> "idle"] /\ wrow = [w \in Writers |-> None]
  /\ windex = [w \in Writers |-> 0]
  /\ spc = [t \in Snapshotters |-> "idle"] /\ ssize = [t \in Snapshotters |-> 0]
  /\ srefs = [t \in Snapshotters |-> << >>]

-----------------------------------------------------------------------------
(* append_impl *)

\* Seeded fault: the caller holds no mutex.
TakeCaller_Ignored(t) == UNCHANGED callerLock

TakeCaller(t) == callerLock = NoThread /\ callerLock' = t

ReleaseCaller(t) == callerLock' = IF callerLock = t THEN NoThread ELSE callerLock

Enter(w, row) ==
  /\ wpc[w] = "idle"
  /\ visible + Cardinality({x \in Writers : wpc[x] # "idle"}) < MaxRows
  /\ TakeCaller(w)
  /\ wpc' = [wpc EXCEPT ![w] = "entered"]
  /\ wrow' = [wrow EXCEPT ![w] = row]
  /\ UNCHANGED <<chunks, visible, closed, windex, snapVars>>

\* The caller's mutex is released on a return and on a throw.
Leave(w) ==
  /\ ReleaseCaller(w)
  /\ wpc' = [wpc EXCEPT ![w] = "idle"]
  /\ wrow' = [wrow EXCEPT ![w] = None]
  /\ windex' = [windex EXCEPT ![w] = 0]

Check(w) ==
  /\ wpc[w] = "entered"
  /\ ~closed
  /\ wpc' = [wpc EXCEPT ![w] = "open"]
  /\ UNCHANGED <<chunks, visible, closed, callerLock, wrow, windex, snapVars>>

\* The delta is closed, or chunks_.push_back or make_shared throws.
Throws(w) ==
  /\ \/ wpc[w] = "entered" /\ closed
     \/ MayThrow /\ wpc[w] = "indexed" /\ ChunkOf(windex[w]) > Len(chunks)
  /\ Leave(w)
  /\ UNCHANGED <<chunks, visible, closed, snapVars>>

LoadIndex(w) ==
  /\ wpc[w] = "open"
  /\ wpc' = [wpc EXCEPT ![w] = "indexed"]
  /\ windex' = [windex EXCEPT ![w] = visible]
  /\ UNCHANGED <<chunks, visible, closed, callerLock, wrow, snapVars>>

\* The index right after the last chunk needs a chunk of its own.
ProvideChunk(w) ==
  /\ wpc[w] = "indexed"
  /\ chunks' = IF ChunkOf(windex[w]) = Len(chunks) + 1
               THEN Append(chunks, FreshChunk) ELSE chunks
  /\ wpc' = [wpc EXCEPT ![w] = "slot"]
  /\ UNCHANGED <<visible, closed, callerLock, wrow, windex, snapVars>>

\* A null row leaves T{} in its slot.
WriteValue(w) ==
  /\ wpc[w] = "slot"
  /\ chunks' = [chunks EXCEPT ![ChunkOf(windex[w])].values[Local(windex[w])] =
                  IF wrow[w] = Null THEN Placeholder ELSE wrow[w]]
  /\ wpc' = [wpc EXCEPT ![w] = "valued"]
  /\ UNCHANGED <<visible, closed, callerLock, wrow, windex, snapVars>>

WriteValidity(w) ==
  /\ wpc[w] = "valued"
  /\ chunks' = [chunks EXCEPT ![ChunkOf(windex[w])].validity[WordOf(windex[w])] =
                  WithBit(@, BitOf(windex[w]), wrow[w] # Null)]
  /\ wpc' = [wpc EXCEPT ![w] = "written"]
  /\ UNCHANGED <<visible, closed, callerLock, wrow, windex, snapVars>>

Publish(w) ==
  /\ wpc[w] = "written"
  /\ visible' = windex[w] + 1
  /\ Leave(w)
  /\ UNCHANGED <<chunks, closed, snapVars>>

-----------------------------------------------------------------------------
(* snapshot, freeze, and dropping a prefix *)

BeginFreeze(t) ==
  /\ spc[t] = "idle"
  /\ TakeCaller(t)
  /\ spc' = [spc EXCEPT ![t] = "freezing"]
  /\ UNCHANGED <<chunks, visible, closed, writerVars, ssize, srefs>>

\* closed_.exchange(true): the delta was open.
FreezeOpen(t) ==
  /\ spc[t] = "freezing" /\ ~closed
  /\ closed' = TRUE
  /\ spc' = [spc EXCEPT ![t] = "calling"]
  /\ UNCHANGED <<chunks, visible, callerLock, writerVars, ssize, srefs>>

\* A second freeze throws.
FreezeAgain(t) ==
  /\ spc[t] = "freezing" /\ closed
  /\ ReleaseCaller(t)
  /\ spc' = [spc EXCEPT ![t] = "idle"]
  /\ UNCHANGED <<chunks, visible, closed, writerVars, ssize, srefs>>

BeginSnapshot(t) ==
  /\ spc[t] = "idle"
  /\ spc' = [spc EXCEPT ![t] = "calling"]
  /\ UNCHANGED <<chunks, visible, closed, callerLock, writerVars, ssize, srefs>>

LoadSize(t) ==
  /\ spc[t] = "calling"
  /\ ssize' = [ssize EXCEPT ![t] = visible]
  /\ spc' = [spc EXCEPT ![t] = "sized"]
  /\ UNCHANGED <<chunks, visible, closed, callerLock, writerVars, srefs>>

\* References to the chunks that n rows need.
FirstChunks(n) == [k \in 1..NeededChunks(n) |-> k]

\* The references of the first chunks are copied; freeze then returns to its caller.
CopyChunks(t) ==
  /\ spc[t] = "sized"
  /\ srefs' = [srefs EXCEPT ![t] = FirstChunks(ssize[t])]
  /\ spc' = [spc EXCEPT ![t] = "prefix"]
  /\ ReleaseCaller(t)
  /\ UNCHANGED <<chunks, visible, closed, writerVars, ssize>>

LeaveSnapshot(t) ==
  /\ spc' = [spc EXCEPT ![t] = "idle"]
  /\ ssize' = [ssize EXCEPT ![t] = 0]
  /\ srefs' = [srefs EXCEPT ![t] = << >>]
  /\ ReleaseCaller(t)
  /\ UNCHANGED <<chunks, visible, closed, writerVars>>

\* The references, or the closed column, cannot be allocated: the delta stays closed.
SnapshotThrows(t) == MayThrow /\ spc[t] = "sized" /\ LeaveSnapshot(t)

DropPrefix(t) == spc[t] = "prefix" /\ t \in Readers /\ LeaveSnapshot(t)

-----------------------------------------------------------------------------
AppendNext(w) ==
  \/ \E row \in Row : Enter(w, row)
  \/ Check(w) \/ Throws(w) \/ LoadIndex(w) \/ ProvideChunk(w)
  \/ WriteValue(w) \/ WriteValidity(w) \/ Publish(w)

SnapshotNext(t) == LoadSize(t) \/ CopyChunks(t) \/ SnapshotThrows(t) \/ DropPrefix(t)

Next ==
  \/ \E w \in Writers : AppendNext(w)
  \/ \E t \in Readers : BeginSnapshot(t)
  \/ \E t \in Closers : BeginFreeze(t) \/ FreezeOpen(t) \/ FreezeAgain(t)
  \/ \E t \in Snapshotters : SnapshotNext(t)

Spec == Init /\ [][Next]_vars

-----------------------------------------------------------------------------
(* What a prefix shows *)

\* is_null and value of a row in its chunk,
SlotRow(offset) ==
  LET chunk == chunks[ChunkOf(offset)]
  IN  IF BitOf(offset) \in chunk.validity[WordOf(offset)]
      THEN chunk.values[Local(offset)] ELSE Null

\* and through the first n chunks.
RowAt(n, offset) == IF ChunkOf(offset) > n THEN Garbage ELSE SlotRow(offset)

PrefixRows(n, size) == [k \in 1..size |-> RowAt(n, k - 1)]

PrefixOf(t) ==
  CASE spc[t] = "sized" -> PrefixRows(Len(chunks), ssize[t])
    [] spc[t] = "prefix" -> PrefixRows(Len(srefs[t]), ssize[t])
    [] OTHER -> None

-----------------------------------------------------------------------------
(* Properties *)

\* Every variable has its type.
TypeOK ==
  /\ chunks \in Seq(Chunk) /\ visible \in Nat /\ closed \in BOOLEAN
  /\ callerLock \in Writers \cup Closers \cup {NoThread}
  /\ wpc \in [Writers -> {"idle", "entered", "open", "indexed", "slot", "valued", "written"}]
  /\ wrow \in [Writers -> Row \cup {None}]
  /\ windex \in [Writers -> Nat]
  /\ spc \in [Snapshotters -> {"idle", "freezing", "calling", "sized", "prefix"}]
  /\ ssize \in [Snapshotters -> Nat]
  /\ srefs \in [Snapshotters -> Seq(Nat)]

\* A value slot is an ordinary object: while a thread writes one, no other thread
\* writes it and no prefix shows it, or the program has a data race.
SlotsUnshared ==
  \A w \in Writers : wpc[w] = "slot" =>
    /\ \A t \in Snapshotters : ssize[t] <= windex[w]
    /\ \A x \in Writers \ {w} : wpc[x] = "slot" => windex[x] # windex[w]

\* The chunks of every published row exist before its size can be acquired.
ChunksCoverSizes ==
  /\ NeededChunks(visible) <= Len(chunks)
  /\ \A t \in Snapshotters : spc[t] = "prefix" =>
       ssize[t] <= Len(srefs[t]) * ChunkCapacity

\* A closed delta holds every row that was ever published in the delta: no append
\* that found the delta open publishes after freeze took its prefix.
FrozenIsWhole ==
  \A t \in Closers : spc[t] \in {"sized", "prefix"} => ssize[t] = visible

\* The delta is the atomic one that GenerationalColumn assumes: a row becomes
\* visible at once, whole, and a prefix never changes although the rows after it
\* share its last chunk and validity word.
Atomic == INSTANCE AtomicDelta WITH
  Rows <- Row, Threads <- Snapshotters,
  rows <- PrefixRows(Len(chunks), visible),
  prefix <- [t \in Snapshotters |-> PrefixOf(t)]

ImplementsAtomicDelta == Atomic!DeltaSpec
-----------------------------------------------------------------------------
(* The inductive invariant *)

WriteSteps == {"slot", "valued", "written"}
IndexSteps == {"indexed"} \cup WriteSteps

\* The caller's mutex is held throughout append_impl, and by freeze until it returns.
CallerInv ==
  /\ \A w \in Writers : wpc[w] # "idle" <=> callerLock = w
  /\ \A t \in Closers : spc[t] \in {"freezing", "calling", "sized"} <=> callerLock = t

\* An append that found the delta open completes before the delta is closed.
ClosedInv ==
  /\ \A w \in Writers : wpc[w] \in {"open"} \cup IndexSteps => ~closed
  /\ \A t \in Closers : spc[t] \in {"calling", "sized", "prefix"} => closed

\* What append_impl has stored so far of the row behind the visible ones.
WriterInv ==
  \A w \in Writers :
    /\ wpc[w] # "idle" => wrow[w] # None
    /\ wpc[w] \in IndexSteps => windex[w] = visible
    /\ wpc[w] \in WriteSteps => ChunkOf(visible) <= Len(chunks)
    /\ wpc[w] \in {"valued", "written"} /\ wrow[w] # Null =>
         chunks[ChunkOf(visible)].values[Local(visible)] = wrow[w]
    /\ wpc[w] = "written" =>
         (BitOf(visible) \in chunks[ChunkOf(visible)].validity[WordOf(visible)]
            <=> wrow[w] # Null)

\* A prefix ends at or before the visible rows, and has all of its chunks.
PrefixInv ==
  \A t \in Snapshotters :
    /\ ssize[t] <= visible
    /\ spc[t] = "prefix" => srefs[t] = FirstChunks(ssize[t])

\* A visible row is a row that was appended, not a slot as it was allocated.
RowsInv == \A o \in 0..(visible - 1) : SlotRow(o) \in Row

DeltaInv ==
  /\ TypeOK /\ CallerInv /\ ClosedInv /\ WriterInv /\ PrefixInv
  /\ NeededChunks(visible) <= Len(chunks)
  /\ FrozenIsWhole /\ RowsInv

=============================================================================
