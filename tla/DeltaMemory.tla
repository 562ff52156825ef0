---------------------------- MODULE DeltaMemory -----------------------------
(***************************************************************************)
(* ConcurrentDeltaColumn<T> (src/susano/concurrent_delta.hpp) under the    *)
(* C++ memory model instead of sequential consistency.  A location keeps   *)
(* the messages ever written to it, in modification order; a thread has    *)
(* seen some of them and a load may return any message that is not older.  *)
(* An acquire load, or taking a mutex, adds what the releasing thread had  *)
(* seen; a relaxed load adds nothing; a read-modify-write reads the newest *)
(* message.  A value slot is an ordinary object: an access to it is a data *)
(* race unless the thread has seen every write of the slot.                *)
(***************************************************************************)
EXTENDS DeltaChunks

CONSTANTS
  Values, Null,        \* the rows: a value, or null
  Placeholder,         \* T{}, the value of a fresh or null slot
  Writers, Readers, Closers,   \* the threads in append, snapshot and freeze
  NoThread, None,
  MaxRows,             \* bound on the rows appended
  MaxFreezes,          \* bound on the calls of freeze
  MayThrow             \* whether allocations may fail

ASSUME RowsAssumption == Null \notin Values /\ Placeholder \notin Values \cup {Null}

\* A thread is in one operation at a time, and finitely many append.
ASSUME ThreadsAssumption ==
  /\ NoThread \notin Writers \cup Readers \cup Closers
  /\ Writers \cap (Readers \cup Closers) = {} /\ Readers \cap Closers = {}
  /\ IsFiniteSet(Writers) /\ MaxRows \in Nat

Row == Values \cup {Null}
Snapshotters == Readers \cup Closers
Threads == Writers \cup Snapshotters

visible_size == <<"visible_size_">>
closed == <<"closed_">>
Slot(offset) == <<"value", ChunkOf(offset), Local(offset)>>
Word(offset) == <<"validity", ChunkOf(offset), WordOf(offset)>>
Atomics == {visible_size, closed}
ChunkLocations(c) ==
  {<<"value", c, i>> : i \in Slots} \cup {<<"validity", c, i>> : i \in Words}
Location == Atomics \cup UNION {ChunkLocations(c) : c \in 1..NeededChunks(MaxRows)}

VARIABLES
  mem,                 \* the messages of each location
  seen,                \* how many of them each thread has seen
  chunkCount,          \* chunks_.size()
  chunksSeen,          \* what chunks_mutex_ was released with
  callerLock, callerSeen,   \* the caller's mutex and what it was released with
  wpc, wrow, windex,   \* append_impl: step, argument, index
  spc, ssize,          \* snapshot and freeze: step, size
  rows,                \* the rows published, in order
  answered, known      \* rows a writer was answered for, and a thread knows of

memoryVars == <<mem, seen, chunkCount, chunksSeen>>
callerVars == <<callerLock, callerSeen>>
writerVars == <<wpc, wrow, windex>>
snapVars == <<spc, ssize, known>>
vars == <<memoryVars, callerVars, writerVars, snapVars, rows, answered>>

Nothing == [l \in Location |-> 0]
Join(u, v) == [l \in Location |-> IF u[l] < v[l] THEN v[l] ELSE u[l]]

Message(val, view) == [val |-> val, view |-> view]
Newest(l) == Len(mem[l])

\* The messages a load by t may return.
Visible(t, l) == seen[t][l]..Newest(l)

Relaxed(t, l, i) == [seen[t] EXCEPT ![l] = i]

\* Seeded fault: the load is relaxed.
Acquired_Relaxed(t, l, i) == Relaxed(t, l, i)

Acquired(t, l, i) == Join(Relaxed(t, l, i), mem[l][i].view)

\* Seeded fault: the store is relaxed.
ReleasedWith_Relaxed(t, l) == Nothing

\* A release store carries what the thread has seen, itself included.
ReleasedWith(t, l) == Relaxed(t, l, Newest(l) + 1)

\* t's store or read-modify-write becomes the newest message of l.
Store(t, l, val, view) ==
  /\ mem' = [mem EXCEPT ![l] = Append(@, Message(val, view))]
  /\ seen' = [seen EXCEPT ![t] = Relaxed(t, l, Newest(l) + 1)]

Init ==
  /\ mem = [l \in Location |->
              IF l = visible_size THEN << Message(0, Nothing) >>
              ELSE IF l = closed THEN << Message(FALSE, Nothing) >>
              ELSE << >>]
  /\ seen = [t \in Threads |-> [l \in Location |-> Newest(l)]]
  /\ chunkCount = 0
  /\ chunksSeen = Nothing
  /\ callerLock = NoThread /\ callerSeen = Nothing
  /\ wpc = [w \in Writers |-> "idle"] /\ wrow = [w \in Writers |-> None]
  /\ windex = [w \in Writers |-> 0]
  /\ spc = [t \in Snapshotters |-> "idle"] /\ ssize = [t \in Snapshotters |-> 0]
  /\ rows = << >>
  /\ answered = [w \in Writers |-> 0] /\ known = [t \in Snapshotters |-> 0]

-----------------------------------------------------------------------------
(* The caller's mutex *)

\* Seeded fault: the caller holds no mutex.
TakeCaller_Ignored(t) == UNCHANGED <<callerVars, seen>>

TakeCaller(t) ==
  /\ callerLock = NoThread
  /\ callerLock' = t
  /\ seen' = [seen EXCEPT ![t] = Join(@, callerSeen)]
  /\ UNCHANGED callerSeen

ReleaseCaller(t) ==
  IF callerLock = t THEN callerLock' = NoThread /\ callerSeen' = seen'[t]
  ELSE UNCHANGED callerVars

-----------------------------------------------------------------------------
(* append_impl *)

WriterStep(w, from, to) ==
  /\ wpc[w] = from
  /\ wpc' = [wpc EXCEPT ![w] = to]
  /\ UNCHANGED snapVars

Enter(w, row) ==
  /\ WriterStep(w, "idle", "entered")
  /\ Len(rows) + Cardinality({x \in Writers : wpc[x] # "idle"}) < MaxRows
  /\ TakeCaller(w)
  /\ wrow' = [wrow EXCEPT ![w] = row]
  /\ UNCHANGED <<mem, chunkCount, chunksSeen, windex, rows, answered>>

Leave(w, from) ==
  /\ WriterStep(w, from, "idle")
  /\ ReleaseCaller(w)
  /\ wrow' = [wrow EXCEPT ![w] = None]
  /\ windex' = [windex EXCEPT ![w] = 0]

\* The acquire load of closed_: the append goes on, or throws.
Check(w) ==
  \E i \in Visible(w, closed) :
    /\ seen' = [seen EXCEPT ![w] = Acquired(w, closed, i)]
    /\ UNCHANGED <<mem, chunkCount, chunksSeen, rows, answered>>
    /\ IF mem[closed][i].val THEN Leave(w, "entered")
       ELSE WriterStep(w, "entered", "open") /\ UNCHANGED <<callerVars, wrow, windex>>

LoadIndex(w) ==
  /\ WriterStep(w, "open", "indexed")
  /\ \E i \in Visible(w, visible_size) :
       /\ seen' = [seen EXCEPT ![w] = Relaxed(w, visible_size, i)]
       /\ windex' = [windex EXCEPT ![w] = mem[visible_size][i].val]
  /\ UNCHANGED <<mem, chunkCount, chunksSeen, callerVars, wrow, rows, answered>>

\* A section under chunks_mutex_; a new chunk is filled before it is pushed.
ProvideChunk(w) ==
  LET joined == Join(seen[w], chunksSeen)
      isNew == ChunkOf(windex[w]) = chunkCount + 1
      fresh == IF isNew THEN ChunkLocations(chunkCount + 1) ELSE {}
  IN  /\ WriterStep(w, "indexed", "slot")
      /\ mem' = [l \in Location |->
                   IF l \in fresh
                   THEN << Message(IF l[1] = "value" THEN Placeholder ELSE {}, Nothing) >>
                   ELSE mem[l]]
      /\ seen' = [seen EXCEPT ![w] = [l \in Location |->
                                        IF l \in fresh THEN 1 ELSE joined[l]]]
      /\ chunksSeen' = seen'[w]
      /\ chunkCount' = IF isNew THEN chunkCount + 1 ELSE chunkCount
      /\ UNCHANGED <<callerVars, wrow, windex, rows, answered>>

\* The chunk cannot be allocated.
ProvideThrows(w) ==
  /\ MayThrow /\ ChunkOf(windex[w]) = chunkCount + 1
  /\ seen' = [seen EXCEPT ![w] = Join(@, chunksSeen)]
  /\ Leave(w, "indexed")
  /\ chunksSeen' = seen'[w]
  /\ UNCHANGED <<mem, chunkCount, rows, answered>>

\* A null row leaves T{} in its slot.
WriteValue(w) ==
  /\ WriterStep(w, "slot", "valued")
  /\ Store(w, Slot(windex[w]), IF wrow[w] = Null THEN Placeholder ELSE wrow[w], Nothing)
  /\ UNCHANGED <<chunkCount, chunksSeen, callerVars, wrow, windex, rows, answered>>

WriteValidity(w) ==
  LET word == Word(windex[w])
  IN  /\ WriterStep(w, "valued", "written")
      /\ Store(w, word, WithBit(mem[word][Newest(word)].val, BitOf(windex[w]),
                                wrow[w] # Null), Nothing)
      /\ UNCHANGED <<chunkCount, chunksSeen, callerVars, wrow, windex, rows, answered>>

Publish(w) ==
  /\ Store(w, visible_size, windex[w] + 1, ReleasedWith(w, visible_size))
  /\ Leave(w, "written")
  /\ rows' = Append(rows, wrow[w])
  /\ answered' = [answered EXCEPT ![w] = windex[w] + 1]
  /\ UNCHANGED <<chunkCount, chunksSeen>>

-----------------------------------------------------------------------------
(* snapshot and freeze *)

SnapshotStep(t, from, to) ==
  /\ spc[t] = from
  /\ spc' = [spc EXCEPT ![t] = to]
  /\ UNCHANGED <<writerVars, rows, answered>>

BeginSnapshot(t) ==
  /\ SnapshotStep(t, "idle", "calling")
  /\ UNCHANGED <<memoryVars, callerVars, ssize, known>>

BeginFreeze(t) ==
  /\ SnapshotStep(t, "idle", "freezing")
  /\ Newest(closed) <= MaxFreezes
  /\ TakeCaller(t)
  /\ UNCHANGED <<mem, chunkCount, chunksSeen, ssize, known>>

\* closed_.exchange(true, acq_rel); a second freeze throws.
Freeze(t) ==
  LET exchanged == Acquired(t, closed, Newest(closed))
      after == [exchanged EXCEPT ![closed] = @ + 1]
  IN  /\ mem' = [mem EXCEPT ![closed] = Append(@, Message(TRUE, after))]
      /\ seen' = [seen EXCEPT ![t] = after]
      /\ IF mem[closed][Newest(closed)].val
         THEN SnapshotStep(t, "freezing", "idle") /\ ReleaseCaller(t)
         ELSE SnapshotStep(t, "freezing", "calling") /\ UNCHANGED callerVars
      /\ UNCHANGED <<chunkCount, chunksSeen, ssize, known>>

LoadSize(t) ==
  /\ SnapshotStep(t, "calling", "sized")
  /\ \E i \in Visible(t, visible_size) :
       /\ seen' = [seen EXCEPT ![t] = Acquired(t, visible_size, i)]
       /\ ssize' = [ssize EXCEPT ![t] = mem[visible_size][i].val]
  /\ UNCHANGED <<mem, chunkCount, chunksSeen, callerVars, known>>

\* A section under chunks_mutex_; freeze then returns to its caller.
CopyChunks(t) ==
  /\ SnapshotStep(t, "sized", "prefix")
  /\ seen' = [seen EXCEPT ![t] = Join(@, chunksSeen)]
  /\ chunksSeen' = seen'[t]
  /\ ReleaseCaller(t)
  /\ UNCHANGED <<mem, chunkCount, ssize, known>>

LeaveSnapshot(t, from) ==
  /\ SnapshotStep(t, from, "idle")
  /\ known' = [known EXCEPT ![t] = IF @ < ssize[t] THEN ssize[t] ELSE @]
  /\ ssize' = [ssize EXCEPT ![t] = 0]
  /\ UNCHANGED memoryVars
  /\ ReleaseCaller(t)

SnapshotThrows(t) == MayThrow /\ LeaveSnapshot(t, "sized")
DropPrefix(t) == t \in Readers /\ LeaveSnapshot(t, "prefix")

\* A thread learns of a writer's last append by some synchronisation of theirs.
Inform(w, t) ==
  /\ wpc[w] = "idle" /\ spc[t] = "idle" /\ known[t] < answered[w]
  /\ seen' = [seen EXCEPT ![t] = Join(@, seen[w])]
  /\ known' = [known EXCEPT ![t] = answered[w]]
  /\ UNCHANGED <<mem, chunkCount, chunksSeen, callerVars, writerVars, spc, ssize, rows,
                 answered>>

-----------------------------------------------------------------------------
AppendNext(w) ==
  \/ \E row \in Row : Enter(w, row)
  \/ Check(w) \/ LoadIndex(w) \/ ProvideChunk(w) \/ ProvideThrows(w)
  \/ WriteValue(w) \/ WriteValidity(w) \/ Publish(w)

SnapshotNext(t) == LoadSize(t) \/ CopyChunks(t) \/ SnapshotThrows(t) \/ DropPrefix(t)

Next ==
  \/ \E w \in Writers : AppendNext(w) \/ \E t \in Readers : Inform(w, t)
  \/ \E t \in Readers : BeginSnapshot(t)
  \/ \E t \in Closers : BeginFreeze(t) \/ Freeze(t)
  \/ \E t \in Snapshotters : SnapshotNext(t)

Spec == Init /\ [][Next]_vars

-----------------------------------------------------------------------------
(* Properties *)

\* Whatever version of the validity word a prefix finds, and it may be any that is
\* not older than what the thread has seen, each row below its size is the row that
\* was appended there; and its value slot is read without a data race, every write
\* of it having happened before.
PrefixReadsWhole ==
  \A t \in Snapshotters : spc[t] = "prefix" =>
    \A offset \in 0..(ssize[t] - 1) :
      LET slot == Slot(offset)
          word == Word(offset)
      IN  /\ ChunkOf(offset) <= chunkCount
          /\ seen[t][word] >= 1
          /\ seen[t][slot] = Newest(slot)
          /\ \A i \in Visible(t, word) :
               rows[offset + 1] = IF BitOf(offset) \in mem[word][i].val
                                  THEN mem[slot][Newest(slot)].val ELSE Null

\* The relaxed load of the size by a writer is never stale, and its slot is its own:
\* no other thread's access to it is unordered with the write.
WritersInStep ==
  \A w \in Writers : wpc[w] \in {"slot", "valued", "written"} =>
    /\ windex[w] = Len(rows)
    /\ seen[w][Slot(windex[w])] = Newest(Slot(windex[w]))
    /\ \A t \in Snapshotters : ssize[t] <= windex[w]

\* Although a load may be stale, a thread's prefix holds every row it knows of, from
\* a prefix it had or from the thread that appended it: rows never disappear again.
KnownRowsSeen ==
  \A t \in Snapshotters : spc[t] \in {"sized", "prefix"} => known[t] <= ssize[t]

\* The prefix that freeze takes is never stale, and no append follows it.
FrozenIsNewest ==
  \A t \in Closers : spc[t] \in {"sized", "prefix"} => ssize[t] = Len(rows)
=============================================================================
