----------------------- MODULE ConcurrentDeltaProofs ------------------------
(***************************************************************************)
(* Proofs about ConcurrentDelta, for any threads, rows and chunk sizes:    *)
(* its inductive invariant, the safety properties that follow, and that it *)
(* implements AtomicDelta.                                                 *)
(***************************************************************************)
EXTENDS ConcurrentDelta, DeltaChunksProofs

LEMMA FreshChunkTyped == FreshChunk \in Chunk
BY DEF FreshChunk, Chunk

\* The place of the next row, while it is written.
LEMMA OwnPlace ==
  ASSUME TypeOK, WriterInv, NEW w \in Writers, wpc[w] \in WriteSteps
  PROVE  /\ windex[w] = visible
         /\ ChunkOf(visible) \in 1..Len(chunks) /\ Local(visible) \in Slots
         /\ WordOf(visible) \in Words /\ BitOf(visible) \in Bits
         /\ chunks[ChunkOf(visible)] \in Chunk
<1>1. windex[w] = visible /\ ChunkOf(visible) <= Len(chunks)
  BY DEF WriterInv, IndexSteps, WriteSteps
<1>2. visible \in Nat /\ chunks \in Seq(Chunk)
  BY DEF TypeOK
<1>3. /\ ChunkOf(visible) \in Nat \ {0} /\ Local(visible) \in Slots
      /\ WordOf(visible) \in Words /\ BitOf(visible) \in Bits
  BY <1>2, Placement
<1>4. ChunkOf(visible) \in 1..Len(chunks)
  BY <1>1, <1>2, <1>3
<1> QED
  BY <1>1, <1>2, <1>3, <1>4

-----------------------------------------------------------------------------
(* What a step does to the chunks *)

\* ProvideChunk adds a fresh chunk behind the others, or none.
LEMMA ProvideChunkAdds ==
  ASSUME TypeOK, NEW w \in Writers, ProvideChunk(w)
  PROVE  /\ chunks' \in Seq(Chunk) /\ Len(chunks) <= Len(chunks')
         /\ \A c \in 1..Len(chunks) : chunks'[c] = chunks[c]
<1>1. CASE ChunkOf(windex[w]) = Len(chunks) + 1
  <2>1. chunks' = Append(chunks, FreshChunk)
    BY <1>1 DEF ProvideChunk
  <2> QED
    BY <2>1, FreshChunkTyped DEF TypeOK
<1>2. CASE ChunkOf(windex[w]) # Len(chunks) + 1
  BY <1>2 DEF ProvideChunk, TypeOK
<1> QED
  BY <1>1, <1>2

\* WriteValue sets the slot of the next row.
LEMMA WriteValueSets ==
  ASSUME TypeOK, WriterInv, NEW w \in Writers, WriteValue(w)
  PROVE  /\ chunks' \in Seq(Chunk) /\ Len(chunks') = Len(chunks)
         /\ \A c \in 1..Len(chunks) : chunks'[c].validity = chunks[c].validity
         /\ \A c \in 1..Len(chunks), i \in Slots :
              ~(c = ChunkOf(visible) /\ i = Local(visible)) =>
                chunks'[c].values[i] = chunks[c].values[i]
         /\ chunks'[ChunkOf(visible)].values[Local(visible)] =
              IF wrow[w] = Null THEN Placeholder ELSE wrow[w]
<1> DEFINE k == ChunkOf(visible)
<1> DEFINE i == Local(visible)
<1> DEFINE v == IF wrow[w] = Null THEN Placeholder ELSE wrow[w]
<1>1. windex[w] = visible /\ k \in 1..Len(chunks) /\ i \in Slots /\ chunks[k] \in Chunk
  BY OwnPlace DEF WriteValue, WriteSteps
<1>2. v \in Values \cup {Placeholder}
  BY DEF WriteValue, WriterInv, TypeOK, Row
<1>3. chunks' = [chunks EXCEPT ![k].values[i] = v]
  BY <1>1 DEF WriteValue
<1> HIDE DEF k, i, v
<1>4. chunks \in Seq(Chunk)
  BY DEF TypeOK
<1>5. chunks' = [chunks EXCEPT ![k] = [chunks[k] EXCEPT !.values =
                                         [chunks[k].values EXCEPT ![i] = v]]]
  BY <1>3
<1> DEFINE d == [chunks[k] EXCEPT !.values = [chunks[k].values EXCEPT ![i] = v]]
<1>6. /\ d \in Chunk /\ d.validity = chunks[k].validity
      /\ d.values[i] = v
      /\ \A j \in Slots : j # i => d.values[j] = chunks[k].values[j]
  BY <1>1, <1>2 DEF Chunk
<1>7. chunks' = [chunks EXCEPT ![k] = d]
  BY <1>5
<1> HIDE DEF d
<1>8. /\ chunks' \in Seq(Chunk) /\ Len(chunks') = Len(chunks) /\ chunks'[k] = d
      /\ \A c \in 1..Len(chunks) : c # k => chunks'[c] = chunks[c]
  BY <1>1, <1>4, <1>6, <1>7
<1> QED
  BY <1>1, <1>6, <1>8 DEF k, i, v

\* WriteValidity sets or clears the bit of the next row.
LEMMA WriteValiditySets ==
  ASSUME TypeOK, WriterInv, NEW w \in Writers, WriteValidity(w)
  PROVE  /\ chunks' \in Seq(Chunk) /\ Len(chunks') = Len(chunks)
         /\ \A c \in 1..Len(chunks) : chunks'[c].values = chunks[c].values
         /\ \A c \in 1..Len(chunks), i \in Words, b \in Bits :
              ~(c = ChunkOf(visible) /\ i = WordOf(visible) /\ b = BitOf(visible)) =>
                (b \in chunks'[c].validity[i] <=> b \in chunks[c].validity[i])
         /\ BitOf(visible) \in chunks'[ChunkOf(visible)].validity[WordOf(visible)]
              <=> wrow[w] # Null
<1> DEFINE k == ChunkOf(visible)
<1> DEFINE i == WordOf(visible)
<1> DEFINE b == BitOf(visible)
<1> DEFINE valid == wrow[w] # Null
<1> DEFINE v == WithBit(chunks[k].validity[i], b, valid)
<1>1. /\ windex[w] = visible /\ k \in 1..Len(chunks) /\ i \in Words /\ b \in Bits
      /\ chunks[k] \in Chunk
  BY OwnPlace DEF WriteValidity, WriteSteps
<1>3. chunks' = [chunks EXCEPT ![k].validity[i] = v]
  BY <1>1 DEF WriteValidity
<1> HIDE DEF k, i, b
<1>2. /\ v \in SUBSET Bits /\ (b \in v <=> valid)
      /\ \A x \in Bits : x # b => (x \in v <=> x \in chunks[k].validity[i])
  <2>1. chunks[k].validity[i] \in SUBSET Bits
    BY <1>1 DEF Chunk
  <2> QED
    BY <1>1, <2>1 DEF WithBit
<1> HIDE DEF v, valid
<1>4. chunks \in Seq(Chunk)
  BY DEF TypeOK
<1>5. chunks' = [chunks EXCEPT ![k] = [chunks[k] EXCEPT !.validity =
                                         [chunks[k].validity EXCEPT ![i] = v]]]
  BY <1>3
<1> DEFINE d == [chunks[k] EXCEPT !.validity = [chunks[k].validity EXCEPT ![i] = v]]
<1>6. /\ d \in Chunk /\ d.values = chunks[k].values
      /\ d.validity[i] = v
      /\ \A j \in Words : j # i => d.validity[j] = chunks[k].validity[j]
  BY <1>1, <1>2 DEF Chunk
<1>7. chunks' = [chunks EXCEPT ![k] = d]
  BY <1>5
<1> HIDE DEF d
<1>8. /\ chunks' \in Seq(Chunk) /\ Len(chunks') = Len(chunks) /\ chunks'[k] = d
      /\ \A c \in 1..Len(chunks) : c # k => chunks'[c] = chunks[c]
  BY <1>1, <1>4, <1>6, <1>7
<1>9. ASSUME NEW c \in 1..Len(chunks), NEW j \in Words, NEW x \in Bits,
             ~(c = k /\ j = i /\ x = b)
      PROVE  x \in chunks'[c].validity[j] <=> x \in chunks[c].validity[j]
  <2>1. CASE c # k
    BY <2>1, <1>8
  <2>2. CASE c = k /\ j # i
    BY <2>2, <1>6, <1>8
  <2>3. CASE c = k /\ j = i
    BY <2>3, <1>2, <1>6, <1>8, <1>9
  <2> QED
    BY <2>1, <2>2, <2>3
<1> QED
  BY <1>1, <1>2, <1>6, <1>8, <1>9 DEF k, i, b, valid

-----------------------------------------------------------------------------
(* Types *)

LEMMA ReleaseTyped ==
  ASSUME TypeOK, NEW t, ReleaseCaller(t)
  PROVE  callerLock' \in Writers \cup Closers \cup {NoThread}
BY DEF ReleaseCaller, TypeOK

LEMMA AppendTyped ==
  ASSUME TypeOK, WriterInv, NEW w \in Writers, AppendNext(w)
  PROVE  TypeOK'
<1>1. CASE \E row \in Row : Enter(w, row)
  BY <1>1 DEF Enter, TakeCaller, TypeOK, snapVars
<1>2. CASE Check(w)
  BY <1>2 DEF Check, TypeOK, snapVars
<1>3. CASE Throws(w)
  BY <1>3, ReleaseTyped DEF Throws, Leave, TypeOK, snapVars
<1>4. CASE LoadIndex(w)
  BY <1>4 DEF LoadIndex, TypeOK, snapVars
<1>5. CASE ProvideChunk(w)
  BY <1>5, ProvideChunkAdds DEF ProvideChunk, TypeOK, snapVars
<1>6. CASE WriteValue(w)
  BY <1>6, WriteValueSets DEF WriteValue, TypeOK, snapVars
<1>7. CASE WriteValidity(w)
  BY <1>7, WriteValiditySets DEF WriteValidity, TypeOK, snapVars
<1>8. CASE Publish(w)
  BY <1>8, ReleaseTyped DEF Publish, Leave, TypeOK, snapVars
<1> QED
  BY <1>1, <1>2, <1>3, <1>4, <1>5, <1>6, <1>7, <1>8 DEF AppendNext

LEMMA CopiedTyped ==
  ASSUME NEW n \in Nat
  PROVE  FirstChunks(n) \in Seq(Nat) /\ Len(FirstChunks(n)) = NeededChunks(n)
BY ChunksNeeded DEF FirstChunks

LEMMA SnapshotTyped ==
  ASSUME TypeOK, NEW t \in Snapshotters, SnapshotNext(t)
  PROVE  TypeOK'
<1>1. CASE LoadSize(t)
  BY <1>1 DEF LoadSize, TypeOK, writerVars
<1>2. CASE CopyChunks(t)
  <2>1. FirstChunks(ssize[t]) \in Seq(Nat)
    BY CopiedTyped DEF TypeOK
  <2>2. srefs' \in [Snapshotters -> Seq(Nat)]
    BY <1>2, <2>1 DEF CopyChunks, TypeOK
  <2> QED
    BY <1>2, <2>2, ReleaseTyped DEF CopyChunks, TypeOK, writerVars
<1>3. CASE SnapshotThrows(t) \/ DropPrefix(t)
  <2>1. LeaveSnapshot(t)
    BY <1>3 DEF SnapshotThrows, DropPrefix
  <2>2. << >> \in Seq(Nat)
    OBVIOUS
  <2>3. srefs' \in [Snapshotters -> Seq(Nat)]
    BY <2>1, <2>2 DEF LeaveSnapshot, TypeOK
  <2> QED
    BY <2>1, <2>3, ReleaseTyped DEF LeaveSnapshot, TypeOK, writerVars
<1> QED
  BY <1>1, <1>2, <1>3 DEF SnapshotNext

LEMMA FreezeTyped ==
  ASSUME TypeOK, NEW t \in Closers, BeginFreeze(t) \/ FreezeOpen(t) \/ FreezeAgain(t)
  PROVE  TypeOK'
<1>1. CASE BeginFreeze(t)
  BY <1>1 DEF BeginFreeze, TakeCaller, TypeOK, writerVars, Snapshotters
<1>2. CASE FreezeOpen(t)
  BY <1>2 DEF FreezeOpen, TypeOK, writerVars, Snapshotters
<1>3. CASE FreezeAgain(t)
  BY <1>3, ReleaseTyped DEF FreezeAgain, TypeOK, writerVars, Snapshotters
<1> QED
  BY <1>1, <1>2, <1>3

LEMMA NextTyped ==
  ASSUME TypeOK, WriterInv, Next
  PROVE  TypeOK'
<1>1. CASE \E t \in Readers : BeginSnapshot(t)
  BY <1>1 DEF BeginSnapshot, TypeOK, writerVars, Snapshotters
<1> QED
  BY <1>1, AppendTyped, SnapshotTyped, FreezeTyped DEF Next

-----------------------------------------------------------------------------
(* The mutex and the flag *)

\* What one append step may do to the mutex, the flag and the other writers.
LEMMA AppendFrame ==
  ASSUME TypeOK, NEW w \in Writers, AppendNext(w)
  PROVE  /\ UNCHANGED <<closed, snapVars>>
         /\ \A x \in Writers \ {w} :
              wpc'[x] = wpc[x] /\ wrow'[x] = wrow[x] /\ windex'[x] = windex[x]
<1>1. UNCHANGED <<closed, snapVars>>
  BY DEF AppendNext, Enter, Check, Throws, LoadIndex, ProvideChunk, WriteValue,
    WriteValidity, Publish
<1> QED
  BY <1>1 DEF AppendNext, Enter, Check, Throws, LoadIndex, ProvideChunk, WriteValue,
    WriteValidity, Publish, Leave, TypeOK

\* A writer has the mutex from its first step to its last one.
LEMMA AppendLock ==
  ASSUME TypeOK, CallerInv, NEW w \in Writers, AppendNext(w)
  PROVE  /\ wpc[w] # "idle" => callerLock = w
         /\ wpc[w] = "idle" => callerLock = NoThread
         /\ wpc'[w] # "idle" => callerLock' = w
         /\ wpc'[w] = "idle" => callerLock' = NoThread
<1>1. wpc[w] # "idle" => callerLock = w
  BY DEF CallerInv
<1> QED
  BY <1>1 DEF AppendNext, Enter, Check, Throws, LoadIndex, ProvideChunk, WriteValue,
    WriteValidity, Publish, Leave, TakeCaller, ReleaseCaller, TypeOK

\* What one step of snapshot or freeze may do.
LEMMA SnapshotFrame ==
  ASSUME TypeOK, NEW t \in Snapshotters,
         \/ SnapshotNext(t)
         \/ t \in Readers /\ BeginSnapshot(t)
         \/ t \in Closers /\ (BeginFreeze(t) \/ FreezeOpen(t) \/ FreezeAgain(t))
  PROVE  /\ UNCHANGED <<chunks, visible, writerVars>>
         /\ \A u \in Snapshotters \ {t} :
              spc'[u] = spc[u] /\ ssize'[u] = ssize[u] /\ srefs'[u] = srefs[u]
<1>1. UNCHANGED <<chunks, visible, writerVars>>
  BY DEF SnapshotNext, LoadSize, CopyChunks, SnapshotThrows, DropPrefix, LeaveSnapshot,
    BeginSnapshot, BeginFreeze, FreezeOpen, FreezeAgain
<1> QED
  BY <1>1 DEF SnapshotNext, LoadSize, CopyChunks, SnapshotThrows, DropPrefix, LeaveSnapshot,
    BeginSnapshot, BeginFreeze, FreezeOpen, FreezeAgain, TypeOK

\* Freeze has the mutex until it has its prefix; snapshot does without.
LEMMA SnapshotLock ==
  ASSUME TypeOK, CallerInv, NEW t \in Snapshotters,
         \/ SnapshotNext(t)
         \/ t \in Readers /\ BeginSnapshot(t)
         \/ t \in Closers /\ (BeginFreeze(t) \/ FreezeOpen(t) \/ FreezeAgain(t))
  PROVE  /\ t \in Readers => UNCHANGED <<callerLock, closed>>
         /\ t \in Closers =>
              LET steps == {"freezing", "calling", "sized"}
              IN  /\ spc[t] \in steps => callerLock = t
                  /\ spc[t] \notin steps => callerLock # t
                  /\ spc'[t] \in steps => callerLock' = t
                  /\ spc'[t] \notin steps =>
                       callerLock' = IF callerLock = t THEN NoThread ELSE callerLock
                  /\ spc'[t] \in steps /\ spc[t] \notin steps => callerLock = NoThread
<1>1. CASE t \in Readers
  <2>1. t \notin Closers /\ callerLock # t /\ t # NoThread
    BY <1>1, ThreadsAssumption DEF TypeOK, Snapshotters
  <2> QED
    BY <1>1, <2>1 DEF SnapshotNext, LoadSize, CopyChunks, SnapshotThrows, DropPrefix,
      LeaveSnapshot, ReleaseCaller, BeginSnapshot
<1>2. CASE t \in Closers
  <2>1. t \notin Readers
    BY <1>2, ThreadsAssumption
  <2>2. spc[t] \in {"freezing", "calling", "sized"} <=> callerLock = t
    BY <1>2 DEF CallerInv
  <2>3. spc \in [Snapshotters -> {"idle", "freezing", "calling", "sized", "prefix"}]
    BY DEF TypeOK
  <2>4. CASE LoadSize(t)
    BY <2>1, <2>2, <2>3, <2>4 DEF LoadSize
  <2>5. CASE CopyChunks(t)
    BY <2>1, <2>2, <2>3, <2>5 DEF CopyChunks, ReleaseCaller
  <2>6. CASE SnapshotThrows(t)
    BY <2>1, <2>2, <2>3, <2>6 DEF SnapshotThrows, LeaveSnapshot, ReleaseCaller
  <2>7. CASE BeginFreeze(t)
    BY <2>1, <2>2, <2>3, <2>7 DEF BeginFreeze, TakeCaller
  <2>8. CASE FreezeOpen(t)
    BY <2>1, <2>2, <2>3, <2>8 DEF FreezeOpen
  <2>9. CASE FreezeAgain(t)
    BY <2>1, <2>2, <2>3, <2>9 DEF FreezeAgain, ReleaseCaller
  <2> QED
    BY <2>1, <2>4, <2>5, <2>6, <2>7, <2>8, <2>9 DEF SnapshotNext, DropPrefix
<1> QED
  BY <1>1, <1>2 DEF Snapshotters

\* The steps of Next, by the thread that takes them.
SnapshotStep(t) ==
  \/ SnapshotNext(t)
  \/ t \in Readers /\ BeginSnapshot(t)
  \/ t \in Closers /\ (BeginFreeze(t) \/ FreezeOpen(t) \/ FreezeAgain(t))

LEMMA StepOfAThread ==
  ASSUME Next
  PROVE  \/ \E w \in Writers : AppendNext(w)
         \/ \E t \in Snapshotters : SnapshotStep(t)
BY DEF Next, SnapshotStep, Snapshotters

LEMMA NextKeepsCaller ==
  ASSUME TypeOK, CallerInv, Next
  PROVE  CallerInv'
<1>1. ASSUME NEW w \in Writers, AppendNext(w) PROVE CallerInv'
  <2>1. /\ spc' = spc
        /\ \A x \in Writers \ {w} : wpc'[x] = wpc[x]
    BY <1>1, AppendFrame DEF snapVars
  <2>2. /\ w # NoThread
        /\ \A x \in Writers : x # NoThread /\ \A t \in Closers : t # NoThread /\ x # t
    BY ThreadsAssumption DEF Snapshotters
  <2> QED
    BY <1>1, <2>1, <2>2, AppendLock DEF CallerInv
<1>2. ASSUME NEW t \in Snapshotters, SnapshotStep(t) PROVE CallerInv'
  <2>1. /\ wpc' = wpc
        /\ \A u \in Snapshotters \ {t} : spc'[u] = spc[u]
    BY <1>2, SnapshotFrame DEF SnapshotStep, writerVars
  <2>2. t # NoThread /\ \A x \in Writers : x # NoThread /\ x # t
    BY ThreadsAssumption DEF Snapshotters
  <2>3. \A u \in Closers : u # NoThread /\ u \in Snapshotters
    BY ThreadsAssumption DEF Snapshotters
  <2>4. CASE t \in Readers
    <3>1. callerLock' = callerLock /\ t \notin Closers
      BY <1>2, <2>4, SnapshotLock, ThreadsAssumption DEF SnapshotStep
    <3> QED
      BY <2>1, <2>3, <3>1 DEF CallerInv
  <2>5. CASE t \in Closers
    BY <1>2, <2>1, <2>2, <2>3, <2>5, SnapshotLock DEF SnapshotStep, CallerInv
  <2> QED
    BY <2>4, <2>5 DEF Snapshotters
<1> QED
  BY <1>1, <1>2, StepOfAThread

LEMMA NextKeepsClosed ==
  ASSUME TypeOK, CallerInv, ClosedInv, Next
  PROVE  ClosedInv'
<1>1. ASSUME NEW w \in Writers, AppendNext(w) PROVE ClosedInv'
  <2>1. /\ UNCHANGED <<closed, spc>>
        /\ \A x \in Writers \ {w} : wpc'[x] = wpc[x]
    BY <1>1, AppendFrame DEF snapVars
  <2>2. wpc'[w] \in {"open"} \cup IndexSteps => ~closed
    BY <1>1 DEF AppendNext, Enter, Check, Throws, LoadIndex, ProvideChunk, WriteValue,
      WriteValidity, Publish, Leave, ClosedInv, IndexSteps, WriteSteps, TypeOK
  <2> QED
    BY <2>1, <2>2 DEF ClosedInv
<1>2. ASSUME NEW t \in Snapshotters, SnapshotStep(t) PROVE ClosedInv'
  <2>1. /\ wpc' = wpc
        /\ \A u \in Snapshotters \ {t} : spc'[u] = spc[u]
    BY <1>2, SnapshotFrame DEF SnapshotStep, writerVars
  <2>2. CASE t \in Closers /\ FreezeOpen(t)
    <3>1. closed' /\ callerLock = t /\ t \notin Writers
      BY <2>2, ThreadsAssumption DEF FreezeOpen, CallerInv, Snapshotters
    <3>2. \A w \in Writers : wpc[w] = "idle"
      BY <3>1 DEF CallerInv
    <3> QED
      BY <2>1, <3>1, <3>2 DEF ClosedInv, IndexSteps, WriteSteps
  <2>3. CASE ~(t \in Closers /\ FreezeOpen(t))
    <3>1. closed' = closed
      BY <1>2, <2>3 DEF SnapshotStep, SnapshotNext, LoadSize, CopyChunks, SnapshotThrows,
        DropPrefix, LeaveSnapshot, BeginSnapshot, BeginFreeze, FreezeAgain
    <3>2. t \in Closers /\ spc'[t] \in {"calling", "sized", "prefix"} =>
            spc[t] \in {"calling", "sized", "prefix"}
      BY <1>2, <2>3, ThreadsAssumption DEF SnapshotStep, SnapshotNext, LoadSize, CopyChunks,
        SnapshotThrows, DropPrefix, LeaveSnapshot, BeginSnapshot, BeginFreeze, FreezeAgain,
        TypeOK
    <3> QED
      BY <2>1, <3>1, <3>2 DEF ClosedInv, Snapshotters
  <2> QED
    BY <2>2, <2>3
<1> QED
  BY <1>1, <1>2, StepOfAThread

-----------------------------------------------------------------------------
(* The row that is being written *)

\* Only one writer is in append_impl.
LEMMA OneWriter ==
  ASSUME CallerInv, NEW w \in Writers, wpc[w] # "idle", NEW x \in Writers, x # w
  PROVE  wpc[x] = "idle"
BY DEF CallerInv

\* What WriterInv says of one writer.
Stored(w) ==
  /\ wpc[w] # "idle" => wrow[w] # None
  /\ wpc[w] \in IndexSteps => windex[w] = visible
  /\ wpc[w] \in WriteSteps => ChunkOf(visible) <= Len(chunks)
  /\ wpc[w] \in {"valued", "written"} /\ wrow[w] # Null =>
       chunks[ChunkOf(visible)].values[Local(visible)] = wrow[w]
  /\ wpc[w] = "written" =>
       (BitOf(visible) \in chunks[ChunkOf(visible)].validity[WordOf(visible)]
          <=> wrow[w] # Null)

LEMMA AppendStores ==
  ASSUME TypeOK, CallerInv, WriterInv, NeededChunks(visible) <= Len(chunks),
         NEW w \in Writers, AppendNext(w)
  PROVE  Stored(w)'
<1> USE DEF IndexSteps, WriteSteps
<1>1. ASSUME NEW row \in Row, Enter(w, row) PROVE Stored(w)'
  <2>1. row # None
    BY RowsAssumption
  <2> QED
    BY <1>1, <2>1 DEF Enter, Stored, TypeOK
<1>2. CASE Check(w)
  BY <1>2 DEF Check, Stored, WriterInv, TypeOK
<1>3. CASE Throws(w) \/ Publish(w)
  BY <1>3 DEF Throws, Publish, Leave, Stored, TypeOK
<1>4. CASE LoadIndex(w)
  BY <1>4 DEF LoadIndex, Stored, WriterInv, TypeOK
<1>5. CASE ProvideChunk(w)
  <2>1. windex[w] = visible /\ visible \in Nat /\ wrow[w] # None
    BY <1>5 DEF ProvideChunk, WriterInv, TypeOK
  <2>2. ChunkOf(visible) <= Len(chunks) + 1
    <3>1. NeededChunks(visible) \in Nat /\ ChunkOf(visible) \in Nat
      BY <2>1, ChunksNeeded, Placement
    <3>2. Len(chunks) \in Nat
      BY DEF TypeOK
    <3>3. ChunkOf(visible) <= NeededChunks(visible) + 1
      BY <2>1, NextRowsChunk
    <3> QED
      BY <3>1, <3>2, <3>3
  <2>3. ChunkOf(visible) <= Len(chunks')
    BY <1>5, <2>1, <2>2, Placement, FreshChunkTyped DEF ProvideChunk, TypeOK
  <2> QED
    BY <1>5, <2>1, <2>3 DEF ProvideChunk, Stored, TypeOK
<1>6. CASE WriteValue(w)
  BY <1>6, WriteValueSets, OwnPlace DEF WriteValue, Stored, WriterInv, TypeOK
<1>7. CASE WriteValidity(w)
  BY <1>7, WriteValiditySets, OwnPlace DEF WriteValidity, Stored, WriterInv, TypeOK
<1> QED
  BY <1>1, <1>2, <1>3, <1>4, <1>5, <1>6, <1>7 DEF AppendNext

LEMMA NextKeepsWriters ==
  ASSUME TypeOK, CallerInv, WriterInv, NeededChunks(visible) <= Len(chunks), Next
  PROVE  WriterInv'
<1>1. ASSUME NEW w \in Writers, AppendNext(w) PROVE WriterInv'
  <2>1. Stored(w)'
    BY <1>1, AppendStores
  <2>2. ASSUME NEW x \in Writers, x # w PROVE Stored(x)'
    <3>1. wpc[x] = "idle"
      BY <1>1, <2>2, AppendLock, ThreadsAssumption DEF CallerInv
    <3>2. wpc'[x] = "idle"
      BY <1>1, <2>2, <3>1, AppendFrame
    <3> QED
      BY <3>2 DEF Stored, IndexSteps, WriteSteps
  <2> QED
    BY <2>1, <2>2 DEF WriterInv, Stored
<1>2. ASSUME NEW t \in Snapshotters, SnapshotStep(t) PROVE WriterInv'
  BY <1>2, SnapshotFrame DEF SnapshotStep, WriterInv, writerVars
<1> QED
  BY <1>1, <1>2, StepOfAThread

-----------------------------------------------------------------------------
(* Prefixes *)

\* The visible rows change only when an append publishes its row.
LEMMA VisibleGrows ==
  ASSUME TypeOK, WriterInv, Next
  PROVE  \/ visible' = visible
         \/ /\ visible' = visible + 1
            /\ UNCHANGED <<chunks, closed, snapVars>>
            /\ \E w \in Writers : Publish(w) /\ wpc[w] = "written" /\ windex[w] = visible
<1>1. ASSUME NEW w \in Writers, AppendNext(w), visible' # visible
      PROVE  Publish(w)
  BY <1>1 DEF AppendNext, Enter, Check, Throws, LoadIndex, ProvideChunk, WriteValue,
    WriteValidity
<1>2. ASSUME NEW w \in Writers, Publish(w)
      PROVE  /\ visible' = visible + 1 /\ UNCHANGED <<chunks, closed, snapVars>>
             /\ wpc[w] = "written" /\ windex[w] = visible
  BY <1>2 DEF Publish, WriterInv, IndexSteps, WriteSteps
<1>3. ASSUME NEW t \in Snapshotters, SnapshotStep(t) PROVE visible' = visible
  BY <1>3, SnapshotFrame DEF SnapshotStep
<1> QED
  BY <1>1, <1>2, <1>3, StepOfAThread

LEMMA ChunksGrow ==
  ASSUME TypeOK, WriterInv, Next
  PROVE  Len(chunks) <= Len(chunks')
<1>1. ASSUME NEW w \in Writers, AppendNext(w) PROVE Len(chunks) <= Len(chunks')
  <2>1. CASE ProvideChunk(w) \/ WriteValue(w) \/ WriteValidity(w)
    BY <2>1, ProvideChunkAdds, WriteValueSets, WriteValiditySets DEF TypeOK
  <2>2. CASE ~(ProvideChunk(w) \/ WriteValue(w) \/ WriteValidity(w))
    <3>1. chunks' = chunks
      BY <1>1, <2>2 DEF AppendNext, Enter, Check, Throws, LoadIndex, Publish
    <3> QED
      BY <3>1 DEF TypeOK
  <2> QED
    BY <2>1, <2>2
<1>2. ASSUME NEW t \in Snapshotters, SnapshotStep(t) PROVE Len(chunks) <= Len(chunks')
  BY <1>2, SnapshotFrame DEF SnapshotStep, TypeOK
<1> QED
  BY <1>1, <1>2, StepOfAThread

LEMMA NextKeepsCover ==
  ASSUME TypeOK, WriterInv, NeededChunks(visible) <= Len(chunks), Next
  PROVE  NeededChunks(visible') <= Len(chunks')
<1>1. CASE visible' = visible
  <2>1. NeededChunks(visible) \in Nat
    BY ChunksNeeded DEF TypeOK
  <2>2. Len(chunks) \in Nat /\ Len(chunks') \in Nat
    BY NextTyped DEF TypeOK
  <2> QED
    BY <1>1, <2>1, <2>2, ChunksGrow
<1>2. CASE visible' # visible
  <2>1. PICK w \in Writers : wpc[w] = "written" /\ visible' = visible + 1 /\ chunks' = chunks
    BY <1>2, VisibleGrows
  <2>2. ChunkOf(visible) <= Len(chunks)
    BY <2>1 DEF WriterInv, WriteSteps
  <2> QED
    BY <2>1, <2>2, NextRowsChunk DEF TypeOK
<1> QED
  BY <1>1, <1>2

\* A thread that has no prefix yet gets one of all visible rows; one that has a
\* prefix keeps it.
LEMMA SnapshotSizes ==
  ASSUME TypeOK, NEW t \in Snapshotters, SnapshotStep(t)
  PROVE  /\ ssize'[t] \in {0, ssize[t], visible}
         /\ spc'[t] = "sized" => ssize'[t] = visible
         /\ spc'[t] = "prefix" =>
              /\ spc[t] = "sized" /\ ssize'[t] = ssize[t]
              /\ srefs'[t] = FirstChunks(ssize[t])
BY DEF SnapshotStep, SnapshotNext, LoadSize, CopyChunks, SnapshotThrows, DropPrefix,
  LeaveSnapshot, BeginSnapshot, BeginFreeze, FreezeOpen, FreezeAgain, TypeOK

LEMMA NextKeepsPrefixes ==
  ASSUME TypeOK, ClosedInv, WriterInv, PrefixInv, FrozenIsWhole, Next
  PROVE  PrefixInv' /\ FrozenIsWhole'
<1>1. ASSUME NEW w \in Writers, AppendNext(w) PROVE PrefixInv' /\ FrozenIsWhole'
  <2>1. UNCHANGED <<spc, ssize, srefs>>
    BY <1>1, AppendFrame DEF snapVars
  <2>2. CASE visible' = visible
    BY <2>1, <2>2 DEF PrefixInv, FrozenIsWhole
  <2>3. CASE visible' # visible
    <3>1. PICK x \in Writers : visible' = visible + 1 /\ wpc[x] = "written"
      BY <2>3, VisibleGrows
    <3>2. \A t \in Closers : spc[t] \notin {"sized", "prefix"}
      BY <3>1 DEF ClosedInv, IndexSteps, WriteSteps
    <3> QED
      BY <2>1, <3>1, <3>2 DEF PrefixInv, FrozenIsWhole, TypeOK
  <2> QED
    BY <2>2, <2>3
<1>2. ASSUME NEW t \in Snapshotters, SnapshotStep(t) PROVE PrefixInv' /\ FrozenIsWhole'
  <2>1. visible' = visible /\ visible \in Nat
    BY <1>2, SnapshotFrame DEF SnapshotStep, TypeOK
  <2>2. \A u \in Snapshotters \ {t} :
          spc'[u] = spc[u] /\ ssize'[u] = ssize[u] /\ srefs'[u] = srefs[u]
    BY <1>2, SnapshotFrame DEF SnapshotStep
  <2>3. ssize'[t] <= visible
    <3>1. ssize'[t] \in {0, ssize[t], visible}
      BY <1>2, SnapshotSizes
    <3>2. ssize[t] <= visible /\ 0 <= visible
      BY <2>1 DEF PrefixInv
    <3> QED
      BY <2>1, <3>1, <3>2
  <2>4. spc'[t] = "prefix" => srefs'[t] = FirstChunks(ssize'[t])
    BY <1>2, SnapshotSizes
  <2>5. t \in Closers /\ spc'[t] \in {"sized", "prefix"} => ssize'[t] = visible
    BY <1>2, SnapshotSizes DEF FrozenIsWhole
  <2>6. PrefixInv'
    BY <2>1, <2>2, <2>3, <2>4 DEF PrefixInv
  <2>7. FrozenIsWhole'
    BY <2>1, <2>2, <2>5 DEF FrozenIsWhole, Snapshotters
  <2> QED
    BY <2>6, <2>7
<1> QED
  BY <1>1, <1>2, StepOfAThread

-----------------------------------------------------------------------------
(* Rows stay *)

\* A row behind the visible ones is no visible one's slot or bit.
LEMMA VisibleApart ==
  ASSUME TypeOK, NEW o \in 0..(visible - 1)
  PROVE  /\ o \in Nat /\ visible \in Nat
         /\ ~(ChunkOf(o) = ChunkOf(visible) /\ Local(o) = Local(visible))
         /\ ~(/\ ChunkOf(o) = ChunkOf(visible) /\ WordOf(o) = WordOf(visible)
              /\ BitOf(o) = BitOf(visible))
<1>1. o \in Nat /\ visible \in Nat /\ o # visible
  BY DEF TypeOK
<1> QED
  BY <1>1, RowsApart

\* A visible row has a place in the chunks there are.
LEMMA VisiblePlace ==
  ASSUME TypeOK, NeededChunks(visible) <= Len(chunks), NEW o \in 0..(visible - 1)
  PROVE  /\ ChunkOf(o) \in 1..Len(chunks) /\ Local(o) \in Slots
         /\ WordOf(o) \in Words /\ BitOf(o) \in Bits
<1>1. visible \in Nat /\ o \in Nat /\ Len(chunks) \in Nat
  BY DEF TypeOK
<1>2. NeededChunks(visible) \in Nat /\ ChunkOf(o) <= NeededChunks(visible)
  BY <1>1, ChunksNeeded
<1>3. /\ ChunkOf(o) \in Nat \ {0} /\ Local(o) \in Slots
      /\ WordOf(o) \in Words /\ BitOf(o) \in Bits
  BY <1>1, Placement
<1> QED
  BY <1>1, <1>2, <1>3

\* No step changes a visible row.
LEMMA NextKeepsRows ==
  ASSUME TypeOK, WriterInv, NeededChunks(visible) <= Len(chunks), Next,
         NEW o \in 0..(visible - 1)
  PROVE  SlotRow(o)' = SlotRow(o)
<1> DEFINE k == ChunkOf(o)
<1> DEFINE i == Local(o)
<1> DEFINE word == WordOf(o)
<1> DEFINE bit == BitOf(o)
<1>1. k \in 1..Len(chunks) /\ i \in Slots /\ word \in Words /\ bit \in Bits
  BY VisiblePlace
<1>2. /\ ~(k = ChunkOf(visible) /\ i = Local(visible))
      /\ ~(k = ChunkOf(visible) /\ word = WordOf(visible) /\ bit = BitOf(visible))
  BY VisibleApart
<1> HIDE DEF k, i, word, bit
<1>3. SUFFICES /\ bit \in chunks'[k].validity[word] <=> bit \in chunks[k].validity[word]
               /\ chunks'[k].values[i] = chunks[k].values[i]
  BY DEF SlotRow, k, i, word, bit
<1>4. CASE \E w \in Writers : ProvideChunk(w)
  BY <1>1, <1>4, ProvideChunkAdds
<1>5. CASE \E w \in Writers : WriteValue(w)
  BY <1>1, <1>2, <1>5, WriteValueSets
<1>6. CASE \E w \in Writers : WriteValidity(w)
  BY <1>1, <1>2, <1>6, WriteValiditySets
<1>7. CASE chunks' = chunks
  BY <1>7
<1>8. \/ chunks' = chunks
      \/ \E w \in Writers : ProvideChunk(w) \/ WriteValue(w) \/ WriteValidity(w)
  <2>1. ASSUME NEW w \in Writers, AppendNext(w)
        PROVE  chunks' = chunks \/ ProvideChunk(w) \/ WriteValue(w) \/ WriteValidity(w)
    BY <2>1 DEF AppendNext, Enter, Check, Throws, LoadIndex, Publish
  <2>2. ASSUME NEW t \in Snapshotters, SnapshotStep(t) PROVE chunks' = chunks
    BY <2>2, SnapshotFrame DEF SnapshotStep
  <2> QED
    BY <2>1, <2>2, StepOfAThread
<1> QED
  BY <1>4, <1>5, <1>6, <1>7, <1>8

\* The row an append publishes is the one it was called with.
LEMMA PublishedRow ==
  ASSUME TypeOK, WriterInv, NEW w \in Writers, wpc[w] = "written"
  PROVE  SlotRow(visible) = wrow[w] /\ wrow[w] \in Row
BY DEF SlotRow, WriterInv, TypeOK

LEMMA NextKeepsRowsInv ==
  ASSUME TypeOK, WriterInv, NeededChunks(visible) <= Len(chunks), RowsInv, Next
  PROVE  RowsInv'
<1>1. ASSUME NEW o \in 0..(visible - 1) PROVE SlotRow(o)' \in Row
  BY NextKeepsRows DEF RowsInv
<1>2. CASE visible' = visible
  BY <1>1, <1>2 DEF RowsInv
<1>3. CASE visible' # visible
  <2>1. PICK w \in Writers : wpc[w] = "written" /\ visible' = visible + 1 /\ chunks' = chunks
    BY <1>3, VisibleGrows
  <2>2. \A o : o = visible => SlotRow(o)' \in Row
    BY <2>1, PublishedRow DEF SlotRow
  <2>3. \A o \in 0..(visible' - 1) : o \in 0..(visible - 1) \/ o = visible
    BY <2>1 DEF TypeOK
  <2> QED
    BY <1>1, <2>2, <2>3 DEF RowsInv
<1> QED
  BY <1>2, <1>3

-----------------------------------------------------------------------------
(* The invariant *)

LEMMA NoChunks == NeededChunks(0) = 0
<1>1. PICK q \in Nat, r \in 0..(ChunkCapacity - 1) :
        0 \div ChunkCapacity = q /\ 0 % ChunkCapacity = r /\ 0 = ChunkCapacity * q + r
  BY Division, GeometryAssumption
<1>2. ChunkCapacity * q \in Nat /\ (q # 0 => ChunkCapacity * q # 0)
  BY GeometryAssumption
<1> QED
  BY <1>1, <1>2 DEF NeededChunks

LEMMA InitDelta == Init => DeltaInv
<1> SUFFICES ASSUME Init PROVE DeltaInv
  OBVIOUS
<1> USE DEF Init
<1>1. TypeOK
  <2>1. << >> \in Seq(Chunk) /\ << >> \in Seq(Nat)
    OBVIOUS
  <2>2. /\ srefs \in [Snapshotters -> Seq(Nat)] /\ ssize \in [Snapshotters -> Nat]
        /\ spc \in [Snapshotters -> {"idle", "freezing", "calling", "sized", "prefix"}]
    BY <2>1
  <2>3. /\ wrow \in [Writers -> Row \cup {None}] /\ windex \in [Writers -> Nat]
        /\ wpc \in [Writers -> {"idle", "entered", "open", "indexed", "slot", "valued",
                                "written"}]
    OBVIOUS
  <2> QED
    BY <2>1, <2>2, <2>3 DEF TypeOK
<1>2. CallerInv
  BY ThreadsAssumption DEF CallerInv, Snapshotters
<1>3. ClosedInv /\ WriterInv /\ FrozenIsWhole
  BY DEF ClosedInv, WriterInv, FrozenIsWhole, IndexSteps, WriteSteps, Snapshotters
<1>4. PrefixInv /\ RowsInv
  BY DEF PrefixInv, RowsInv
<1>5. NeededChunks(visible) <= Len(chunks)
  BY NoChunks
<1> QED
  BY <1>1, <1>2, <1>3, <1>4, <1>5 DEF DeltaInv

LEMMA NextDelta == DeltaInv /\ [Next]_vars => DeltaInv'
<1> SUFFICES ASSUME DeltaInv, [Next]_vars PROVE DeltaInv'
  OBVIOUS
<1>1. CASE Next
  <2>1. TypeOK' /\ CallerInv' /\ ClosedInv'
    BY <1>1, NextTyped, NextKeepsCaller, NextKeepsClosed DEF DeltaInv
  <2>2. WriterInv' /\ NeededChunks(visible') <= Len(chunks')
    BY <1>1, NextKeepsWriters, NextKeepsCover DEF DeltaInv
  <2>3. PrefixInv' /\ FrozenIsWhole' /\ RowsInv'
    BY <1>1, NextKeepsPrefixes, NextKeepsRowsInv DEF DeltaInv
  <2>4. (NeededChunks(visible) <= Len(chunks))'
    BY <2>2 DEF NeededChunks
  <2> QED
    BY <2>1, <2>2, <2>3, <2>4 DEF DeltaInv
<1>2. CASE UNCHANGED vars
  BY <1>2 DEF vars, writerVars, snapVars, DeltaInv, TypeOK, CallerInv, ClosedInv, WriterInv,
    PrefixInv, FrozenIsWhole, RowsInv, SlotRow
<1> QED
  BY <1>1, <1>2

\* The invariant of append_impl, snapshot and freeze holds in every reachable state.
THEOREM DeltaInvariant == Spec => []DeltaInv
BY InitDelta, NextDelta, PTL DEF Spec

\* While a thread writes a value slot, which is an ordinary object, no other thread
\* writes it and no prefix shows it.
THEOREM SlotsAreUnshared == Spec => []SlotsUnshared
<1>1. DeltaInv => SlotsUnshared
  <2> SUFFICES ASSUME DeltaInv, NEW w \in Writers, wpc[w] = "slot"
               PROVE  /\ \A t \in Snapshotters : ssize[t] <= windex[w]
                      /\ \A x \in Writers \ {w} : wpc[x] = "slot" => windex[x] # windex[w]
    BY DEF SlotsUnshared
  <2>1. windex[w] = visible
    BY DEF DeltaInv, WriterInv, IndexSteps, WriteSteps
  <2> QED
    BY <2>1, OneWriter DEF DeltaInv, PrefixInv
<1> QED
  BY <1>1, DeltaInvariant, PTL

\* The chunks of a published row exist before its size can be acquired, and a prefix
\* has references to the chunks of all its rows.
THEOREM ChunksAreThere == Spec => []ChunksCoverSizes
<1>1. DeltaInv => ChunksCoverSizes
  <2> SUFFICES ASSUME DeltaInv, NEW t \in Snapshotters, spc[t] = "prefix"
               PROVE  ssize[t] <= Len(srefs[t]) * ChunkCapacity
    BY DEF ChunksCoverSizes, DeltaInv
  <2>1. ssize[t] \in Nat /\ srefs[t] = FirstChunks(ssize[t])
    BY DEF DeltaInv, TypeOK, PrefixInv
  <2> QED
    BY <2>1, CopiedTyped, ChunksSuffice
<1> QED
  BY <1>1, DeltaInvariant, PTL

\* A frozen prefix holds every row that is ever published in its delta.
THEOREM FrozenRowsAreAll == Spec => []FrozenIsWhole
<1>1. DeltaInv => FrozenIsWhole
  BY DEF DeltaInv
<1> QED
  BY <1>1, DeltaInvariant, PTL

-----------------------------------------------------------------------------
(* The delta is the atomic one *)

\* Through all the chunks it needs, a prefix shows the rows in their slots.
SlotRows(size) == [k \in 1..size |-> SlotRow(k - 1)]

LEMMA RowsOfPrefix ==
  ASSUME NEW size \in Nat, NEW n \in Nat, NeededChunks(size) <= n
  PROVE  PrefixRows(n, size) = SlotRows(size)
<1>1. ASSUME NEW k \in 1..size PROVE RowAt(n, k - 1) = SlotRow(k - 1)
  <2>1. k - 1 \in Nat /\ k - 1 \in 0..(size - 1)
    OBVIOUS
  <2>2. ChunkOf(k - 1) <= NeededChunks(size) /\ NeededChunks(size) \in Nat
    BY <2>1, ChunksNeeded
  <2>3. ChunkOf(k - 1) \in Nat
    BY <2>1, Placement
  <2>4. ~(ChunkOf(k - 1) > n)
    BY <2>2, <2>3
  <2> QED
    BY <2>4 DEF RowAt
<1> QED
  BY <1>1 DEF PrefixRows, SlotRows

\* Fewer rows need no more chunks.
LEMMA NeededMonotone ==
  ASSUME NEW a \in Nat, NEW b \in Nat, a <= b
  PROVE  NeededChunks(a) <= NeededChunks(b)
<1>1. CASE a = 0
  BY <1>1, NoChunks, ChunksNeeded
<1>2. CASE a # 0
  <2>1. PICK c \in Nat : a = c + 1
    BY <1>2
  <2>2. NeededChunks(a) = ChunkOf(c)
    BY <2>1, NextRowsChunk
  <2>3. c \in 0..(b - 1)
    BY <2>1
  <2> QED
    BY <2>2, <2>3, ChunksNeeded
<1> QED
  BY <1>1, <1>2

\* The rows of AtomicDelta, and its prefixes.
AllRows == PrefixRows(Len(chunks), visible)
Prefixes == [t \in Snapshotters |-> PrefixOf(t)]

Mapped ==
  /\ AllRows = SlotRows(visible)
  /\ \A t \in Snapshotters :
       PrefixOf(t) = IF spc[t] \in {"sized", "prefix"} THEN SlotRows(ssize[t]) ELSE None

LEMMA MappedState == DeltaInv => Mapped
<1> SUFFICES ASSUME DeltaInv PROVE Mapped
  OBVIOUS
<1>1. visible \in Nat /\ Len(chunks) \in Nat /\ NeededChunks(visible) <= Len(chunks)
  BY DEF DeltaInv, TypeOK
<1>2. AllRows = SlotRows(visible)
  BY <1>1, RowsOfPrefix DEF AllRows
<1>3. ASSUME NEW t \in Snapshotters
      PROVE  PrefixOf(t) = IF spc[t] \in {"sized", "prefix"} THEN SlotRows(ssize[t])
                           ELSE None
  <2>1. ssize[t] \in Nat /\ ssize[t] <= visible
    BY DEF DeltaInv, TypeOK, PrefixInv
  <2>2. NeededChunks(ssize[t]) \in Nat /\ NeededChunks(ssize[t]) <= NeededChunks(visible)
        /\ NeededChunks(visible) \in Nat
    BY <1>1, <2>1, NeededMonotone, ChunksNeeded
  <2>3. PrefixRows(Len(chunks), ssize[t]) = SlotRows(ssize[t])
    BY <1>1, <2>1, <2>2, RowsOfPrefix
  <2>4. spc[t] = "prefix" => PrefixRows(Len(srefs[t]), ssize[t]) = SlotRows(ssize[t])
    <3>1. spc[t] = "prefix" => Len(srefs[t]) = NeededChunks(ssize[t])
      BY <2>1, CopiedTyped DEF DeltaInv, PrefixInv
    <3>2. PrefixRows(NeededChunks(ssize[t]), ssize[t]) = SlotRows(ssize[t])
      BY <2>1, <2>2, RowsOfPrefix
    <3> QED
      BY <3>1, <3>2
  <2> QED
    BY <2>1, <2>3, <2>4 DEF PrefixOf
<1> QED
  BY <1>2, <1>3 DEF Mapped

\* A prefix is a sequence of rows, so not None.
LEMMA SlotRowsTyped ==
  ASSUME DeltaInv, NEW n \in 0..visible
  PROVE  SlotRows(n) \in Seq(Row) /\ SlotRows(n) # None
<1>1. \A o \in 0..(visible - 1) : SlotRow(o) \in Row
  BY DEF DeltaInv, RowsInv
<1>2. n \in Nat /\ \A k \in 1..n : k - 1 \in 0..(visible - 1)
  BY DEF DeltaInv, TypeOK
<1>3. \A k \in 1..n : SlotRow(k - 1) \in Row
  BY <1>1, <1>2
<1>4. SlotRows(n) \in Seq(Row)
  BY <1>2, <1>3 DEF SlotRows
<1> QED
  BY <1>4, RowsAssumption

\* No step changes the rows of a prefix, or those visible.
LEMMA NextKeepsSlotRows ==
  ASSUME DeltaInv, Next, NEW n \in 0..visible
  PROVE  SlotRows(n)' = SlotRows(n)
<1>1. visible \in Nat
  BY DEF DeltaInv, TypeOK
<1>2. \A k \in 1..n : k - 1 \in 0..(visible - 1)
  BY <1>1
<1>3. \A o \in 0..(visible - 1) : SlotRow(o)' = SlotRow(o)
  BY NextKeepsRows DEF DeltaInv
<1>4. \A k \in 1..n : SlotRow(k - 1)' = SlotRow(k - 1)
  BY <1>2, <1>3
<1> QED
  BY <1>4 DEF SlotRows

LEMMA InitAtomic == Init => Atomic!DeltaInit
<1> SUFFICES ASSUME Init PROVE Atomic!DeltaInit
  OBVIOUS
<1>1. AllRows = << >>
  BY DEF AllRows, PrefixRows, Init
<1>2. Prefixes = [t \in Snapshotters |-> None]
  BY DEF Prefixes, PrefixOf, Init
<1> QED
  BY <1>1, <1>2 DEF Atomic!DeltaInit, AllRows, Prefixes, Init

\* Prefixes that keep their sizes keep their rows.
LEMMA PrefixesStay ==
  ASSUME DeltaInv, Mapped, Mapped', Next, NEW t \in Snapshotters,
         ssize'[t] = ssize[t],
         spc'[t] \in {"sized", "prefix"} <=> spc[t] \in {"sized", "prefix"}
  PROVE  PrefixOf(t)' = PrefixOf(t)
<1>1. ssize[t] \in 0..visible
  BY DEF DeltaInv, TypeOK, PrefixInv
<1>2. \A n : n = ssize[t] => SlotRows(n)' = SlotRows(n)
  BY <1>1, NextKeepsSlotRows
<1>3. SlotRows(ssize[t])' = SlotRows(ssize[t])
  BY <1>2 DEF SlotRows
<1> QED
  BY <1>3 DEF Mapped

LEMMA RowsStay ==
  ASSUME DeltaInv, Mapped, Mapped', Next, visible' = visible
  PROVE  AllRows' = AllRows
<1>1. visible \in 0..visible
  BY DEF DeltaInv, TypeOK
<1>2. \A n : n = visible => SlotRows(n)' = SlotRows(n)
  BY <1>1, NextKeepsSlotRows
<1>3. SlotRows(visible)' = SlotRows(visible)
  BY <1>2 DEF SlotRows
<1> QED
  BY <1>3 DEF Mapped

LEMMA AppendedRow ==
  ASSUME NEW n \in Nat, NEW S, NEW f \in [1..(n + 1) -> S]
  PROVE  f = Append([k \in 1..n |-> f[k]], f[n + 1])
OBVIOUS

\* An append takes effect at its release store.
LEMMA AppendIsAtomic ==
  ASSUME DeltaInv, Mapped, Mapped', NEW w \in Writers, AppendNext(w)
  PROVE  /\ Prefixes' = Prefixes /\ closed' = closed
         /\ \/ AllRows' = AllRows
            \/ ~closed /\ \E row \in Row : AllRows' = Append(AllRows, row)
<1>1. Next /\ UNCHANGED <<closed, spc, ssize, srefs>>
  BY AppendFrame DEF snapVars, DeltaInv, Next
<1>2. Prefixes' = Prefixes
  BY <1>1, PrefixesStay DEF Prefixes
<1>3. CASE visible' = visible
  BY <1>1, <1>2, <1>3, RowsStay
<1>4. CASE visible' # visible
  <2>1. PICK x \in Writers :
          /\ visible' = visible + 1 /\ chunks' = chunks
          /\ wpc[x] = "written" /\ windex[x] = visible
    BY <1>1, <1>4, VisibleGrows DEF DeltaInv
  <2>2. ~closed
    BY <2>1 DEF DeltaInv, ClosedInv, IndexSteps, WriteSteps
  <2>3. SlotRow(visible) \in Row
    BY <2>1, PublishedRow DEF DeltaInv
  <2>4. visible \in Nat
    BY DEF DeltaInv, TypeOK
  <2>5. SlotRows(visible)' = [k \in 1..(visible + 1) |-> SlotRow(k - 1)]
    BY <2>1 DEF SlotRows, SlotRow
  <2>6. SlotRows(visible)' = Append(SlotRows(visible), SlotRow(visible))
    <3> DEFINE f == [k \in 1..(visible + 1) |-> SlotRow(k - 1)]
    <3>1. \A o \in 0..visible : SlotRow(o) \in Row
      BY <2>3, <2>4 DEF DeltaInv, RowsInv
    <3>2. \A k \in 1..(visible + 1) : k - 1 \in 0..visible
      BY <2>4
    <3>3. f \in [1..(visible + 1) -> Row]
      BY <3>1, <3>2
    <3>4. f[visible + 1] = SlotRow(visible) /\ visible + 1 - 1 = visible
      BY <2>4
    <3>5. SlotRows(visible) = [k \in 1..visible |-> f[k]]
      BY <2>4 DEF SlotRows
    <3> HIDE DEF f
    <3> QED
      BY <2>4, <2>5, <3>3, <3>4, <3>5, AppendedRow DEF f
  <2> QED
    BY <1>1, <1>2, <2>2, <2>3, <2>6 DEF Mapped
<1> QED
  BY <1>3, <1>4

\* A snapshot takes effect when it loads the size, a freeze also when it sets the flag.
LEMMA SnapshotIsAtomic ==
  ASSUME DeltaInv, Mapped, Mapped', NEW t \in Snapshotters, SnapshotStep(t)
  PROVE  Atomic!DeltaNext \/ UNCHANGED Atomic!deltaVars
<1>1. /\ Next /\ visible' = visible
      /\ \A u \in Snapshotters \ {t} :
           spc'[u] = spc[u] /\ ssize'[u] = ssize[u] /\ srefs'[u] = srefs[u]
  BY SnapshotFrame DEF SnapshotStep, Next, DeltaInv
<1>2. AllRows' = AllRows
  BY <1>1, RowsStay
<1>3. \A u \in Snapshotters \ {t} : PrefixOf(u)' = PrefixOf(u)
  BY <1>1, PrefixesStay
<1>4. spc \in [Snapshotters -> {"idle", "freezing", "calling", "sized", "prefix"}]
  BY DEF DeltaInv, TypeOK
<1>5. CASE LoadSize(t)
  <2>1. closed' = closed /\ PrefixOf(t) = None
    BY <1>5 DEF LoadSize, Mapped
  <2>2. spc'[t] = "sized" /\ ssize'[t] = visible'
    BY <1>1, <1>4, <1>5 DEF LoadSize, DeltaInv, TypeOK
  <2>3. PrefixOf(t)' = AllRows
    BY <1>2, <2>2 DEF Mapped
  <2>4. Prefixes' = [Prefixes EXCEPT ![t] = AllRows]
    BY <1>3, <2>3 DEF Prefixes
  <2>5. Atomic!TakePrefix(t)
    BY <1>2, <2>1, <2>4 DEF Atomic!TakePrefix, AllRows, Prefixes
  <2> QED
    BY <2>5 DEF Atomic!DeltaNext
<1>6. CASE LeaveSnapshot(t) /\ spc[t] \in {"sized", "prefix"}
  <2>1. closed' = closed /\ spc'[t] = "idle"
    BY <1>4, <1>6 DEF LeaveSnapshot
  <2>2. PrefixOf(t) # None
    BY <1>6, SlotRowsTyped DEF Mapped, DeltaInv, PrefixInv, TypeOK
  <2>3. PrefixOf(t)' = None
    BY <2>1 DEF Mapped
  <2>4. Prefixes' = [Prefixes EXCEPT ![t] = None]
    BY <1>3, <2>3 DEF Prefixes
  <2>5. Atomic!DropPrefix(t)
    BY <1>2, <2>1, <2>2, <2>4 DEF Atomic!DropPrefix, AllRows, Prefixes
  <2> QED
    BY <2>5 DEF Atomic!DeltaNext
<1>7. CASE FreezeOpen(t)
  <2>1. ssize'[t] = ssize[t] /\ spc[t] = "freezing" /\ spc'[t] = "calling"
    BY <1>4, <1>7 DEF FreezeOpen
  <2>2. Prefixes' = Prefixes
    BY <1>1, <1>3, <2>1, PrefixesStay DEF Prefixes
  <2>3. Atomic!Close
    BY <1>2, <1>7, <2>2 DEF Atomic!Close, FreezeOpen, AllRows, Prefixes
  <2> QED
    BY <2>3 DEF Atomic!DeltaNext
<1>8. CASE CopyChunks(t) \/ BeginSnapshot(t) \/ BeginFreeze(t) \/ FreezeAgain(t)
  <2>1. /\ closed' = closed /\ ssize'[t] = ssize[t]
        /\ spc'[t] \in {"sized", "prefix"} <=> spc[t] \in {"sized", "prefix"}
    BY <1>4, <1>8 DEF CopyChunks, BeginSnapshot, BeginFreeze, FreezeAgain
  <2>2. Prefixes' = Prefixes
    BY <1>1, <1>3, <2>1, PrefixesStay DEF Prefixes
  <2> QED
    BY <1>2, <2>1, <2>2 DEF Atomic!deltaVars, AllRows, Prefixes
<1> QED
  BY <1>5, <1>6, <1>7, <1>8 DEF SnapshotStep, SnapshotNext, SnapshotThrows, DropPrefix

\* The delta implements AtomicDelta: rows become visible one by one and whole,
\* nothing after the delta is closed, and a prefix never changes.
THEOREM DeltaIsAtomic == Spec => ImplementsAtomicDelta
<1>1. DeltaInv /\ Mapped /\ Mapped' /\ [Next]_vars => [Atomic!DeltaNext]_(Atomic!deltaVars)
  <2> SUFFICES ASSUME DeltaInv, Mapped, Mapped', [Next]_vars
               PROVE  Atomic!DeltaNext \/ UNCHANGED Atomic!deltaVars
    OBVIOUS
  <2>1. ASSUME NEW w \in Writers, AppendNext(w)
        PROVE  Atomic!DeltaNext \/ UNCHANGED Atomic!deltaVars
    BY <2>1, AppendIsAtomic
    DEF Atomic!DeltaNext, Atomic!PublishRow, Atomic!deltaVars, AllRows, Prefixes
  <2>2. UNCHANGED vars => UNCHANGED Atomic!deltaVars
    BY DEF vars, writerVars, snapVars, Atomic!deltaVars, PrefixRows, RowAt, SlotRow, PrefixOf
  <2> QED
    BY <2>1, <2>2, SnapshotIsAtomic, StepOfAThread
<1> QED
  BY <1>1, InitAtomic, DeltaInvariant, MappedState, PTL
  DEF Spec, ImplementsAtomicDelta, Atomic!DeltaSpec
=============================================================================
