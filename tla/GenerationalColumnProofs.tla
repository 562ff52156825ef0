---------------------- MODULE GenerationalColumnProofs ----------------------
(***************************************************************************)
(* GenerationalColumn is correctly typed, what a step reads has been set,  *)
(* and the safety invariants follow from the inductive invariant IInv, for *)
(* any number of threads, rows and merges.                                 *)
(***************************************************************************)
EXTENDS GenerationalColumnInv, FiniteSetTheorems, SequenceTheorems, TLAPS

-----------------------------------------------------------------------------
(* Rows *)

LEMMA CanonicalType == \A row \in Row : Canonical(row) \in Row
BY ValuesAssumption DEF Canonical, Row

LEMMA MainColumnType ==
  ASSUME NEW rows \in Seq(Row)
  PROVE  /\ MainColumn(rows) \in Seq(Row)
         /\ Len(MainColumn(rows)) = Len(rows)
         /\ \A i \in 1..Len(rows) : MainColumn(rows)[i] = Canonical(rows[i])
<1>1. Len(rows) \in Nat /\ DOMAIN rows = 1..Len(rows)
  BY LenProperties
<1>2. \A i \in 1..Len(rows) : Canonical(rows[i]) \in Row
  BY CanonicalType, ElementOfSeq
<1>3. MainColumn(rows) = [i \in 1..Len(rows) |-> Canonical(rows[i])]
  BY <1>1 DEF MainColumn
<1> QED
  BY <1>1, <1>2, <1>3

-----------------------------------------------------------------------------
(* Type correctness *)

LEMMA InitType == Init => TypeInv
<1> SUFFICES ASSUME Init PROVE TypeInv
  OBVIOUS
<1>1. MainColumn(Initial) \in Seq(Row) /\ Len(Initial) \in Nat
  BY InitialAssumption, MainColumnType, LenProperties
<1>2. [generation |-> 0, main |-> MainColumn(Initial), closed |-> NoDelta,
       active |-> 1, base |-> Len(Initial)] \in GenerationState
  BY <1>1 DEF GenerationState
<1>3. HeapType
  BY <1>2 DEF Init, HeapType
<1>4. LockType
  BY DEF Init, LockType, Lifecycle!InitLifecycle, Lifecycle!MergePhase
<1>5. WriterType /\ ReaderType /\ ObserverType /\ RetireType
  BY <1>3 DEF Init, HeapType, WriterType, ReaderType, ObserverType, RetireType, Ref
<1>6. MergerType
  BY <1>3 DEF Init, HeapType, MergerType, Job, Ref, NoJob
<1>7. MergerLocals /\ WriterLocals /\ ReaderLocals /\ ObserverLocals
  BY DEF Init, MergerLocals, WriterLocals, ReaderLocals, ObserverLocals, InputSteps,
         ClosedSteps, FreshSteps, HandedOff, PublishedSteps, OldSteps, StateSteps
<1> QED
  BY <1>3, <1>4, <1>5, <1>6, <1>7 DEF TypeInv, TypeOK

\* What every proof needs of the heap.
LEMMA HeapFacts ==
  ASSUME HeapType
  PROVE  /\ Len(states) \in Nat /\ Len(deltas) \in Nat
         /\ 0 \in Ref /\ current \in Ref /\ current # 0
         /\ \A i \in Ref \ {0} : i \in 1..Len(states)
         /\ \A i \in 1..Len(states) :
              /\ i \in Ref /\ i # 0
              /\ states[i] \in GenerationState
              /\ states[i].active \in 1..Len(deltas)
              /\ states[i].base \in Nat /\ states[i].generation \in Nat
              /\ states[i].main \in Seq(Row)
              /\ Len(states[i].main) \in Nat
         /\ \A d \in 1..Len(deltas) :
              /\ deltas[d] \in [rows : Seq(Row), closed : BOOLEAN]
              /\ deltas[d].rows \in Seq(Row)
              /\ Len(deltas[d].rows) \in Nat
<1>1. Len(states) \in Nat /\ Len(deltas) \in Nat
  BY LenProperties DEF HeapType
<1>2. \A i \in 1..Len(states) : states[i] \in GenerationState
  BY ElementOfSeq DEF HeapType
<1>3. \A d \in 1..Len(deltas) : deltas[d] \in [rows : Seq(Row), closed : BOOLEAN]
  BY ElementOfSeq DEF HeapType
<1>4. /\ 0 \in Ref /\ current \in Ref /\ current # 0
      /\ \A i \in Ref \ {0} : i \in 1..Len(states)
      /\ \A i \in 1..Len(states) : i \in Ref /\ i # 0
  BY <1>1 DEF HeapType, Ref
<1>5. \A i \in 1..Len(states) :
        /\ states[i].active \in 1..Len(deltas)
        /\ states[i].base \in Nat /\ states[i].generation \in Nat
        /\ states[i].main \in Seq(Row)
  BY <1>2 DEF HeapType, GenerationState
<1>6. \A d \in 1..Len(deltas) : deltas[d].rows \in Seq(Row)
  BY <1>3
<1>7. \A i \in 1..Len(states) : Len(states[i].main) \in Nat
  BY <1>5, LenProperties
<1>8. \A d \in 1..Len(deltas) : Len(deltas[d].rows) \in Nat
  BY <1>6, LenProperties
<1> QED
  BY <1>1, <1>2, <1>3, <1>4, <1>5, <1>6, <1>7, <1>8

LEMMA RetiredFinite ==
  ASSUME HeapType, retired \in SUBSET (1..Len(states))
  PROVE  /\ IsFiniteSet(retired) /\ IsFiniteSet(Unexpired)
         /\ Cardinality(retired \ Unexpired) \in Nat
<1>1. IsFiniteSet(1..Len(states))
  BY HeapFacts, FS_Interval
<1>2. IsFiniteSet(retired)
  BY <1>1, FS_Subset
<1>3. Unexpired \in SUBSET retired /\ retired \ Unexpired \in SUBSET retired
  BY DEF Unexpired
<1>4. IsFiniteSet(Unexpired) /\ IsFiniteSet(retired \ Unexpired)
  BY <1>2, <1>3, FS_Subset
<1> QED
  BY <1>2, <1>4, FS_CardinalityType

LEMMA ReaderKeepsType ==
  ASSUME TypeInv, NEW r \in Readers, ReaderNext(r)
  PROVE  TypeInv'
<1> USE DEF TypeInv, TypeOK
<1>1. UNCHANGED readerFrame
  BY DEF ReaderNext, ReadCall, ReadLoad, ReadPrefix, ReadReturn, ReadThrows, DropView,
         ReadStep
<1>2. Ref' = Ref /\ current \in Ref /\ 0 \in Ref /\ current # 0
  BY <1>1, HeapFacts DEF readerFrame, columnVars, Ref
<1>3. HeapType'
  BY <1>1 DEF readerFrame, columnVars, HeapType
<1>4. LockType'
  BY <1>1 DEF readerFrame, lockVars, LockType
<1>5. WriterType' /\ WriterLocals'
  BY <1>1, <1>2 DEF readerFrame, writerVars, WriterType, WriterLocals
<1>6. MergerType' /\ MergerLocals'
  BY <1>1, <1>2 DEF readerFrame, columnVars, mergerVars, MergerType, Job, MergerLocals
<1>7. RetireType'
  BY <1>1 DEF readerFrame, columnVars, retireVars, countVars, RetireType
<1>8. ObserverType' /\ ObserverLocals'
  BY <1>1, <1>2 DEF readerFrame, observerVars, ObserverType, ObserverLocals
<1>9. ReaderType' /\ ReaderLocals'
  <2>1. CASE ReadCall(r)
    BY <2>1, <1>2 DEF ReadCall, ReadStep, ReaderType, ReaderLocals
  <2>2. CASE ReadLoad(r)
    BY <2>2, <1>2 DEF ReadLoad, ReadStep, ReaderType, ReaderLocals, HeapType
  <2>3. CASE ReadPrefix(r)
    <3>1. Len(ActiveRows(rst[r])) \in Nat
      BY <2>3, HeapFacts DEF ReadPrefix, ReadStep, ActiveRows, ReaderType, ReaderLocals
    <3> QED
      BY <2>3, <1>2, <3>1 DEF ReadPrefix, ReadStep, ReaderType, ReaderLocals
  <2>4. CASE ReadReturn(r)
    BY <2>4, <1>2 DEF ReadReturn, ReadStep, ReaderType, ReaderLocals
  <2>5. CASE DropView(r)
    BY <2>5, <1>2 DEF DropView, LeaveRead, ReadStep, ReaderType, ReaderLocals
  <2>6. CASE ReadThrows(r)
    BY <2>6, <1>2 DEF ReadThrows, LeaveRead, ReadStep, ReaderType, ReaderLocals
  <2> QED
    BY <2>1, <2>2, <2>3, <2>4, <2>5, <2>6 DEF ReaderNext
<1> QED
  BY <1>3, <1>4, <1>5, <1>6, <1>7, <1>8, <1>9

\* A writer changes no group but its own, except for the rows of a delta and
\* the owner of handoff_mutex_.
LEMMA WriterKeepsType ==
  ASSUME TypeInv, NEW w \in Writers, WriterNext(w)
  PROVE  TypeInv'
<1> USE DEF TypeInv, TypeOK
<1>1. UNCHANGED writerFrame
  BY DEF WriterNext, AppendStep, AppendCall, AppendLock, AppendLoad, AppendCheck,
         AppendThrows, AppendPublish, RowIdOf, AppendReturn, LeaveAppend, UnlockHandoff
<1>2. Ref' = Ref /\ current \in Ref /\ 0 \in Ref /\ current # 0
  BY <1>1, HeapFacts DEF writerFrame, Ref
<1>3. ReaderType' /\ ReaderLocals'
  BY <1>1, <1>2 DEF writerFrame, readerVars, ReaderType, ReaderLocals
<1>4. MergerType'
  BY <1>1, <1>2 DEF writerFrame, mergerVars, MergerType, Job
<1>5. RetireType'
  BY <1>1 DEF writerFrame, retireVars, countVars, RetireType
<1>6. ObserverType' /\ ObserverLocals'
  BY <1>1, <1>2 DEF writerFrame, observerVars, ObserverType, ObserverLocals
<1>7. HeapType' /\ Len(deltas') = Len(deltas)
  <2>1. CASE UNCHANGED deltas
    BY <1>1, <2>1 DEF writerFrame, HeapType
  <2>2. CASE AppendPublish(w)
    <3> DEFINE d == states[wst[w]].active
    <3>1. wst[w] \in 1..Len(states)
      BY <2>2, HeapFacts DEF AppendPublish, RowIdOf, WriterType, WriterLocals, StateSteps
    <3>2. d \in 1..Len(deltas)
      BY <3>1 DEF HeapType
    <3>3. Append(deltas[d].rows, wrow[w]) \in Seq(Row)
      <4>1. wrow[w] \in Row
        BY <2>2 DEF AppendPublish, RowIdOf, WriterType, WriterLocals
      <4> QED
        BY <3>2, <4>1, HeapFacts
    <3>4. deltas' = [deltas EXCEPT ![d] = [@ EXCEPT !.rows = Append(deltas[d].rows, wrow[w])]]
      BY <2>2 DEF AppendPublish, RowIdOf
    <3>5. /\ deltas' \in Seq([rows : Seq(Row), closed : BOOLEAN])
          /\ Len(deltas') = Len(deltas)
      <4>1. [deltas[d] EXCEPT !.rows = Append(deltas[d].rows, wrow[w])]
              \in [rows : Seq(Row), closed : BOOLEAN]
        BY <3>2, <3>3, HeapFacts
      <4> QED
        BY <3>2, <3>4, <4>1, ExceptSeq DEF HeapType
    <3> QED
      BY <1>1, <3>5 DEF writerFrame, HeapType
  <2> QED
    BY <2>1, <2>2 DEF WriterNext, AppendStep, AppendCall, AppendLock, AppendLoad,
           AppendCheck, AppendThrows, AppendReturn, LeaveAppend, UnlockHandoff
<1>8. MergerLocals'
  BY <1>1, <1>7 DEF writerFrame, mergerVars, MergerLocals
<1>9. LockType'
  BY <1>1 DEF writerFrame, LockType, WriterNext, AppendStep, AppendCall, AppendLock,
         AppendLoad, AppendCheck, AppendThrows, AppendPublish, RowIdOf, AppendReturn,
         LeaveAppend, UnlockHandoff
<1>10. WriterType' /\ WriterLocals'
  <2>cases. \/ \E row \in Row : AppendCall(w, row)
            \/ AppendLock(w) \/ AppendLoad(w) \/ AppendCheck(w)
            \/ AppendThrows(w) \/ AppendReturn(w) \/ AppendPublish(w)
    BY DEF WriterNext, AppendStep
  <2> USE <1>2 DEF WriterType, WriterLocals, StateSteps
  <2>1. ASSUME NEW row \in Row, AppendCall(w, row)
        PROVE  WriterType' /\ WriterLocals'
    BY <2>1, ThreadsAssumption DEF AppendCall
  <2>2. CASE AppendLock(w)
    BY <2>2 DEF AppendLock
  <2>3. CASE AppendLoad(w)
    BY <2>3 DEF AppendLoad, HeapType
  <2>4. CASE AppendCheck(w)
    BY <2>4 DEF AppendCheck
  <2>5. CASE AppendThrows(w) \/ AppendReturn(w)
    BY <2>5 DEF AppendThrows, AppendReturn, LeaveAppend, UnlockHandoff
  <2>6. CASE AppendPublish(w)
    <3>1. /\ states[wst[w]].base \in Nat
          /\ Len(deltas[states[wst[w]].active].rows) \in Nat
      <4>1. wst[w] \in 1..Len(states)
        BY <2>6, HeapFacts DEF AppendPublish, RowIdOf
      <4> QED
        BY <4>1, HeapFacts
    <3> QED
      BY <2>6, <3>1 DEF AppendPublish, RowIdOf
  <2> HIDE DEF WriterType, WriterLocals, StateSteps
  <2> QED
    BY <2>cases, <2>1, <2>2, <2>3, <2>4, <2>5, <2>6
<1> QED
  BY <1>3, <1>4, <1>5, <1>6, <1>7, <1>8, <1>9, <1>10

LEMMA ObserverKeepsType ==
  ASSUME TypeInv, NEW o \in Observers, ObserverNext(o)
  PROVE  TypeInv'
<1> USE DEF TypeInv, TypeOK
<1>1. UNCHANGED observerFrame
  BY DEF ObserverNext, ObserveLoad, ObserveCleanup, ObserveRead, ObserveReturn,
         ObserveThrows, ObserveRelease, LeaveObserve, ObserveStep
<1>2. Ref' = Ref /\ current \in Ref /\ 0 \in Ref /\ current # 0
  BY <1>1, HeapFacts DEF observerFrame, columnVars, Ref
<1>3. HeapType'
  BY <1>1 DEF observerFrame, columnVars, HeapType
<1>4. LockType'
  BY <1>1 DEF observerFrame, LockType, ObserverNext, ObserveLoad,
         ObserveCleanup, ObserveRead, ObserveReturn, ObserveThrows, ObserveRelease,
         LeaveObserve, UnlockTelemetry, ObserveStep
<1>5. WriterType' /\ WriterLocals'
  BY <1>1, <1>2 DEF observerFrame, writerVars, WriterType, WriterLocals
<1>6. MergerType' /\ MergerLocals'
  BY <1>1, <1>2 DEF observerFrame, columnVars, mergerVars, MergerType, Job, MergerLocals
<1>7. ReaderType' /\ ReaderLocals'
  BY <1>1, <1>2 DEF observerFrame, readerVars, ReaderType, ReaderLocals
<1>8. RetireType'
  <2>1. CASE ObserveCleanup(o)
    <3>1. Unexpired \in SUBSET (1..Len(states))
      BY DEF RetireType, Unexpired
    <3>2. Cardinality(retired \ Unexpired) \in Nat
      BY RetiredFinite DEF RetireType
    <3> QED
      BY <1>1, <2>1, <3>1, <3>2 DEF observerFrame, columnVars, countVars, ObserveCleanup,
             CleanupRetired, CountReclaimed, RetireType
  <2>2. CASE \/ ObserveLoad(o) \/ ObserveRead(o) \/ ObserveReturn(o) \/ ObserveThrows(o)
             \/ ObserveRelease(o)
    BY <1>1, <2>2 DEF observerFrame, columnVars, countVars, ObserveLoad, ObserveRead,
           ObserveReturn, ObserveThrows, ObserveRelease, LeaveObserve, RetireType
  <2> QED
    BY <2>1, <2>2 DEF ObserverNext
<1>9. ObserverType' /\ ObserverLocals'
  <2> USE <1>2 DEF ObserverType, ObserverLocals, ObserveStep
  <2>1. CASE ObserveLoad(o)
    BY <2>1 DEF ObserveLoad
  <2>2. CASE ObserveCleanup(o)
    BY <2>2 DEF ObserveCleanup
  <2>3. CASE ObserveRead(o)
    BY <2>3 DEF ObserveRead
  <2>4. CASE ObserveReturn(o) \/ ObserveThrows(o)
    BY <2>4 DEF ObserveReturn, ObserveThrows, LeaveObserve
  <2>5. CASE ObserveRelease(o)
    BY <2>5 DEF ObserveRelease
  <2> QED
    BY <2>1, <2>2, <2>3, <2>4, <2>5 DEF ObserverNext
<1> QED
  BY <1>3, <1>4, <1>5, <1>6, <1>7, <1>8, <1>9

-----------------------------------------------------------------------------
(* Type correctness of the steps of merge_once *)

\* A step of merge_once that allocates no state and no delta.
LEMMA QuietMergeKeepsType ==
  ASSUME TypeInv, UNCHANGED mergerFrame, UNCHANGED states, HeapType',
         Len(deltas') = Len(deltas)
  PROVE  /\ WriterType' /\ WriterLocals' /\ ReaderType' /\ ReaderLocals'
         /\ ObserverType' /\ ObserverLocals' /\ Ref' = Ref
<1> USE DEF TypeInv, TypeOK, mergerFrame
<1>1. Ref' = Ref
  BY DEF Ref
<1>2. WriterType' /\ WriterLocals'
  BY <1>1 DEF writerVars, WriterType, WriterLocals
<1>3. ReaderType' /\ ReaderLocals'
  BY <1>1 DEF readerVars, ReaderType, ReaderLocals
<1>4. ObserverType' /\ ObserverLocals'
  BY <1>1 DEF observerVars, ObserverType, ObserverLocals
<1> QED
  BY <1>1, <1>2, <1>3, <1>4

\* A step of merge_once that installs a state.
LEMMA ExchangeKeepsType ==
  ASSUME TypeInv, UNCHANGED mergerFrame, NEW s \in GenerationState,
         states' = Append(states, s)
  PROVE  /\ WriterType' /\ WriterLocals' /\ ReaderType' /\ ReaderLocals'
         /\ ObserverType' /\ ObserverLocals' /\ Ref \subseteq Ref'
         /\ states' \in Seq(GenerationState)
         /\ Len(states') = Len(states) + 1
         /\ states'[Len(states) + 1] = s
         /\ \A i \in 1..Len(states) : states'[i] = states[i]
<1> USE DEF TypeInv, TypeOK, mergerFrame
<1>1. /\ states' \in Seq(GenerationState)
      /\ Len(states') = Len(states) + 1
      /\ states'[Len(states) + 1] = s
      /\ \A i \in 1..Len(states) : states'[i] = states[i]
  BY HeapFacts DEF HeapType
<1>2. Ref \subseteq Ref'
  BY <1>1, HeapFacts DEF Ref
<1>3. WriterType' /\ WriterLocals'
  BY <1>2 DEF writerVars, WriterType, WriterLocals
<1>4. ReaderType' /\ ReaderLocals'
  BY <1>2 DEF readerVars, ReaderType, ReaderLocals
<1>5. ObserverType' /\ ObserverLocals'
  BY <1>2 DEF observerVars, ObserverType, ObserverLocals
<1> QED
  BY <1>1, <1>2, <1>3, <1>4, <1>5

\* retire_state keeps the records typed: expired entries go, then a state enters.
LEMMA RecordsType ==
  ASSUME TypeInv, UNCHANGED <<states, countVars>>, NEW i \in 1..Len(states),
         NEW S, S = retired \cup {i},
         \/ CleanupRetired /\ UNCHANGED peakRetired
         \/ /\ retired' = S /\ UNCHANGED reclaimed
            /\ peakRetired' = IF Cardinality(S) > peakRetired
                              THEN Cardinality(S) ELSE peakRetired
         \/ UNCHANGED retireVars
  PROVE  RetireType'
<1>1. retired \in SUBSET (1..Len(states)) /\ HeapType
  BY DEF TypeInv, TypeOK, RetireType
<1>2. Cardinality(S) \in Nat
  BY <1>1, RetiredFinite, FS_AddElement, FS_CardinalityType
<1>3. Cardinality(retired \ Unexpired) \in Nat
  BY <1>1, RetiredFinite
<1>4. S \in SUBSET (1..Len(states)) /\ Unexpired \in SUBSET (1..Len(states))
  BY <1>1 DEF Unexpired
<1>5. reclaimed \in Nat /\ peakRetired \in Nat /\ merges \in Nat /\ rowsMerged \in Nat
  BY DEF TypeInv, TypeOK, RetireType
<1>6. states' = states /\ merges' = merges /\ rowsMerged' = rowsMerged
  BY DEF countVars
<1>7. CASE CleanupRetired /\ UNCHANGED peakRetired
  BY <1>3, <1>4, <1>5, <1>6, <1>7 DEF RetireType, CleanupRetired, CountReclaimed
<1>8. CASE /\ retired' = S /\ UNCHANGED reclaimed
           /\ peakRetired' = IF Cardinality(S) > peakRetired
                             THEN Cardinality(S) ELSE peakRetired
  <2>1. peakRetired' \in Nat
    BY <1>2, <1>5, <1>8
  <2> QED
    BY <1>4, <1>5, <1>6, <1>8, <2>1 DEF RetireType
<1>9. CASE UNCHANGED retireVars
  BY <1>1, <1>5, <1>6, <1>9 DEF RetireType, retireVars
<1> QED
  BY <1>7, <1>8, <1>9

\* A step of merge_once that leaves heap, locals and records alone.
LEMMA AdvanceType ==
  ASSUME TypeInv, NEW m \in Mergers,
         \/ MergeTryLock(m) \/ MergeBegin(m) \/ EnterBuilding(m) \/ EnterPublishing(m)
         \/ EnterRetired(m) \/ EnterStable(m) \/ Account(m) \/ Sample(m)
  PROVE  TypeInv'
<1> USE DEF TypeInv, TypeOK
<1>1. /\ UNCHANGED mergerFrame /\ UNCHANGED columnVars /\ UNCHANGED retireVars
      /\ UNCHANGED <<handoffLock, job>>
  BY DEF MergeTryLock, MergeBegin, EnterBuilding, EnterPublishing, EnterRetired,
         EnterStable, Account, Sample, MergedRows, Advance, lockVars
<1>2. HeapType' /\ Len(deltas') = Len(deltas) /\ UNCHANGED states
  BY <1>1 DEF columnVars, HeapType
<1>3. /\ WriterType' /\ WriterLocals' /\ ReaderType' /\ ReaderLocals'
      /\ ObserverType' /\ ObserverLocals' /\ Ref' = Ref
  BY <1>1, <1>2, QuietMergeKeepsType
<1>4. phase' \in Lifecycle!MergePhase
  BY DEF MergeTryLock, MergeBegin, EnterBuilding, EnterPublishing, EnterRetired,
         EnterStable, Account, Sample, MergedRows, Advance, lockVars,
         Lifecycle!Transition, Lifecycle!MergePhase, LockType
<1>5. /\ mergeLock' \in Mergers \cup {NoThread}
      /\ telemetryLock' \in Observers \cup Mergers \cup {NoThread}
  BY DEF MergeTryLock, MergeBegin, EnterBuilding, EnterPublishing, EnterRetired,
         EnterStable, Account, Sample, UnlockTelemetry, MergedRows, Advance, lockVars,
         LockType
<1>6. LockType'
  BY <1>1, <1>4, <1>5 DEF LockType
<1>7. RetireType'
  <2>1. CASE Account(m)
    <3>1. Len(job[m].closed.rows) \in Nat
      <4>1. job[m].closed \in ClosedDelta
        BY <2>1 DEF Account, MergedRows, MergeStep, MergerType, Job, MergerLocals,
          ClosedSteps, FreshSteps,
               PublishedSteps
      <4> QED
        BY <4>1, LenProperties DEF ClosedDelta
    <3> QED
      BY <1>1, <2>1, <3>1 DEF Account, MergedRows, columnVars, retireVars, RetireType
  <2>2. CASE ~Account(m)
    BY <1>1, <2>2 DEF MergeTryLock, MergeBegin, EnterBuilding, EnterPublishing,
           EnterRetired, EnterStable, Sample, Advance, columnVars, retireVars, countVars,
           RetireType
  <2> QED
    BY <2>1, <2>2
<1>8. \E from, to : /\ <<from, to>> \in
                         {<<"idle", "entered">>, <<"entered", "handoff">>,
                          <<"handedOff", "build">>, <<"built", "publish">>,
                          <<"published", "retired">>, <<"retired", "account">>,
                          <<"account", "sample">>, <<"sample", "return">>}
                    /\ MergeStep(m, from, to)
  BY DEF MergeTryLock, MergeBegin, EnterBuilding, EnterPublishing, EnterRetired,
         EnterStable, Account, Sample, MergedRows, Advance
<1>9. MergerType' /\ MergerLocals'
  BY <1>1, <1>2, <1>3, <1>8
    DEF MergeStep, MergerType, Job, MergerLocals, InputSteps, ClosedSteps,
     FreshSteps, HandedOff, PublishedSteps, OldSteps
<1> QED
  BY <1>2, <1>3, <1>6, <1>7, <1>9

\* Leaving merge_once.
LEMMA LeaveMergeType ==
  ASSUME TypeInv, NEW m \in Mergers,
         MergeRefused(m) \/ MergeReturn(m) \/ MergeRejected(m) \/ MergeThrows(m)
  PROVE  TypeInv'
<1> USE DEF TypeInv, TypeOK
<1>1. /\ UNCHANGED mergerFrame /\ UNCHANGED columnVars /\ UNCHANGED <<phase, retireVars>>
      /\ UNCHANGED countVars /\ LeaveMerge(m)
  BY DEF MergeRefused, MergeReturn, MergeRejected, MergeThrows
<1>2. HeapType' /\ Len(deltas') = Len(deltas) /\ UNCHANGED states
  BY <1>1 DEF columnVars, HeapType
<1>3. /\ WriterType' /\ WriterLocals' /\ ReaderType' /\ ReaderLocals'
      /\ ObserverType' /\ ObserverLocals' /\ Ref' = Ref
  BY <1>1, <1>2, QuietMergeKeepsType
<1>4. LockType'
  BY <1>1 DEF LeaveMerge, UnwindTelemetry, LockType
<1>5. RetireType'
  BY <1>1, <1>2 DEF retireVars, countVars, RetireType
<1>6. NoJob \in Job
  BY HeapFacts DEF NoJob, Job
<1>7. MergerType' /\ MergerLocals'
  BY <1>1, <1>2, <1>3, <1>6
    DEF LeaveMerge, MergerType, Job, MergerLocals, InputSteps, ClosedSteps,
     FreshSteps, HandedOff, PublishedSteps, OldSteps
<1> QED
  BY <1>2, <1>3, <1>4, <1>5, <1>7

LEMMA HandoffLockType ==
  ASSUME TypeInv, NEW m \in Mergers, HandoffLock(m)
  PROVE  TypeInv'
<1> USE DEF TypeInv, TypeOK, HandoffLock
<1>1. HeapType' /\ Len(deltas') = Len(deltas) /\ UNCHANGED states
  BY DEF columnVars, HeapType
<1>2. /\ WriterType' /\ WriterLocals' /\ ReaderType' /\ ReaderLocals'
      /\ ObserverType' /\ ObserverLocals' /\ Ref' = Ref
  BY <1>1, QuietMergeKeepsType
<1>3. LockType' /\ RetireType'
  BY <1>1 DEF LockType, RetireType, retireVars, countVars
<1>4. current \in Ref /\ current # 0
  BY HeapFacts
<1>5. MergerType' /\ MergerLocals'
  BY <1>1, <1>2, <1>4 DEF MergeStep, MergerType, Job, MergerLocals, InputSteps, ClosedSteps,
     FreshSteps, HandedOff, PublishedSteps, OldSteps
<1> QED
  BY <1>1, <1>2, <1>3, <1>5

\* freeze() closes a delta and keeps its rows.
LEMMA FreezeHeap ==
  ASSUME TypeInv, NEW m \in Mergers, Freeze(m)
  PROVE  LET d == states[job[m].input].active
         IN  /\ d \in 1..Len(deltas)
             /\ HeapType' /\ Len(deltas') = Len(deltas)
             /\ \A e \in 1..Len(deltas) :
                  /\ deltas'[e].rows = deltas[e].rows
                  /\ deltas'[e].closed = IF e = d THEN TRUE ELSE deltas[e].closed
<1> USE DEF TypeInv, TypeOK
<1> DEFINE d == states[job[m].input].active
           D == [rows : Seq(Row), closed : BOOLEAN]
<1>1. job[m].input \in 1..Len(states)
  BY HeapFacts DEF Freeze, MergeStep, MergerType, Job, MergerLocals, InputSteps
<1>2. d \in 1..Len(deltas)
  BY <1>1, HeapFacts
<1>3. deltas' = [deltas EXCEPT ![d] = [@ EXCEPT !.closed = TRUE]]
  BY DEF Freeze
<1>4. \A e \in 1..Len(deltas) : deltas[e] \in D
  BY HeapFacts
<1>5. [deltas[d] EXCEPT !.closed = TRUE] \in D
  BY <1>2, <1>4
<1>6. deltas \in Seq(D)
  BY DEF HeapType
<1> HIDE DEF d, D
<1>7. /\ deltas' \in Seq(D) /\ Len(deltas') = Len(deltas)
      /\ \A e \in 1..Len(deltas) :
           deltas'[e] = IF e = d THEN [deltas[d] EXCEPT !.closed = TRUE] ELSE deltas[e]
  BY <1>2, <1>3, <1>5, <1>6, ExceptSeq
<1>8. \A e \in 1..Len(deltas) :
        /\ deltas'[e].rows = deltas[e].rows
        /\ deltas'[e].closed = IF e = d THEN TRUE ELSE deltas[e].closed
  BY <1>2, <1>4, <1>7 DEF D
<1>9. HeapType'
  BY <1>7 DEF HeapType, Freeze, D
<1> QED
  BY <1>2, <1>7, <1>8, <1>9 DEF d

LEMMA FreezeType ==
  ASSUME TypeInv, NEW m \in Mergers, Freeze(m)
  PROVE  TypeInv'
<1> USE DEF TypeInv, TypeOK
<1>1. HeapType' /\ Len(deltas') = Len(deltas) /\ UNCHANGED states
  BY FreezeHeap DEF Freeze
<1>2. /\ WriterType' /\ WriterLocals' /\ ReaderType' /\ ReaderLocals'
      /\ ObserverType' /\ ObserverLocals' /\ Ref' = Ref
  BY <1>1, QuietMergeKeepsType DEF Freeze
<1>3. LockType' /\ RetireType'
  BY <1>1 DEF Freeze, LockType, lockVars, RetireType, retireVars, countVars
<1>4. MergerType' /\ MergerLocals'
  BY <1>1, <1>2 DEF Freeze, MergeStep, MergerType, Job, MergerLocals, InputSteps, ClosedSteps,
     FreshSteps, HandedOff, PublishedSteps, OldSteps
<1> QED
  BY <1>1, <1>2, <1>3, <1>4

LEMMA FreezeSnapshotType ==
  ASSUME TypeInv, NEW m \in Mergers, FreezeSnapshot(m)
  PROVE  TypeInv'
<1> USE DEF TypeInv, TypeOK
<1> DEFINE s == states[job[m].input]
           rows == deltas[s.active].rows
           c == [base |-> s.base, rows |-> rows]
<1>1. HeapType' /\ Len(deltas') = Len(deltas) /\ UNCHANGED states
  BY DEF FreezeSnapshot, FreshBase, columnVars, HeapType
<1>2. /\ WriterType' /\ WriterLocals' /\ ReaderType' /\ ReaderLocals'
      /\ ObserverType' /\ ObserverLocals' /\ Ref' = Ref
  BY <1>1, QuietMergeKeepsType DEF FreezeSnapshot, FreshBase
<1>3. LockType' /\ RetireType'
  BY <1>1 DEF FreezeSnapshot, FreshBase, LockType, lockVars, RetireType, retireVars, countVars
<1>4. job[m].input \in 1..Len(states)
  BY HeapFacts DEF FreezeSnapshot, FreshBase, MergeStep, MergerType, Job, MergerLocals,
    InputSteps
<1>5. s.base \in Nat /\ rows \in Seq(Row) /\ Len(rows) \in Nat
  BY <1>4, HeapFacts
<1>6. c \in ClosedDelta /\ c # NoDelta
  BY <1>5, NoDeltaAssumption DEF ClosedDelta
<1>7. /\ mpc[m] = "snapshot"
      /\ mpc' = [mpc EXCEPT ![m] = "install"]
      /\ job' = [job EXCEPT ![m] = [@ EXCEPT !.closed = c, !.base = s.base + Len(rows)]]
  BY DEF FreezeSnapshot, FreshBase, MergeStep
<1> HIDE DEF c, rows, s
<1>8. [job[m] EXCEPT !.closed = c, !.base = s.base + Len(rows)] \in Job
  <2>1. job[m] \in Job /\ s.base + Len(rows) \in Nat
    BY <1>5 DEF MergerType
  <2> QED
    BY <1>6, <2>1 DEF Job
<1>9. MergerType'
  BY <1>2, <1>7, <1>8 DEF MergerType, Job
<1>10. MergerLocals'
  BY <1>1, <1>6, <1>7 DEF MergerType, Job, MergerLocals, InputSteps, ClosedSteps,
     FreshSteps, HandedOff, PublishedSteps, OldSteps
<1> QED
  BY <1>1, <1>2, <1>3, <1>9, <1>10

\* build_main gives back as many rows as it is given.
LEMMA RawRowsType ==
  ASSUME TypeInv, NEW m \in Mergers, mpc[m] \in ClosedSteps
  PROVE  /\ RawRows(m) \in Seq(Row)
         /\ job[m].closed \in ClosedDelta /\ Len(job[m].closed.rows) \in Nat
         /\ Len(RawRows(m)) = Len(states[job[m].input].main) + Len(job[m].closed.rows)
<1> USE DEF TypeInv, TypeOK
<1>1. job[m].input \in 1..Len(states)
  BY HeapFacts DEF MergerType, Job, MergerLocals, InputSteps
<1>2. states[job[m].input].main \in Seq(Row)
  BY <1>1, HeapFacts
<1>3. job[m].closed \in ClosedDelta
  BY DEF MergerType, Job, MergerLocals
<1>4. job[m].closed.rows \in Seq(Row)
  BY <1>3 DEF ClosedDelta
<1> QED
  BY <1>2, <1>3, <1>4, ConcatProperties, LenProperties DEF RawRows

LEMMA BuildType ==
  ASSUME TypeInv, NEW m \in Mergers, Build(m)
  PROVE  TypeInv'
<1> USE DEF TypeInv, TypeOK
<1>1. HeapType' /\ Len(deltas') = Len(deltas) /\ UNCHANGED states
  BY DEF Build, columnVars, HeapType
<1>2. /\ WriterType' /\ WriterLocals' /\ ReaderType' /\ ReaderLocals'
      /\ ObserverType' /\ ObserverLocals' /\ Ref' = Ref
  BY <1>1, QuietMergeKeepsType DEF Build
<1>3. LockType' /\ RetireType'
  BY <1>1 DEF Build, LockType, lockVars, RetireType, retireVars, countVars
<1>4. MainColumn(RawRows(m)) \in Seq(Row)
  BY RawRowsType, MainColumnType DEF Build, MergeStep, ClosedSteps, FreshSteps, HandedOff
<1>5. MergerType' /\ MergerLocals'
  BY <1>1, <1>2, <1>4
    DEF Build, MergeStep, MergerType, Job, MergerLocals, InputSteps, ClosedSteps,
     FreshSteps, HandedOff, PublishedSteps, OldSteps
<1> QED
  BY <1>1, <1>2, <1>3, <1>5

\* The steps in which merge_once has the state it replaced put on record.
RetireStep(m) ==
  \/ RetireInput(m) \/ RecordInput(m) \/ ReleaseInput(m)
  \/ RetireHandoff(m) \/ RecordHandoff(m) \/ ReleaseHandoff(m)

LEMMA RetireStepFacts ==
  ASSUME NEW m \in Mergers, RetireStep(m)
  PROVE  /\ UNCHANGED <<mergerFrame, columnVars, phase, mergeLock, countVars>>
         /\ \E from, to :
              /\ <<from, to>> \in
                   {<<"retireInput", "recordInput">>, <<"recordInput", "releaseInput">>,
                    <<"releaseInput", "handedOff">>, <<"retireHandoff", "recordHandoff">>,
                    <<"recordHandoff", "releaseHandoff">>,
                    <<"releaseHandoff", "published">>}
              /\ MergeStep(m, from, to)
              /\ job' = IF from \in {"releaseInput", "releaseHandoff"}
                        THEN [job EXCEPT ![m].old = 0] ELSE job
              /\ handoffLock' = IF from = "releaseInput" THEN NoThread ELSE handoffLock
              /\ \/ /\ from \in {"retireInput", "retireHandoff"}
                    /\ telemetryLock = NoThread /\ telemetryLock' = m
                 \/ /\ from \in {"recordInput", "recordHandoff"}
                    /\ telemetryLock' = NoThread
                 \/ /\ from \in {"releaseInput", "releaseHandoff"}
                    /\ UNCHANGED telemetryLock
<1> USE DEF RetireStep, RetireInput, RecordInput, ReleaseInput, RetireHandoff, RecordHandoff,
            ReleaseHandoff
<1>1. CASE RetireInput(m) \/ RetireHandoff(m)
  BY <1>1 DEF LockRetired
<1>2. CASE RecordInput(m) \/ RecordHandoff(m)
  BY <1>2 DEF RecordRetired, UnlockTelemetry
<1>3. CASE ReleaseInput(m) \/ ReleaseHandoff(m)
  BY <1>3 DEF ReleaseOld, UnlockHandoff
<1> QED
  BY <1>1, <1>2, <1>3

LEMMA RetireStepType ==
  ASSUME TypeInv, NEW m \in Mergers, RetireStep(m)
  PROVE  TypeInv'
<1> USE DEF TypeInv, TypeOK
<1>1. UNCHANGED mergerFrame /\ UNCHANGED columnVars /\ UNCHANGED <<phase, mergeLock, countVars>>
  BY RetireStepFacts
<1>2. PICK from, to :
        /\ <<from, to>> \in
             {<<"retireInput", "recordInput">>, <<"recordInput", "releaseInput">>,
              <<"releaseInput", "handedOff">>, <<"retireHandoff", "recordHandoff">>,
              <<"recordHandoff", "releaseHandoff">>, <<"releaseHandoff", "published">>}
        /\ MergeStep(m, from, to)
        /\ job' = IF from \in {"releaseInput", "releaseHandoff"}
                  THEN [job EXCEPT ![m].old = 0] ELSE job
        /\ handoffLock' \in {NoThread, handoffLock}
        /\ telemetryLock' \in {m, NoThread, telemetryLock}
  BY RetireStepFacts
<1>3. HeapType' /\ Len(deltas') = Len(deltas) /\ UNCHANGED states
  BY <1>1 DEF columnVars, HeapType
<1>4. /\ WriterType' /\ WriterLocals' /\ ReaderType' /\ ReaderLocals'
      /\ ObserverType' /\ ObserverLocals' /\ Ref' = Ref
  BY <1>1, <1>3, QuietMergeKeepsType
<1>5. job[m].old \in 1..Len(states)
  <2>1. mpc[m] \in OldSteps
    BY <1>2 DEF MergeStep, OldSteps
  <2> QED
    BY <2>1, HeapFacts DEF MergerType, Job, MergerLocals
<1>6. RetireType'
  <2>1. \/ CleanupRetired /\ UNCHANGED peakRetired
        \/ /\ retired' = retired \cup {job[m].old} /\ UNCHANGED reclaimed
           /\ peakRetired' = IF Cardinality(retired \cup {job[m].old}) > peakRetired
                             THEN Cardinality(retired \cup {job[m].old}) ELSE peakRetired
        \/ UNCHANGED retireVars
    BY DEF RetireStep, RetireInput, RecordInput, ReleaseInput, RetireHandoff, RecordHandoff,
           ReleaseHandoff, LockRetired, RecordRetired, ReleaseOld
  <2> QED
    BY <1>1, <1>3, <1>5, <2>1, RecordsType
<1>7. LockType'
  BY <1>1, <1>2 DEF LockType
<1>8. 0 \in Ref
  BY HeapFacts
<1>9. MergerType'
  BY <1>2, <1>4, <1>8 DEF MergeStep, MergerType, Job
<1>10. MergerLocals'
  BY <1>2, <1>3 DEF MergeStep, MergerType, Job, MergerLocals, InputSteps, ClosedSteps,
     FreshSteps, HandedOff, PublishedSteps, OldSteps
<1> QED
  BY <1>3, <1>4, <1>6, <1>7, <1>9, <1>10

\* The state a handoff installs, with delta d active.
LEMMA HandoffStateType ==
  ASSUME TypeInv, NEW m \in Mergers, mpc[m] \in ClosedSteps, NEW d \in Nat
  PROVE  HandoffState(m, d) \in GenerationState
<1> USE DEF TypeInv, TypeOK
<1>1. job[m].input \in 1..Len(states)
  BY HeapFacts DEF MergerType, Job, MergerLocals, InputSteps
<1>2. job[m].closed \in ClosedDelta \cup {NoDelta} /\ job[m].base \in Nat
  BY DEF MergerType, Job
<1> QED
  BY <1>1, <1>2, HeapFacts DEF HandoffState, GenerationState

LEMMA InstallHandoffHeap ==
  ASSUME TypeInv, NEW m \in Mergers, InstallHandoff(m)
  PROVE  LET d == Len(deltas) + 1
             s == HandoffState(m, d)
         IN  /\ s \in GenerationState
             /\ states' = Append(states, s) /\ current' = Len(states) + 1
             /\ Len(states') = Len(states) + 1
             /\ states'[Len(states) + 1] = s
             /\ \A i \in 1..Len(states) : states'[i] = states[i]
             /\ Len(deltas') = d
             /\ deltas'[d] = [rows |-> << >>, closed |-> FALSE]
             /\ \A e \in 1..Len(deltas) : deltas'[e] = deltas[e]
             /\ HeapType'
<1> USE DEF TypeInv, TypeOK
<1> DEFINE d == Len(deltas) + 1
           s == HandoffState(m, d)
           fresh == [rows |-> << >>, closed |-> FALSE]
<1>1. Len(states) \in Nat /\ Len(deltas) \in Nat
  BY HeapFacts
<1>2. s \in GenerationState
  BY <1>1, HandoffStateType DEF InstallHandoff, NextActive, MergeStep, ClosedSteps
<1>3. /\ states' = Append(states, s) /\ current' = Len(states) + 1
      /\ deltas' = Append(deltas, fresh)
  BY DEF InstallHandoff, NextActive, Exchange
<1>4. s.active = d
  BY DEF HandoffState
<1> HIDE DEF s
<1>5. /\ states' \in Seq(GenerationState)
      /\ Len(states') = Len(states) + 1
      /\ states'[Len(states) + 1] = s
      /\ \A i \in 1..Len(states) : states'[i] = states[i]
  BY <1>1, <1>2, <1>3 DEF HeapType
<1>6. fresh \in [rows : Seq(Row), closed : BOOLEAN]
  OBVIOUS
<1> HIDE DEF fresh
<1>7. /\ deltas' \in Seq([rows : Seq(Row), closed : BOOLEAN])
      /\ Len(deltas') = Len(deltas) + 1
      /\ deltas'[Len(deltas) + 1] = fresh
      /\ \A e \in 1..Len(deltas) : deltas'[e] = deltas[e]
  BY <1>1, <1>3, <1>6 DEF HeapType
<1>8. HeapType'
  BY <1>1, <1>3, <1>4, <1>5, <1>7, HeapFacts DEF HeapType
<1> QED
  BY <1>2, <1>3, <1>5, <1>7, <1>8 DEF s, fresh

LEMMA InstallHandoffType ==
  ASSUME TypeInv, NEW m \in Mergers, InstallHandoff(m)
  PROVE  TypeInv'
<1> USE DEF TypeInv, TypeOK
<1> DEFINE d == Len(deltas) + 1
           s == HandoffState(m, d)
<1>1. /\ s \in GenerationState /\ states' = Append(states, s)
      /\ Len(deltas') = Len(deltas) + 1 /\ HeapType'
  BY InstallHandoffHeap
<1> HIDE DEF s
<1>2. /\ WriterType' /\ WriterLocals' /\ ReaderType' /\ ReaderLocals'
      /\ ObserverType' /\ ObserverLocals' /\ Ref \subseteq Ref'
      /\ Len(states') = Len(states) + 1
  BY <1>1, ExchangeKeepsType DEF InstallHandoff, NextActive
<1>3. LockType'
  BY DEF InstallHandoff, NextActive, LockType, lockVars
<1>4. Len(states) \in Nat /\ Len(deltas) \in Nat /\ current \in Ref /\ current # 0
  BY HeapFacts
<1>5. RetireType'
  BY <1>2, <1>4 DEF InstallHandoff, NextActive, RetireType, retireVars, countVars
<1>6. /\ mpc[m] = "install" /\ mpc' = [mpc EXCEPT ![m] = "retireInput"]
      /\ job' = [job EXCEPT ![m] = [@ EXCEPT !.fresh = d, !.old = current]]
  BY DEF InstallHandoff, NextActive, MergeStep
<1>7. [job[m] EXCEPT !.fresh = d, !.old = current] \in Job
  <2>1. job[m] \in Job /\ d \in Nat
    BY <1>4 DEF MergerType
  <2> QED
    BY <1>4, <2>1 DEF Job
<1>8. Job \subseteq Job'
  BY <1>2 DEF Job
<1>9. MergerType'
  BY <1>6, <1>7, <1>8 DEF MergerType
<1>10. MergerLocals'
  BY <1>1, <1>4, <1>6 DEF MergerType, Job, MergerLocals, InputSteps, ClosedSteps,
     FreshSteps, HandedOff, PublishedSteps, OldSteps
<1> QED
  BY <1>1, <1>2, <1>3, <1>5, <1>9, <1>10

LEMMA PublishHeap ==
  ASSUME TypeInv, NEW m \in Mergers, Publish(m)
  PROVE  LET s == PublishedState(m)
         IN  /\ s \in GenerationState
             /\ states' = Append(states, s) /\ current' = Len(states) + 1
             /\ Len(states') = Len(states) + 1
             /\ states'[Len(states) + 1] = s
             /\ \A i \in 1..Len(states) : states'[i] = states[i]
             /\ HeapType'
<1> USE DEF TypeInv, TypeOK
<1> DEFINE s == PublishedState(m)
<1>1. Len(states) \in Nat
  BY HeapFacts
<1>2. job[m].input \in 1..Len(states)
  BY HeapFacts DEF Publish, MergeStep, MergerType, Job, MergerLocals, InputSteps,
     ClosedSteps, FreshSteps, HandedOff
<1>3. job[m].fresh \in 1..Len(deltas)
  BY DEF Publish, MergeStep, MergerLocals, FreshSteps, HandedOff
<1>4. /\ job[m].built \in Seq(Row) /\ job[m].base \in Nat /\ job[m].fresh \in Nat
      /\ states[job[m].input].generation + 1 \in Nat
  BY <1>2, HeapFacts DEF MergerType, Job
<1>5. s \in GenerationState /\ s.active \in 1..Len(deltas)
  BY <1>3, <1>4 DEF PublishedState, GenerationState
<1>6. states' = Append(states, s) /\ current' = Len(states) + 1 /\ deltas' = deltas
  BY DEF Publish, Exchange
<1> HIDE DEF s
<1>7. /\ states' \in Seq(GenerationState)
      /\ Len(states') = Len(states) + 1
      /\ states'[Len(states) + 1] = s
      /\ \A i \in 1..Len(states) : states'[i] = states[i]
  BY <1>1, <1>5, <1>6 DEF HeapType
<1>8. HeapType'
  BY <1>1, <1>5, <1>6, <1>7 DEF HeapType
<1> QED
  BY <1>5, <1>6, <1>7, <1>8 DEF s

LEMMA PublishType ==
  ASSUME TypeInv, NEW m \in Mergers, Publish(m)
  PROVE  TypeInv'
<1> USE DEF TypeInv, TypeOK
<1> DEFINE s == PublishedState(m)
<1>1. s \in GenerationState /\ states' = Append(states, s) /\ HeapType' /\ deltas' = deltas
  BY PublishHeap DEF Publish
<1> HIDE DEF s
<1>2. /\ WriterType' /\ WriterLocals' /\ ReaderType' /\ ReaderLocals'
      /\ ObserverType' /\ ObserverLocals' /\ Ref \subseteq Ref'
      /\ Len(states') = Len(states) + 1
  BY <1>1, ExchangeKeepsType DEF Publish
<1>3. LockType'
  BY DEF Publish, LockType, lockVars
<1>4. Len(states) \in Nat /\ current \in Ref /\ current # 0
  BY HeapFacts
<1>5. RetireType'
  BY <1>2, <1>4 DEF Publish, RetireType, retireVars, countVars
<1>6. /\ mpc[m] = "publish" /\ mpc' = [mpc EXCEPT ![m] = "retireHandoff"]
      /\ job' = [job EXCEPT ![m] = [@ EXCEPT !.old = current]]
  BY DEF Publish, MergeStep
<1>7. [job[m] EXCEPT !.old = current] \in Job
  BY <1>4 DEF MergerType, Job
<1>8. Job \subseteq Job'
  BY <1>2 DEF Job
<1>9. MergerType'
  BY <1>6, <1>7, <1>8 DEF MergerType
<1>10. MergerLocals'
  BY <1>1, <1>4, <1>6 DEF MergerType, Job, MergerLocals, InputSteps, ClosedSteps,
     FreshSteps, HandedOff, PublishedSteps, OldSteps
<1> QED
  BY <1>1, <1>2, <1>3, <1>5, <1>9, <1>10

LEMMA NextKeepsType == TypeInv /\ [Next]_vars => TypeInv'
<1> SUFFICES ASSUME TypeInv, [Next]_vars PROVE TypeInv'
  OBVIOUS
<1>1. ASSUME NEW w \in Writers, WriterNext(w) PROVE TypeInv'
  BY <1>1, WriterKeepsType
<1>2. ASSUME NEW r \in Readers, ReaderNext(r) PROVE TypeInv'
  BY <1>2, ReaderKeepsType
<1>3. ASSUME NEW m \in Mergers, MergerNext(m) PROVE TypeInv'
  BY <1>3, AdvanceType, LeaveMergeType, HandoffLockType, FreezeType, FreezeSnapshotType,
     InstallHandoffType, RetireStepType, BuildType, PublishType
     DEF MergerNext, HandoffStep, RebuildStep, RetireStep
<1>4. ASSUME NEW o \in Observers, ObserverNext(o) PROVE TypeInv'
  BY <1>4, ObserverKeepsType
<1>5. CASE UNCHANGED vars
  BY <1>5 DEF vars, columnVars, lockVars, writerVars, readerVars, mergerVars, retireVars,
     countVars, observerVars, TypeInv, TypeOK, HeapType, LockType, WriterType, ReaderType,
     MergerType, RetireType, ObserverType, MergerLocals, WriterLocals, ReaderLocals,
     ObserverLocals, Ref, Job
<1> QED
  BY <1>1, <1>2, <1>3, <1>4, <1>5 DEF Next

\* Whatever the threads do, every variable keeps its type and every reference
\* that a step follows is to an allocated state or delta.
THEOREM TypeCorrect == Spec => []TypeOK
<1>1. Spec => []TypeInv
  BY InitType, NextKeepsType, PTL DEF Spec
<1>2. TypeInv => TypeOK
  BY DEF TypeInv
<1> QED
  BY <1>1, <1>2, PTL

-----------------------------------------------------------------------------
(* Which variables the steps of the threads may change *)

LEMMA ReaderFrame ==
  ASSUME NEW r \in Readers, ReaderNext(r)
  PROVE  UNCHANGED readerFrame
BY DEF ReaderNext, ReadCall, ReadLoad, ReadPrefix, ReadReturn, ReadThrows, DropView,
       ReadStep

LEMMA ObserverFrame ==
  ASSUME NEW o \in Observers, ObserverNext(o)
  PROVE  UNCHANGED observerFrame
BY DEF ObserverNext, ObserveLoad, ObserveCleanup, ObserveRead, ObserveReturn,
       ObserveThrows, ObserveRelease, LeaveObserve, ObserveStep

LEMMA WriterFrame ==
  ASSUME NEW w \in Writers, WriterNext(w)
  PROVE  UNCHANGED writerFrame /\ (UNCHANGED deltas \/ AppendPublish(w))
BY DEF WriterNext, AppendStep, AppendCall, AppendLock, AppendLoad, AppendCheck,
       AppendThrows, AppendPublish, RowIdOf, AppendReturn, LeaveAppend, UnlockHandoff

LEMMA MergerFrame ==
  ASSUME NEW m \in Mergers, MergerNext(m)
  PROVE  UNCHANGED mergerFrame
BY DEF MergerNext, HandoffStep, RebuildStep, MergeTryLock, MergeBegin, MergeRefused,
       HandoffLock, Freeze, FreezeSnapshot, FreshBase, InstallHandoff, NextActive,
       RetireInput, RecordInput, ReleaseInput, RetireHandoff, RecordHandoff, ReleaseHandoff,
       LockRetired, RecordRetired, ReleaseOld, EnterBuilding, Build, EnterPublishing,
       Publish, EnterRetired, EnterStable, Advance, Account, Sample, MergeReturn,
       MergeRejected, MergeThrows

-----------------------------------------------------------------------------
(* Mutual exclusion *)

LEMMA WriterKeepsLocks ==
  ASSUME TypeInv, LockInv, NEW w \in Writers, WriterNext(w)
  PROVE  LockInv'
<1>1. UNCHANGED writerFrame
  BY WriterFrame
<1>2. UNCHANGED <<mpc, opc, mergeLock, telemetryLock>>
  BY <1>1 DEF writerFrame, mergerVars, observerVars
<1>3. w \notin Mergers /\ NoThread \notin Writers \cup Mergers
  BY ThreadsAssumption
<1>4. wpc \in [Writers -> {"idle", "calling", "locked", "loaded", "open", "published"}]
  BY DEF TypeInv, TypeOK, WriterType
<1>5. \/ /\ handoffLock = NoThread /\ handoffLock' = w /\ wpc' = [wpc EXCEPT ![w] = "locked"]
      \/ /\ wpc[w] \in LockSteps /\ handoffLock' = NoThread /\ wpc' = [wpc EXCEPT ![w] = "idle"]
      \/ /\ handoffLock' = handoffLock
         /\ \E pc \in {"calling", "loaded", "open", "published"} :
              wpc' = [wpc EXCEPT ![w] = pc] /\ (pc \in LockSteps <=> wpc[w] \in LockSteps)
  <2> USE DEF LockSteps, StateSteps
  <2>1. CASE AppendLock(w)
    BY <2>1 DEF AppendLock
  <2>2. CASE AppendThrows(w) \/ AppendReturn(w)
    BY <2>2 DEF AppendThrows, AppendReturn, LeaveAppend, UnlockHandoff
  <2>3. ASSUME NEW row, AppendCall(w, row)
        PROVE  /\ handoffLock' = handoffLock
               /\ wpc' = [wpc EXCEPT ![w] = "calling"]
               /\ "calling" \notin LockSteps /\ wpc[w] \notin LockSteps
    BY <2>3 DEF AppendCall
  <2>4. CASE AppendLoad(w) \/ AppendCheck(w) \/ AppendPublish(w)
    BY <2>4 DEF AppendLoad, AppendCheck, AppendPublish, RowIdOf
  <2> QED
    BY <2>1, <2>2, <2>3, <2>4 DEF WriterNext, AppendStep
<1>6. \A x \in Writers : (wpc[x] \in LockSteps <=> handoffLock = x)'
  BY <1>3, <1>4, <1>5 DEF LockInv, LockSteps, StateSteps
<1>7. \A m \in Mergers : (mpc[m] \in InHandoff <=> handoffLock = m)'
  BY <1>2, <1>3, <1>5 DEF LockInv
<1> QED
  BY <1>2, <1>6, <1>7 DEF LockInv

LEMMA MergerKeepsLocks ==
  ASSUME TypeInv, LockInv, NEW m \in Mergers, MergerNext(m)
  PROVE  LockInv'
<1> DEFINE Pcs == {"idle", "entered", "handoff", "freeze", "snapshot", "install",
                   "retireInput", "recordInput", "releaseInput", "handedOff", "build",
                   "built", "publish", "retireHandoff", "recordHandoff",
                   "releaseHandoff", "published", "retired", "account", "sample", "return"}
<1>1. UNCHANGED <<wpc, opc>>
  BY MergerFrame DEF mergerFrame, writerVars, observerVars
<1>2. m \notin Writers \cup Observers /\ NoThread \notin Writers \cup Mergers \cup Observers
  BY ThreadsAssumption
<1>3. DOMAIN mpc = Mergers /\ mpc = [n \in Mergers |-> mpc[n]]
  BY DEF TypeInv, TypeOK, MergerType
<1>4. \E to \in Pcs :
              /\ mpc' = [mpc EXCEPT ![m] = to]
              /\ \/ mpc[m] # "idle" /\ to # "idle" /\ mergeLock' = mergeLock
                 \/ mpc[m] = "idle" /\ to # "idle" /\ mergeLock = NoThread /\ mergeLock' = m
                 \/ mpc[m] # "idle" /\ to = "idle" /\ mergeLock' = NoThread
              /\ \/ /\ mpc[m] \in InHandoff <=> to \in InHandoff
                    /\ handoffLock' = handoffLock
                 \/ /\ mpc[m] \notin InHandoff /\ to \in InHandoff
                    /\ handoffLock = NoThread /\ handoffLock' = m
                 \/ /\ mpc[m] \in InHandoff /\ to \notin InHandoff /\ handoffLock' = NoThread
                 \/ /\ to \notin InHandoff
                    /\ handoffLock' = IF handoffLock = m THEN NoThread ELSE handoffLock
              /\ \/ /\ mpc[m] \in InTelemetry <=> to \in InTelemetry
                    /\ telemetryLock' = telemetryLock
                 \/ /\ mpc[m] \notin InTelemetry /\ to \in InTelemetry
                    /\ telemetryLock = NoThread /\ telemetryLock' = m
                 \/ /\ mpc[m] \in InTelemetry /\ to \notin InTelemetry
                    /\ telemetryLock' = NoThread
                 \/ /\ to \notin InTelemetry
                    /\ telemetryLock' = IF telemetryLock = m THEN NoThread ELSE telemetryLock
  <2> USE DEF MergeStep, lockVars, InHandoff, InTelemetry
  <2>1. CASE MergeTryLock(m)
    BY <2>1 DEF MergeTryLock
  <2>2. CASE MergeBegin(m)
    BY <2>2 DEF MergeBegin
  <2>3. CASE MergeRefused(m) \/ MergeReturn(m) \/ MergeRejected(m) \/ MergeThrows(m)
    BY <2>3 DEF MergeRefused, MergeReturn, MergeRejected, MergeThrows, LeaveMerge,
      UnwindTelemetry
  <2>4. CASE HandoffLock(m)
    BY <2>4 DEF HandoffLock
  <2>5. CASE Freeze(m) \/ FreezeSnapshot(m) \/ InstallHandoff(m)
    BY <2>5 DEF Freeze, FreezeSnapshot, InstallHandoff
  <2>6. CASE EnterBuilding(m) \/ EnterPublishing(m) \/ EnterRetired(m) \/ EnterStable(m)
    BY <2>6 DEF EnterBuilding, EnterPublishing, EnterRetired, EnterStable, Advance
  <2>7. CASE Build(m) \/ Publish(m) \/ Account(m) \/ Sample(m)
    BY <2>7 DEF Build, Publish, Account, Sample, UnlockTelemetry
  <2>8. CASE RetireStep(m)
    BY <2>8, RetireStepFacts
  <2> QED
    BY <2>1, <2>2, <2>3, <2>4, <2>5, <2>6, <2>7, <2>8
       DEF MergerNext, HandoffStep, RebuildStep, RetireStep
<1> HIDE DEF InHandoff, InTelemetry
<1>5. \A n \in Mergers : (mpc[n] # "idle" <=> mergeLock = n)'
  BY <1>2, <1>3, <1>4 DEF LockInv
<1>6. \A n \in Mergers : (mpc[n] \in InHandoff <=> handoffLock = n)'
  BY <1>2, <1>3, <1>4 DEF LockInv
<1>7. \A w \in Writers : (wpc[w] \in LockSteps <=> handoffLock = w)'
  BY <1>1, <1>2, <1>4 DEF LockInv
<1>8. \A n \in Mergers : (mpc[n] \in InTelemetry <=> telemetryLock = n)'
  BY <1>2, <1>3, <1>4 DEF LockInv
<1>9. \A o \in Observers : (opc[o] \in {"cleaned", "read"} <=> telemetryLock = o)'
  BY <1>1, <1>2, <1>4 DEF LockInv
<1> QED
  BY <1>5, <1>6, <1>7, <1>8, <1>9 DEF LockInv

LEMMA ObserverKeepsLocks ==
  ASSUME TypeInv, LockInv, NEW o \in Observers, ObserverNext(o)
  PROVE  LockInv'
<1>1. UNCHANGED <<wpc, mpc, handoffLock, mergeLock>>
  BY ObserverFrame DEF observerFrame, writerVars, mergerVars
<1>2. o \notin Mergers /\ NoThread \notin Mergers \cup Observers
  BY ThreadsAssumption
<1>3. DOMAIN opc = Observers
  BY DEF TypeInv, TypeOK, ObserverType
<1>4. \E to \in {"idle", "loaded", "cleaned", "read", "unlocked"} :
        /\ opc' = [opc EXCEPT ![o] = to]
        /\ \/ /\ opc[o] \in {"cleaned", "read"} <=> to \in {"cleaned", "read"}
              /\ telemetryLock' = telemetryLock
           \/ /\ opc[o] \notin {"cleaned", "read"} /\ to \in {"cleaned", "read"}
              /\ telemetryLock = NoThread /\ telemetryLock' = o
           \/ /\ opc[o] \in {"cleaned", "read"} /\ to \notin {"cleaned", "read"}
              /\ telemetryLock' = NoThread
  BY DEF ObserverNext, ObserveLoad, ObserveCleanup, ObserveRead, ObserveReturn,
         ObserveThrows, ObserveRelease, LeaveObserve, UnlockTelemetry, ObserveStep
<1>5. \A x \in Observers : (opc[x] \in {"cleaned", "read"} <=> telemetryLock = x)'
  BY <1>2, <1>3, <1>4 DEF LockInv
<1>6. \A m \in Mergers : (mpc[m] \in InTelemetry <=> telemetryLock = m)'
  BY <1>1, <1>2, <1>4 DEF LockInv
<1> QED
  BY <1>1, <1>5, <1>6 DEF LockInv

LEMMA NextKeepsLocks ==
  ASSUME TypeInv, LockInv, [Next]_vars
  PROVE  LockInv'
<1>1. CASE UNCHANGED <<wpc, mpc, opc, lockVars>>
  BY <1>1 DEF LockInv, lockVars
<1>2. ASSUME NEW r \in Readers, ReaderNext(r)
      PROVE  UNCHANGED <<wpc, mpc, opc, lockVars>>
  BY <1>2, ReaderFrame DEF readerFrame, writerVars, mergerVars, observerVars
<1>3. UNCHANGED vars => UNCHANGED <<wpc, mpc, opc, lockVars>>
  BY DEF vars, writerVars, mergerVars, observerVars
<1> QED
  BY <1>1, <1>2, <1>3, WriterKeepsLocks, MergerKeepsLocks, ObserverKeepsLocks DEF Next

\* The merge mutex lets one merger at a time past the try_lock, and the handoff
\* mutex a merger in the handoff section or a writer, never both.
LEMMA Exclusion ==
  ASSUME LockInv, NEW m \in Mergers, mpc[m] # "idle"
  PROVE  /\ \A n \in Mergers \ {m} : mpc[n] = "idle"
         /\ mpc[m] \in InHandoff => \A w \in Writers : wpc[w] \notin LockSteps
BY ThreadsAssumption DEF LockInv

\* While a merger takes a step every other merger is idle.
LEMMA SoleMerger ==
  ASSUME TypeInv, LockInv, NEW m \in Mergers, MergerNext(m)
  PROVE  \A n \in Mergers \ {m} : mpc[n] = "idle" /\ mpc'[n] = "idle"
<1>1. mpc[m] # "idle" \/ mergeLock = NoThread
  BY DEF MergerNext, HandoffStep, RebuildStep, MergeTryLock, MergeBegin, MergeRefused,
     HandoffLock, Freeze, FreezeSnapshot, InstallHandoff, RetireInput, RecordInput,
     ReleaseInput, RetireHandoff, RecordHandoff, ReleaseHandoff, LockRetired, RecordRetired,
     ReleaseOld, EnterBuilding, Build, EnterPublishing, Publish, EnterRetired, EnterStable,
     Advance, Account, Sample, MergeReturn, MergeRejected, MergeThrows, MergeStep
<1>2. \A n \in Mergers \ {m} : mpc[n] = "idle"
  BY <1>1, Exclusion, ThreadsAssumption DEF LockInv
<1>3. \A n \in Mergers \ {m} : mpc'[n] = mpc[n]
  BY DEF MergerNext, HandoffStep, RebuildStep, MergeTryLock, MergeBegin, MergeRefused,
     HandoffLock, Freeze, FreezeSnapshot, InstallHandoff, RetireInput, RecordInput,
     ReleaseInput, RetireHandoff, RecordHandoff, ReleaseHandoff, LockRetired, RecordRetired,
     ReleaseOld, EnterBuilding, Build, EnterPublishing, Publish, EnterRetired, EnterStable,
     Advance, Account, Sample, MergeReturn, MergeRejected, MergeThrows, MergeStep,
     LeaveMerge, TypeInv,
     TypeOK, MergerType
<1> QED
  BY <1>2, <1>3

-----------------------------------------------------------------------------
(* What merge_once knows: steps that leave the heap alone *)

CoreInv == HeapInv /\ RestInv /\ OpenInv /\ MergeInv /\ WriterInv

LEMMA ColumnUnchanged ==
  ASSUME CoreInv, UNCHANGED <<states, deltas, current, phase, mpc, job>>
  PROVE  HeapInv' /\ RestInv' /\ OpenInv' /\ MergeInv'
<1> USE DEF CoreInv
<1>1. HeapInv'
  BY DEF HeapInv
<1>2. RestInv' /\ OpenInv'
  BY DEF RestInv, Resting, OpenInv
<1>3. MergeInv'
  BY DEF MergeInv, PhaseFits, MergeKnows, InputCovered, HandoffState, RawRows, ActiveRows
<1> QED
  BY <1>1, <1>2, <1>3

\* It is enough to look at the merger that takes the step.
LEMMA MergerStepInv ==
  ASSUME TypeInv, LockInv, NEW m \in Mergers, MergerNext(m),
         PhaseFits(m)', MergeKnows(m)', HeapInv', WriterInv',
         phase' = "Stable" \/ mpc'[m] \in {"handoff", "freeze", "snapshot", "install"}
                                            \cup PublishedSteps
           => (states[current].closed = NoDelta)',
         ~MayThrow /\ (deltas[states[current].active].closed)'
           => mpc'[m] \in {"snapshot", "install"}
  PROVE  CoreInv'
<1>1. \A n \in Mergers \ {m} : mpc'[n] = "idle"
  BY SoleMerger
<1>2. MergeInv'
  BY <1>1 DEF MergeInv, PhaseFits, MergeKnows, ClosedSteps, FreshSteps, HandedOff,
     PublishedSteps, BuiltSteps
<1>3. RestInv'
  BY <1>1 DEF RestInv, Resting, PublishedSteps
<1>4. OpenInv'
  BY DEF OpenInv
<1> QED
  BY <1>2, <1>3, <1>4 DEF CoreInv

\* A closed current delta tells where the running merge is.
LEMMA ClosedWhere ==
  ASSUME LockInv, OpenInv, ~MayThrow, deltas[states[current].active].closed,
         NEW m \in Mergers, mpc[m] # "idle"
  PROVE  mpc[m] \in {"snapshot", "install"}
BY Exclusion DEF OpenInv

LEMMA QuietMergeInv ==
  ASSUME CoreInv, UNCHANGED mergerFrame, UNCHANGED columnVars
  PROVE  HeapInv' /\ WriterInv'
BY DEF CoreInv, mergerFrame, columnVars, writerVars, HeapInv, WriterInv

LEMMA AdvanceInv ==
  ASSUME TypeInv, LockInv, CoreInv, NEW m \in Mergers,
         \/ MergeTryLock(m) \/ MergeBegin(m) \/ EnterBuilding(m) \/ EnterPublishing(m)
         \/ EnterRetired(m) \/ EnterStable(m) \/ Account(m) \/ Sample(m)
  PROVE  CoreInv'
<1>1. MergerNext(m)
  BY DEF MergerNext, RebuildStep
<1>2. /\ UNCHANGED mergerFrame /\ UNCHANGED columnVars /\ UNCHANGED job
  BY DEF MergeTryLock, MergeBegin, EnterBuilding, EnterPublishing, EnterRetired,
         EnterStable, Account, Sample, Advance, lockVars
<1>3. HeapInv' /\ WriterInv'
  BY <1>2, QuietMergeInv
<1>4. PhaseFits(m) /\ MergeKnows(m)
  BY DEF CoreInv, MergeInv
<1>5. \E from, to :
        /\ <<from, to>> \in
             {<<"idle", "entered">>, <<"entered", "handoff">>, <<"handedOff", "build">>,
              <<"built", "publish">>, <<"published", "retired">>, <<"retired", "account">>,
              <<"account", "sample">>, <<"sample", "return">>}
        /\ mpc[m] = from /\ mpc'[m] = to
        /\ phase' = IF to \in {"entered", "sample", "return"} THEN phase ELSE PhaseOf(to)
        /\ to = "handoff" => phase = "Stable"
  <2> USE DEF MergeStep, TypeInv, TypeOK, MergerType, PhaseOf, InHandoff,
              Lifecycle!Transition, Lifecycle!Succeeds, Lifecycle!ValidMergeTransition
  <2>1. CASE MergeTryLock(m)
    BY <2>1 DEF MergeTryLock
  <2>2. CASE MergeBegin(m)
    BY <2>2 DEF MergeBegin
  <2>3. CASE EnterBuilding(m) \/ EnterPublishing(m)
    BY <2>3, <1>4 DEF EnterBuilding, EnterPublishing, Advance, PhaseFits
  <2>4. CASE EnterRetired(m) \/ EnterStable(m)
    BY <2>4, <1>4 DEF EnterRetired, EnterStable, Advance, PhaseFits
  <2>5. CASE Account(m) \/ Sample(m)
    BY <2>5 DEF Account, Sample
  <2> QED
    BY <2>1, <2>2, <2>3, <2>4, <2>5
<1>6. PhaseFits(m)'
  BY <1>4, <1>5 DEF PhaseFits, PhaseOf, InHandoff
<1>7. MergeKnows(m)'
  BY <1>2, <1>4, <1>5 DEF columnVars, MergeKnows, InputCovered, HandoffState, RawRows,
     ActiveRows, ClosedSteps, FreshSteps, HandedOff, PublishedSteps, BuiltSteps
<1>8. phase' = "Stable" \/ mpc'[m] \in {"handoff", "freeze", "snapshot", "install"}
                                            \cup PublishedSteps
        => Resting
  BY <1>5 DEF Resting, PublishedSteps, PhaseOf, InHandoff
<1>9. ~MayThrow => ~deltas[states[current].active].closed
  <2>1. CASE mpc[m] # "idle"
    BY <2>1, <1>5, ClosedWhere DEF CoreInv
  <2>2. CASE mpc[m] = "idle"
    BY <2>2, <1>1, SoleMerger DEF CoreInv, OpenInv
  <2> QED
    BY <2>1, <2>2
<1> QED
  BY <1>1, <1>2, <1>3, <1>6, <1>7, <1>8, <1>9, MergerStepInv DEF CoreInv, RestInv, columnVars

LEMMA LeaveMergeInv ==
  ASSUME TypeInv, LockInv, CoreInv, NEW m \in Mergers,
         MergeRefused(m) \/ MergeReturn(m) \/ MergeRejected(m) \/ MergeThrows(m)
  PROVE  CoreInv'
<1>1. MergerNext(m)
  BY DEF MergerNext, RebuildStep
<1>2. /\ UNCHANGED mergerFrame /\ UNCHANGED columnVars /\ UNCHANGED phase
      /\ mpc'[m] = "idle" /\ mpc[m] # "idle"
      /\ mpc[m] \in {"snapshot", "install"} => MayThrow
  BY DEF MergeRefused, MergeReturn, MergeRejected, MergeThrows, LeaveMerge, TypeInv, TypeOK,
     MergerType
<1>3. HeapInv' /\ WriterInv'
  BY <1>2, QuietMergeInv
<1>4. PhaseFits(m)' /\ MergeKnows(m)'
  BY <1>2 DEF PhaseFits, MergeKnows, ClosedSteps, FreshSteps, HandedOff, PublishedSteps,
     BuiltSteps
<1>5. phase' = "Stable" \/ mpc'[m] \in {"handoff", "freeze", "snapshot", "install"}
                                            \cup PublishedSteps
        => Resting
  BY <1>2 DEF Resting, PublishedSteps
<1>6. ~MayThrow => ~deltas[states[current].active].closed
  BY <1>2, ClosedWhere DEF CoreInv
<1> QED
  BY <1>1, <1>2, <1>3, <1>4, <1>5, <1>6, MergerStepInv DEF CoreInv, RestInv, columnVars

\* A merger in any of these steps has seen the phase through.
LEMMA RestKnown ==
  ASSUME RestInv, NEW m \in Mergers, mpc[m] \in {"handoff", "freeze", "snapshot", "install"}
  PROVE  states[current].closed = NoDelta
BY DEF RestInv, Resting

LEMMA HandoffLockInv ==
  ASSUME TypeInv, LockInv, CoreInv, NEW m \in Mergers, HandoffLock(m)
  PROVE  CoreInv'
<1>1. MergerNext(m)
  BY DEF MergerNext
<1>2. /\ UNCHANGED mergerFrame /\ UNCHANGED columnVars /\ UNCHANGED phase
      /\ mpc[m] = "handoff" /\ mpc'[m] = "freeze" /\ job'[m].input = current
  BY DEF HandoffLock, MergeStep, TypeInv, TypeOK, MergerType, Job
<1>3. HeapInv' /\ WriterInv'
  BY <1>2, QuietMergeInv
<1>4. PhaseFits(m)'
  BY <1>2 DEF CoreInv, MergeInv, PhaseFits, PhaseOf, InHandoff
<1>5. MergeKnows(m)'
  BY <1>2 DEF columnVars, MergeKnows, ClosedSteps, FreshSteps, HandedOff, PublishedSteps,
     BuiltSteps
<1>6. states[current].closed = NoDelta
  BY <1>2, RestKnown DEF CoreInv
<1>7. ~MayThrow => ~deltas[states[current].active].closed
  BY <1>2, ClosedWhere DEF CoreInv
<1> QED
  BY <1>1, <1>2, <1>3, <1>4, <1>5, <1>6, <1>7, MergerStepInv DEF columnVars

LEMMA FreezeInv ==
  ASSUME TypeInv, LockInv, CoreInv, NEW m \in Mergers, Freeze(m)
  PROVE  CoreInv'
<1>1. MergerNext(m)
  BY DEF MergerNext, HandoffStep
<1>2. /\ UNCHANGED <<states, current, phase, job, wpc, wst>>
      /\ mpc[m] = "freeze" /\ mpc'[m] = "snapshot"
  BY DEF Freeze, MergeStep, mergerFrame, writerVars, TypeInv, TypeOK, MergerType
<1>3. HeapInv' /\ WriterInv'
  BY <1>2 DEF CoreInv, HeapInv, WriterInv
<1>4. PhaseFits(m)'
  BY <1>2 DEF CoreInv, MergeInv, PhaseFits, PhaseOf, InHandoff
<1>5. MergeKnows(m)'
  BY <1>2 DEF CoreInv, MergeInv, MergeKnows, ClosedSteps, FreshSteps, HandedOff,
     PublishedSteps, BuiltSteps
<1>6. states[current].closed = NoDelta
  BY <1>2, RestKnown DEF CoreInv
<1> QED
  BY <1>1, <1>2, <1>3, <1>4, <1>5, <1>6, MergerStepInv

LEMMA FreezeSnapshotInv ==
  ASSUME TypeInv, LockInv, CoreInv, NEW m \in Mergers, FreezeSnapshot(m)
  PROVE  CoreInv'
<1>1. MergerNext(m)
  BY DEF MergerNext, HandoffStep
<1>2. /\ UNCHANGED mergerFrame /\ UNCHANGED columnVars /\ UNCHANGED phase
      /\ mpc[m] = "snapshot" /\ mpc'[m] = "install"
  BY DEF FreezeSnapshot, FreshBase, MergeStep, TypeInv, TypeOK, MergerType
<1>3. HeapInv' /\ WriterInv'
  BY <1>2, QuietMergeInv
<1>4. PhaseFits(m)'
  BY <1>2 DEF CoreInv, MergeInv, PhaseFits, PhaseOf, InHandoff
<1>5. states[current].closed = NoDelta
  BY <1>2, RestKnown DEF CoreInv
<1>6. job[m].input = current
  BY <1>2 DEF CoreInv, MergeInv, MergeKnows
<1>7. /\ job'[m].input = current
      /\ job'[m].closed = [base |-> states[current].base, rows |-> ActiveRows(current)]
      /\ job'[m].base = states[current].base + Len(ActiveRows(current))
  <2>1. job[m] \in Job
    BY DEF TypeInv, TypeOK, MergerType
  <2> QED
    BY <1>6, <2>1 DEF FreezeSnapshot, FreshBase, ActiveRows, TypeInv, TypeOK, MergerType, Job
<1>8. MergeKnows(m)'
  BY <1>2, <1>5, <1>7 DEF columnVars, MergeKnows, InputCovered, ActiveRows, HandedOff,
     BuiltSteps
<1> QED
  BY <1>1, <1>2, <1>3, <1>4, <1>5, <1>8, MergerStepInv DEF columnVars

LEMMA RetireStepInv ==
  ASSUME TypeInv, LockInv, CoreInv, NEW m \in Mergers, RetireStep(m)
  PROVE  CoreInv'
<1>1. MergerNext(m)
  BY DEF MergerNext, HandoffStep, RebuildStep, RetireStep
<1>2. /\ UNCHANGED mergerFrame /\ UNCHANGED columnVars /\ UNCHANGED phase
      /\ <<mpc[m], mpc'[m]>> \in
           {<<"retireInput", "recordInput">>, <<"recordInput", "releaseInput">>,
            <<"releaseInput", "handedOff">>, <<"retireHandoff", "recordHandoff">>,
            <<"recordHandoff", "releaseHandoff">>, <<"releaseHandoff", "published">>}
  BY RetireStepFacts DEF MergeStep, TypeInv, TypeOK, MergerType
<1>3. HeapInv' /\ WriterInv'
  BY <1>2, QuietMergeInv
<1>4. PhaseFits(m) /\ MergeKnows(m)
  BY DEF CoreInv, MergeInv
<1>5. PhaseFits(m)'
  BY <1>2, <1>4 DEF PhaseFits, PhaseOf, InHandoff
<1>6. /\ job'[m].input = job[m].input /\ job'[m].closed = job[m].closed
      /\ job'[m].base = job[m].base /\ job'[m].fresh = job[m].fresh
  BY RetireStepFacts DEF TypeInv, TypeOK, MergerType, Job
<1>7. MergeKnows(m)'
  BY <1>2, <1>4, <1>6 DEF columnVars, MergeKnows, InputCovered, HandoffState,
     ClosedSteps, FreshSteps, HandedOff, PublishedSteps, BuiltSteps
<1>8. phase' = "Stable" \/ mpc'[m] \in {"handoff", "freeze", "snapshot", "install"}
                                            \cup PublishedSteps
        => Resting
  BY <1>2, <1>5 DEF Resting, PhaseFits, PhaseOf, InHandoff, PublishedSteps
<1>9. ~MayThrow => ~deltas[states[current].active].closed
  BY <1>2, ClosedWhere DEF CoreInv
<1> QED
  BY <1>1, <1>2, <1>3, <1>5, <1>7, <1>8, <1>9, MergerStepInv DEF CoreInv, RestInv, columnVars

LEMMA BuildInv ==
  ASSUME TypeInv, LockInv, CoreInv, NEW m \in Mergers, Build(m)
  PROVE  CoreInv'
<1>1. MergerNext(m)
  BY DEF MergerNext, RebuildStep
<1>2. /\ UNCHANGED mergerFrame /\ UNCHANGED columnVars /\ UNCHANGED phase
      /\ mpc[m] = "build" /\ mpc'[m] = "built"
  BY DEF Build, MergeStep, TypeInv, TypeOK, MergerType
<1>3. HeapInv' /\ WriterInv'
  BY <1>2, QuietMergeInv
<1>4. PhaseFits(m) /\ MergeKnows(m)
  BY DEF CoreInv, MergeInv
<1>5. PhaseFits(m)' /\ phase' = "Building"
  BY <1>2, <1>4 DEF PhaseFits, PhaseOf, InHandoff
<1>6. /\ job'[m].input = job[m].input /\ job'[m].closed = job[m].closed
      /\ job'[m].base = job[m].base /\ job'[m].fresh = job[m].fresh
      /\ job'[m].built = MainColumn(RawRows(m))
  BY DEF Build, TypeInv, TypeOK, MergerType, Job
<1>7. RawRows(m)' = RawRows(m)
  BY <1>2, <1>6 DEF RawRows, columnVars
<1>8. MergeKnows(m)'
  BY <1>2, <1>4, <1>6, <1>7 DEF columnVars, MergeKnows, InputCovered, HandoffState,
     ClosedSteps, FreshSteps, HandedOff, PublishedSteps, BuiltSteps
<1>9. ~MayThrow => ~deltas[states[current].active].closed
  BY <1>2, ClosedWhere DEF CoreInv
<1> QED
  BY <1>1, <1>2, <1>3, <1>5, <1>8, <1>9, MergerStepInv DEF PublishedSteps, columnVars

-----------------------------------------------------------------------------
(* What merge_once knows: the two exchanges of current_ *)

\* The closed delta of a handoff fills the row space up to the fresh delta.
LEMMA HandoffCovers ==
  ASSUME TypeInv, CoreInv, NEW m \in Mergers, mpc[m] \in ClosedSteps, NEW d
  PROVE  /\ Covers(HandoffState(m, d))
         /\ job[m].base = Len(states[job[m].input].main) + Len(job[m].closed.rows)
         /\ job[m].closed.base = Len(states[job[m].input].main)
<1> DEFINE s == states[job[m].input]
<1>1. job[m].input \in 1..Len(states) /\ job[m].closed # NoDelta
  BY HeapFacts DEF TypeInv, TypeOK, MergerType, Job, MergerLocals, InputSteps
<1>2. s.base \in Nat /\ Len(s.main) \in Nat /\ Len(job[m].closed.rows) \in Nat
  BY <1>1, HeapFacts, RawRowsType DEF TypeInv, TypeOK
<1>3. s.closed = NoDelta /\ job[m].closed.base = s.base
      /\ job[m].base = s.base + Len(job[m].closed.rows)
  BY DEF CoreInv, MergeInv, MergeKnows, InputCovered
<1>4. s.base = Len(s.main)
  <2>1. Covers(s)
    BY <1>1 DEF CoreInv, HeapInv
  <2>2. ClosedSize(s) = 0
    BY <1>3 DEF ClosedSize
  <2> QED
    BY <1>2, <2>1, <2>2 DEF Covers
<1>5. ClosedSize(HandoffState(m, d)) = Len(job[m].closed.rows)
  BY <1>1 DEF ClosedSize, HandoffState
<1> QED
  BY <1>2, <1>3, <1>4, <1>5 DEF Covers, HandoffState

LEMMA InstallHandoffInv ==
  ASSUME TypeInv, LockInv, CoreInv, NEW m \in Mergers, InstallHandoff(m)
  PROVE  CoreInv'
<1> DEFINE d == Len(deltas) + 1
           s == HandoffState(m, d)
<1>1. MergerNext(m)
  BY DEF MergerNext, HandoffStep
<1>2. /\ UNCHANGED <<phase, wpc, wst>>
      /\ mpc[m] = "install" /\ mpc'[m] = "retireInput" /\ mpc[m] \in ClosedSteps
      /\ mpc[m] \in InHandoff
  BY DEF InstallHandoff, NextActive, MergeStep, mergerFrame, writerVars, TypeInv, TypeOK,
    MergerType,
     ClosedSteps, InHandoff
<1>3. /\ states'[Len(states) + 1] = s /\ current' = Len(states) + 1
      /\ Len(states') = Len(states) + 1
      /\ \A i \in 1..Len(states) : states'[i] = states[i]
      /\ Len(deltas') = d /\ deltas'[d].closed = FALSE
  BY InstallHandoffHeap
<1>4. Len(states) \in Nat /\ job[m].input \in 1..Len(states)
  BY <1>2, HeapFacts DEF TypeInv, TypeOK, MergerType, Job, MergerLocals, InputSteps
<1>5. s.active = d
  BY DEF HandoffState
<1>6. /\ job'[m].input = job[m].input /\ job'[m].closed = job[m].closed
      /\ job'[m].base = job[m].base /\ job'[m].fresh = d
  BY DEF InstallHandoff, NextActive, TypeInv, TypeOK, MergerType, Job
<1>7. Covers(s)
  BY <1>2, HandoffCovers
<1>8. HeapInv'
  BY <1>3, <1>4, <1>7 DEF CoreInv, HeapInv
<1>9. WriterInv'
  BY <1>2, Exclusion DEF WriterInv, LockSteps
<1>10. PhaseFits(m)' /\ phase' = "Handoff"
  BY <1>2 DEF CoreInv, MergeInv, PhaseFits, PhaseOf, InHandoff
<1>11. HandoffState(m, job[m].fresh)' = s
  BY <1>3, <1>4, <1>6 DEF HandoffState
<1>12. InputCovered(m)'
  BY <1>2, <1>3, <1>4, <1>6 DEF CoreInv, MergeInv, MergeKnows, InputCovered
<1>13. MergeKnows(m)'
  BY <1>2, <1>3, <1>6, <1>11, <1>12 DEF MergeKnows, HandedOff, BuiltSteps, HandoffState
<1>14. ~(deltas[states[current].active].closed)'
  BY <1>3, <1>5
<1> QED
  BY <1>1, <1>2, <1>8, <1>9, <1>10, <1>13, <1>14, MergerStepInv DEF PublishedSteps

LEMMA PublishInv ==
  ASSUME TypeInv, LockInv, CoreInv, NEW m \in Mergers, Publish(m)
  PROVE  CoreInv'
<1> DEFINE s == PublishedState(m)
<1>1. MergerNext(m)
  BY DEF MergerNext, RebuildStep
<1>2. /\ UNCHANGED <<deltas, phase, wpc, wst>>
      /\ mpc[m] = "publish" /\ mpc'[m] = "retireHandoff" /\ mpc[m] \in ClosedSteps
      /\ mpc[m] \in HandedOff /\ mpc[m] \in BuiltSteps
  BY DEF Publish, MergeStep, mergerFrame, writerVars, TypeInv, TypeOK, MergerType,
     ClosedSteps, FreshSteps, HandedOff, BuiltSteps
<1>3. /\ states'[Len(states) + 1] = s /\ current' = Len(states) + 1
      /\ Len(states') = Len(states) + 1
      /\ \A i \in 1..Len(states) : states'[i] = states[i]
  BY PublishHeap
<1>4. Len(states) \in Nat /\ job[m].input \in 1..Len(states)
  BY <1>2, HeapFacts DEF TypeInv, TypeOK, MergerType, Job, MergerLocals, InputSteps
<1>5. /\ job'[m].input = job[m].input /\ job'[m].closed = job[m].closed
      /\ job'[m].base = job[m].base /\ job'[m].fresh = job[m].fresh
  BY DEF Publish, TypeInv, TypeOK, MergerType, Job
<1>6. MergeKnows(m) /\ PhaseFits(m)
  BY DEF CoreInv, MergeInv
<1>7. Len(job[m].built) = Len(RawRows(m))
  BY <1>2, <1>6, RawRowsType, MainColumnType DEF MergeKnows
<1>8. Covers(s)
  <2>1. /\ Len(RawRows(m)) = Len(states[job[m].input].main) + Len(job[m].closed.rows)
        /\ job[m].base = Len(states[job[m].input].main) + Len(job[m].closed.rows)
    BY <1>2, HandoffCovers, RawRowsType
  <2>2. job[m].base \in Nat
    BY DEF TypeInv, TypeOK, MergerType, Job
  <2>3. /\ s.base = job[m].base /\ s.main = job[m].built /\ s.closed = NoDelta
    BY DEF PublishedState
  <2>4. s.base = Len(s.main) /\ s.base \in Nat
    BY <1>7, <2>1, <2>2, <2>3
  <2>5. ClosedSize(s) = 0
    BY <2>3 DEF ClosedSize
  <2> HIDE DEF s
  <2> QED
    BY <2>3, <2>4, <2>5 DEF Covers
<1>9. HeapInv'
  BY <1>3, <1>4, <1>8 DEF CoreInv, HeapInv
<1>10. s.active = states[current].active /\ s.base = states[current].base /\ s.closed = NoDelta
  BY <1>2, <1>6 DEF MergeKnows, HandoffState, PublishedState
<1>11. WriterInv'
  <2> SUFFICES ASSUME NEW w \in Writers, wpc[w] \in StateSteps
               PROVE  /\ states'[wst[w]].active = s.active
                      /\ states'[wst[w]].base = s.base
    BY <1>2, <1>3 DEF WriterInv
  <2>1. wst[w] \in 1..Len(states)
    BY HeapFacts DEF TypeInv, TypeOK, WriterType, WriterLocals
  <2> QED
    BY <2>1, <1>3, <1>10 DEF CoreInv, WriterInv
<1>12. PhaseFits(m)' /\ phase' = "Publishing"
  BY <1>2, <1>6 DEF PhaseFits, PhaseOf, InHandoff
<1>13. InputCovered(m)'
  BY <1>2, <1>3, <1>4, <1>5, <1>6 DEF MergeKnows, InputCovered
<1>14. MergeKnows(m)'
  BY <1>2, <1>13 DEF MergeKnows, HandedOff, BuiltSteps
<1>15. (states[current].closed = NoDelta)'
  BY <1>3, <1>10
<1>16. ~MayThrow => ~(deltas[states[current].active].closed)'
  <2>1. ~MayThrow => ~deltas[states[current].active].closed
    BY <1>2, ClosedWhere DEF CoreInv
  <2> QED
    BY <2>1, <1>2, <1>3, <1>10
<1> QED
  BY <1>1, <1>9, <1>11, <1>12, <1>14, <1>15, <1>16, MergerStepInv

-----------------------------------------------------------------------------
(* What merge_once knows: the writers *)

\* The delta a writer appends to is the current active one, and it is grown by
\* the row at the end.
LEMMA AppendPublishHeap ==
  ASSUME TypeInv, WriterInv, NEW w \in Writers, AppendPublish(w)
  PROVE  LET d == states[current].active
         IN  /\ UNCHANGED <<states, current>>
             /\ wrow[w] \in Row
             /\ wret'[w] = states[current].base + Len(deltas[d].rows)
             /\ Len(deltas') = Len(deltas)
             /\ deltas'[d].rows = Append(deltas[d].rows, wrow[w])
             /\ \A e \in 1..Len(deltas) : deltas'[e].closed = deltas[e].closed
             /\ \A e \in 1..Len(deltas) : e # d => deltas'[e] = deltas[e]
<1> DEFINE d == states[current].active
           D == [rows : Seq(Row), closed : BOOLEAN]
           x == Append(deltas[d].rows, wrow[w])
<1>1. states[wst[w]].active = d /\ states[wst[w]].base = states[current].base
  BY DEF AppendPublish, RowIdOf, WriterInv, StateSteps
<1>2. d \in 1..Len(deltas)
  BY HeapFacts DEF TypeInv, TypeOK, HeapType
<1>3. deltas' = [deltas EXCEPT ![d] = [@ EXCEPT !.rows = x]]
  BY <1>1 DEF AppendPublish, RowIdOf
<1>4. wrow[w] \in Row
  BY DEF AppendPublish, RowIdOf, TypeInv, TypeOK, WriterType, WriterLocals
<1>5. deltas \in Seq(D) /\ \A e \in 1..Len(deltas) : deltas[e] \in D
  BY HeapFacts DEF TypeInv, TypeOK, HeapType
<1>6. x \in Seq(Row)
  BY <1>2, <1>4, <1>5
<1>7. [deltas[d] EXCEPT !.rows = x] \in D
  BY <1>2, <1>5, <1>6
<1> HIDE DEF D, d, x
<1>8. /\ Len(deltas') = Len(deltas)
      /\ \A e \in 1..Len(deltas) :
           deltas'[e] = IF e = d THEN [deltas[d] EXCEPT !.rows = x] ELSE deltas[e]
  BY <1>2, <1>3, <1>5, <1>7, ExceptSeq
<1>9. deltas'[d].rows = x /\ \A e \in 1..Len(deltas) : deltas'[e].closed = deltas[e].closed
  BY <1>2, <1>5, <1>8 DEF D
<1>10. wret'[w] = states[current].base + Len(deltas[d].rows)
  BY <1>1 DEF AppendPublish, RowIdOf, TypeInv, TypeOK, WriterType
<1> QED
  BY <1>4, <1>8, <1>9, <1>10 DEF AppendPublish, RowIdOf, writerFrame, d, x

LEMMA WriterStepInv ==
  ASSUME TypeInv, LockInv, CoreInv, NEW w \in Writers, WriterNext(w)
  PROVE  CoreInv'
<1>1. UNCHANGED <<states, current, phase, mpc, job>>
  BY WriterFrame DEF writerFrame, mergerVars
<1>2. WriterInv'
  <2>1. \A x \in Writers \ {w} : wpc'[x] = wpc[x] /\ wst'[x] = wst[x]
    BY DEF WriterNext, AppendStep, AppendCall, AppendLock, AppendLoad, AppendCheck,
       AppendThrows, AppendPublish, RowIdOf, AppendReturn, LeaveAppend, UnlockHandoff,
       TypeInv, TypeOK, WriterType
  <2>2. wpc'[w] \in StateSteps => wst'[w] = current \/ (wst'[w] = wst[w] /\ wpc[w] \in StateSteps)
    BY DEF WriterNext, AppendStep, AppendCall, AppendLock, AppendLoad, AppendCheck,
       AppendThrows, AppendPublish, RowIdOf, AppendReturn, LeaveAppend, UnlockHandoff,
       TypeInv, TypeOK, WriterType,
       StateSteps
  <2> QED
    BY <1>1, <2>1, <2>2 DEF CoreInv, WriterInv
<1>3. CASE UNCHANGED deltas
  BY <1>1, <1>2, <1>3, ColumnUnchanged DEF CoreInv
<1>4. CASE AppendPublish(w)
  <2>1. /\ Len(deltas') = Len(deltas)
        /\ \A e \in 1..Len(deltas) : deltas'[e].closed = deltas[e].closed
    BY <1>4, AppendPublishHeap DEF CoreInv
  <2>2. \A m \in Mergers : mpc[m] \notin InHandoff
    BY <1>4, ThreadsAssumption DEF AppendPublish, RowIdOf, LockInv, LockSteps, StateSteps
  <2>3. HeapInv' /\ RestInv'
    BY <1>1 DEF CoreInv, HeapInv, RestInv, Resting
  <2>4. OpenInv'
    <3>1. states[current].active \in 1..Len(deltas)
      BY HeapFacts DEF TypeInv, TypeOK, HeapType
    <3> QED
      BY <1>1, <2>1, <3>1 DEF CoreInv, OpenInv
  <2>5. MergeInv'
    BY <1>1, <2>1, <2>2 DEF CoreInv, MergeInv, PhaseFits, MergeKnows, InputCovered,
       HandoffState, RawRows, InHandoff
  <2> QED
    BY <1>2, <2>3, <2>4, <2>5 DEF CoreInv
<1> QED
  BY <1>3, <1>4, WriterFrame

LEMMA NextKeepsCore ==
  ASSUME TypeInv, LockInv, CoreInv, [Next]_vars
  PROVE  CoreInv'
<1>1. ASSUME NEW w \in Writers, WriterNext(w) PROVE CoreInv'
  BY <1>1, WriterStepInv
<1>2. ASSUME NEW m \in Mergers, MergerNext(m) PROVE CoreInv'
  BY <1>2, AdvanceInv, LeaveMergeInv, HandoffLockInv, FreezeInv, FreezeSnapshotInv,
     InstallHandoffInv, RetireStepInv, BuildInv, PublishInv
     DEF MergerNext, HandoffStep, RebuildStep, RetireStep
<1>3. CASE UNCHANGED <<columnVars, phase, mergerVars, writerVars>>
  <2>1. WriterInv'
    BY <1>3 DEF CoreInv, columnVars, writerVars, WriterInv
  <2> QED
    BY <1>3, <2>1, ColumnUnchanged DEF CoreInv, columnVars, mergerVars
<1>4. ASSUME NEW r \in Readers, ReaderNext(r)
      PROVE  UNCHANGED <<columnVars, phase, mergerVars, writerVars>>
  BY <1>4, ReaderFrame DEF readerFrame
<1>5. ASSUME NEW o \in Observers, ObserverNext(o)
      PROVE  UNCHANGED <<columnVars, phase, mergerVars, writerVars>>
  BY <1>5, ObserverFrame DEF observerFrame
<1>6. UNCHANGED vars => UNCHANGED <<columnVars, phase, mergerVars, writerVars>>
  BY DEF vars
<1> QED
  BY <1>1, <1>2, <1>3, <1>4, <1>5, <1>6 DEF Next

-----------------------------------------------------------------------------
(* The logical rows *)

LEMMA CanonicalIdempotent == \A row : Canonical(Canonical(row)) = Canonical(row)
BY ValuesAssumption DEF Canonical

\* The state and the prefix that answer now.
LEMMA CurrentState ==
  ASSUME TypeInv, HeapInv
  PROVE  LET s == states[current]
             rows == deltas[s.active].rows
         IN  /\ current \in 1..Len(states) /\ s.active \in 1..Len(deltas)
             /\ s.main \in Seq(Row) /\ Len(s.main) \in Nat
             /\ rows \in Seq(Row) /\ Len(rows) \in Nat
             /\ s.base \in Nat /\ Len(s.main) <= s.base
             /\ LogicalLen = s.base + Len(rows)
             /\ Covers(s)
<1> DEFINE s == states[current]
<1>1. current \in 1..Len(states) /\ s.active \in 1..Len(deltas)
  BY DEF TypeInv, TypeOK, HeapType
<1>2. /\ s.main \in Seq(Row) /\ Len(s.main) \in Nat /\ s.base \in Nat
      /\ deltas[s.active].rows \in Seq(Row) /\ Len(deltas[s.active].rows) \in Nat
      /\ s \in GenerationState
  BY <1>1, HeapFacts DEF TypeInv, TypeOK
<1>3. Covers(s)
  BY <1>1 DEF HeapInv
<1>4. ClosedSize(s) \in Nat
  <2>1. s.closed = NoDelta \/ s.closed \in ClosedDelta
    BY <1>2 DEF GenerationState
  <2>2. s.closed \in ClosedDelta => Len(s.closed.rows) \in Nat
    BY LenProperties DEF ClosedDelta
  <2> QED
    BY <2>1, <2>2 DEF ClosedSize
<1>5. Len(s.main) <= s.base
  BY <1>2, <1>3, <1>4 DEF Covers
<1> QED
  BY <1>1, <1>2, <1>3, <1>5 DEF LogicalLen, LogicalSize, ActiveRows

\* A row of a delta that grows at its end stays where it is.
LEMMA PrefixGrows ==
  ASSUME NEW s, s.base \in Nat, NEW rows \in Seq(Row), NEW row \in Row,
         NEW i \in Nat, i < s.base + Len(rows)
  PROVE  RowAt(s, Append(rows, row), i) = RowAt(s, rows, i)
<1>1. Len(rows) \in Nat
  BY LenProperties
<1>2. CASE i < s.base
  BY <1>2 DEF RowAt
<1>3. CASE ~(i < s.base)
  <2>1. i - s.base + 1 \in 1..Len(rows)
    BY <1>1, <1>3
  <2>2. Append(rows, row)[i - s.base + 1] = rows[i - s.base + 1]
    BY <2>1
  <2> QED
    BY <1>3, <2>2 DEF RowAt
<1> QED
  BY <1>2, <1>3

\* Neither the installation of a handoff ...
LEMMA HandoffKeepsRows ==
  ASSUME TypeInv, LockInv, CoreInv, NEW m \in Mergers, InstallHandoff(m)
  PROVE  /\ LogicalLen' = LogicalLen
         /\ \A i \in Nat : i < LogicalLen => RowNow(i)' = RowNow(i)
<1> DEFINE d == Len(deltas) + 1
           s == states[current]
           t == HandoffState(m, d)
           rows == deltas[s.active].rows
<1>1. /\ states'[current'] = t /\ deltas'[d] = [rows |-> << >>, closed |-> FALSE]
  BY InstallHandoffHeap
<1>2. /\ t.main = s.main /\ t.base = s.base + Len(rows) /\ t.active = d
      /\ t.closed = job[m].closed
      /\ job[m].closed.rows = rows /\ s.closed = NoDelta
  <2>1. mpc[m] = "install" /\ mpc[m] \in ClosedSteps
    BY DEF InstallHandoff, NextActive, MergeStep, ClosedSteps
  <2> QED
    BY <2>1 DEF CoreInv, MergeInv, MergeKnows, InputCovered, HandoffState, ActiveRows
<1>3. /\ Len(s.main) \in Nat /\ Len(rows) \in Nat /\ s.base \in Nat
      /\ Covers(s) /\ LogicalLen = s.base + Len(rows)
  BY CurrentState DEF CoreInv
<1>4. s.base = Len(s.main)
  BY <1>2, <1>3 DEF Covers, ClosedSize
<1>5. ActiveRows(current)' = << >>
  BY <1>1, <1>2 DEF ActiveRows
<1>6. LogicalLen' = t.base
  BY <1>1, <1>2, <1>3, <1>5 DEF LogicalLen, LogicalSize
<1>7. \A i \in Nat : i < LogicalLen => RowAt(t, << >>, i) = RowAt(s, rows, i)
  BY <1>2, <1>3, <1>4 DEF RowAt
<1> QED
  BY <1>1, <1>2, <1>3, <1>5, <1>6, <1>7 DEF RowNow, ActiveRows

\* ... nor the publication of a new main touches a row.
LEMMA PublishKeepsRows ==
  ASSUME TypeInv, LockInv, CoreInv, NEW m \in Mergers, Publish(m)
  PROVE  /\ LogicalLen' = LogicalLen
         /\ \A i \in Nat : i < LogicalLen => RowNow(i)' = RowNow(i)
<1> DEFINE h == states[current]
           t == PublishedState(m)
           rows == deltas[h.active].rows
           main == states[job[m].input].main
           closed == job[m].closed.rows
<1>1. states'[current'] = t /\ deltas' = deltas
  BY PublishHeap DEF Publish
<1>2. /\ mpc[m] \in ClosedSteps /\ h = HandoffState(m, job[m].fresh)
      /\ job[m].built = MainColumn(RawRows(m))
  <2>1. mpc[m] = "publish"
    BY DEF Publish, MergeStep
  <2> QED
    BY <2>1 DEF CoreInv, MergeInv, MergeKnows, HandedOff, BuiltSteps, ClosedSteps, FreshSteps
<1>3. /\ h.main = main /\ h.closed.rows = closed /\ h.base = job[m].base
      /\ h.active = job[m].fresh
      /\ t.main = MainColumn(main \o closed) /\ t.base = h.base /\ t.active = h.active
  BY <1>2 DEF HandoffState, PublishedState, RawRows
<1>4. /\ Len(rows) \in Nat /\ h.base \in Nat /\ LogicalLen = h.base + Len(rows)
      /\ main \in Seq(Row) /\ Len(main) \in Nat
  BY <1>3, CurrentState DEF CoreInv
<1>5. h.base = Len(main) + Len(closed) /\ closed \in Seq(Row) /\ Len(closed) \in Nat
  <2>1. job[m].base = Len(main) + Len(closed)
    BY <1>2, HandoffCovers
  <2>2. job[m].closed \in ClosedDelta /\ Len(closed) \in Nat
    BY <1>2, RawRowsType
  <2> QED
    BY <1>3, <2>1, <2>2 DEF ClosedDelta
<1>6. /\ Len(t.main) = h.base
      /\ \A k \in 1..h.base :
           t.main[k] = Canonical(IF k <= Len(main) THEN main[k] ELSE closed[k - Len(main)])
  <2>1. /\ main \o closed \in Seq(Row) /\ Len(main \o closed) = h.base
        /\ \A k \in 1..h.base :
             (main \o closed)[k] = IF k <= Len(main) THEN main[k] ELSE closed[k - Len(main)]
    BY <1>4, <1>5, ConcatProperties
  <2>2. /\ Len(t.main) = Len(main \o closed)
        /\ \A k \in 1..Len(main \o closed) : t.main[k] = Canonical((main \o closed)[k])
    BY <1>3, <2>1, MainColumnType
  <2> HIDE DEF h, t, main, closed
  <2> QED
    BY <2>1, <2>2
<1>7. deltas'[states'[current'].active].rows = rows /\ LogicalLen' = LogicalLen
  BY <1>1, <1>3 DEF ActiveRows, LogicalLen, LogicalSize
<1> HIDE DEF h, t, rows, main, closed
<1>8. ASSUME NEW i \in Nat, i < LogicalLen
      PROVE  Canonical(RowAt(t, rows, i)) = Canonical(RowAt(h, rows, i))
  <2>1. CASE i < Len(main)
    <3>1. t.main[i + 1] = Canonical(main[i + 1]) /\ i < Len(t.main)
      BY <1>4, <1>5, <1>6, <2>1
    <3> QED
      BY <1>3, <2>1, <3>1, CanonicalIdempotent DEF RowAt
  <2>2. CASE ~(i < Len(main)) /\ i < h.base
    <3>1. /\ t.main[i + 1] = Canonical(closed[i - Len(main) + 1]) /\ i < Len(t.main)
      <4>1. i + 1 \in 1..h.base /\ ~(i + 1 <= Len(main)) /\ i < Len(t.main)
        BY <1>4, <1>5, <1>6, <2>2
      <4>2. (i + 1) - Len(main) = i - Len(main) + 1
        BY <1>4
      <4>3. t.main[i + 1] = Canonical(closed[(i + 1) - Len(main)])
        BY <1>6, <4>1
      <4> QED
        BY <4>1, <4>2, <4>3
    <3> QED
      BY <1>3, <2>2, <3>1, CanonicalIdempotent DEF RowAt
  <2>3. CASE ~(i < h.base)
    <3>1. ~(i < Len(main)) /\ ~(i < Len(t.main))
      BY <1>4, <1>5, <1>6, <2>3
    <3> QED
      BY <1>3, <2>3, <3>1 DEF RowAt
  <2> QED
    BY <2>1, <2>2, <2>3
<1>9. \A i : RowNow(i)' = Canonical(RowAt(t, rows, i))
  BY <1>1, <1>7 DEF RowNow, ActiveRows
<1>10. \A i : RowNow(i) = Canonical(RowAt(h, rows, i))
  BY DEF RowNow, ActiveRows, h, rows
<1> QED
  BY <1>7, <1>8, <1>9, <1>10

LEMMA PublishedRowKept ==
  ASSUME TypeInv, CoreInv, NEW w \in Writers, AppendPublish(w)
  PROVE  /\ LogicalLen' = LogicalLen + 1 /\ LogicalLen \in Nat
         /\ wret'[w] = LogicalLen
         /\ \A i : i = LogicalLen => RowNow(i)' = Canonical(wrow[w])
         /\ \A i \in Nat : i < LogicalLen => RowNow(i)' = RowNow(i)
<1> DEFINE s == states[current]
           rows == deltas[s.active].rows
           grown == Append(rows, wrow[w])
<1>1. /\ UNCHANGED <<states, current>> /\ wrow[w] \in Row
      /\ wret'[w] = s.base + Len(rows) /\ deltas'[s.active].rows = grown
  BY AppendPublishHeap DEF CoreInv
<1>2. /\ rows \in Seq(Row) /\ Len(rows) \in Nat
      /\ s.base \in Nat /\ Len(s.main) \in Nat /\ Len(s.main) <= s.base
      /\ LogicalLen = s.base + Len(rows)
  BY CurrentState DEF CoreInv
<1>3. Len(grown) = Len(rows) + 1 /\ grown[Len(rows) + 1] = wrow[w]
  BY <1>1, <1>2
<1>4. states'[current'] = s /\ deltas'[states'[current'].active].rows = grown
  BY <1>1
<1> HIDE DEF grown, rows, s
<1>5. LogicalLen' = LogicalLen + 1
  <2>1. LogicalLen' = s.base + Len(grown)
    BY <1>4 DEF LogicalLen, LogicalSize, ActiveRows
  <2> QED
    BY <1>2, <1>3, <2>1
<1>6. \A i : RowNow(i)' = Canonical(RowAt(s, grown, i))
  BY <1>4 DEF RowNow, ActiveRows
<1>7. RowAt(s, grown, LogicalLen) = wrow[w]
  <2>1. ~(LogicalLen < Len(s.main)) /\ ~(LogicalLen < s.base)
          /\ LogicalLen - s.base + 1 = Len(rows) + 1
    BY <1>2
  <2> QED
    BY <1>3, <2>1 DEF RowAt
<1>8. \A i \in Nat : i < LogicalLen => RowAt(s, grown, i) = RowAt(s, rows, i)
  BY <1>1, <1>2, PrefixGrows DEF grown
<1>9. \A i : RowNow(i) = Canonical(RowAt(s, rows, i))
  BY DEF RowNow, ActiveRows, s, rows
<1> QED
  BY <1>1, <1>2, <1>5, <1>6, <1>7, <1>8, <1>9

\* Freezing a delta keeps its rows.
LEMMA FreezeKeepsRows ==
  ASSUME TypeInv, NEW m \in Mergers, Freeze(m)
  PROVE  LogicalLen' = LogicalLen /\ \A i : RowNow(i)' = RowNow(i)
<1>1. UNCHANGED <<states, current>> /\ states[current].active \in 1..Len(deltas)
  BY DEF Freeze, TypeInv, TypeOK, HeapType
<1>2. deltas'[states'[current'].active].rows = deltas[states[current].active].rows
  BY <1>1, FreezeHeap
<1> QED
  BY <1>1, <1>2 DEF LogicalLen, RowNow, ActiveRows

\* Four steps change the heap or current_.
LEMMA ColumnSteps ==
  ASSUME [Next]_vars
  PROVE  \/ UNCHANGED columnVars
         \/ \E w \in Writers : AppendPublish(w)
         \/ \E m \in Mergers : Freeze(m) \/ InstallHandoff(m) \/ Publish(m)
<1>1. ASSUME NEW w \in Writers, WriterNext(w)
      PROVE  UNCHANGED columnVars \/ AppendPublish(w)
  BY <1>1, WriterFrame DEF writerFrame, columnVars
<1>2. ASSUME NEW m \in Mergers, MergerNext(m)
      PROVE  UNCHANGED columnVars \/ Freeze(m) \/ InstallHandoff(m) \/ Publish(m)
  BY <1>2 DEF MergerNext, HandoffStep, RebuildStep, MergeTryLock, MergeBegin, MergeRefused,
     HandoffLock, FreezeSnapshot, RetireInput, RecordInput, ReleaseInput, RetireHandoff,
     RecordHandoff, ReleaseHandoff, LockRetired, RecordRetired, ReleaseOld, EnterBuilding,
     Build, EnterPublishing, EnterRetired, EnterStable, Advance, Account, Sample, MergeReturn,
     MergeRejected, MergeThrows
<1>3. ASSUME NEW r \in Readers, ReaderNext(r) PROVE UNCHANGED columnVars
  BY <1>3, ReaderFrame DEF readerFrame
<1>4. ASSUME NEW o \in Observers, ObserverNext(o) PROVE UNCHANGED columnVars
  BY <1>4, ObserverFrame DEF observerFrame
<1>5. UNCHANGED vars => UNCHANGED columnVars
  BY DEF vars
<1> QED
  BY <1>1, <1>2, <1>3, <1>4, <1>5 DEF Next

LEMMA NextKeepsRows ==
  ASSUME TypeInv, LockInv, CoreInv, [Next]_vars, NEW i \in Nat, i < LogicalLen
  PROVE  i < LogicalLen' /\ RowNow(i)' = RowNow(i)
<1>1. CASE UNCHANGED columnVars
  BY <1>1 DEF columnVars, LogicalLen, RowNow, ActiveRows
<1>2. CASE \E w \in Writers : AppendPublish(w)
  BY <1>2, PublishedRowKept
<1>3. CASE \E m \in Mergers : Freeze(m) \/ InstallHandoff(m) \/ Publish(m)
  BY <1>3, FreezeKeepsRows, HandoffKeepsRows, PublishKeepsRows
<1> QED
  BY <1>1, <1>2, <1>3, ColumnSteps

\* What a writer was answered, and the row it asked to append, change only when
\* it calls again and when its row is published.
LEMMA AnswerFrame ==
  ASSUME TypeInv, [Next]_vars, NEW w \in Writers
  PROVE  \/ wret'[w] = wret[w] /\ wrow'[w] = wrow[w]
         \/ wret'[w] = None
         \/ AppendPublish(w) /\ wrow'[w] = wrow[w]
<1>1. UNCHANGED writerVars => wret'[w] = wret[w] /\ wrow'[w] = wrow[w]
  BY DEF writerVars
<1>2. ASSUME NEW x \in Writers, WriterNext(x)
      PROVE  \/ wret'[w] = wret[w] /\ wrow'[w] = wrow[w]
             \/ wret'[w] = None
             \/ AppendPublish(w) /\ wrow'[w] = wrow[w]
  BY <1>2 DEF WriterNext, AppendStep, AppendCall, AppendLock, AppendLoad, AppendCheck,
     AppendThrows, AppendPublish, RowIdOf, AppendReturn, LeaveAppend, UnlockHandoff, TypeInv,
     TypeOK, WriterType
<1>3. ASSUME NEW m \in Mergers, MergerNext(m) PROVE UNCHANGED writerVars
  BY <1>3, MergerFrame DEF mergerFrame
<1>4. ASSUME NEW r \in Readers, ReaderNext(r) PROVE UNCHANGED writerVars
  BY <1>4, ReaderFrame DEF readerFrame
<1>5. ASSUME NEW o \in Observers, ObserverNext(o) PROVE UNCHANGED writerVars
  BY <1>5, ObserverFrame DEF observerFrame
<1>6. UNCHANGED vars => UNCHANGED writerVars
  BY DEF vars
<1> QED
  BY <1>1, <1>2, <1>3, <1>4, <1>5, <1>6 DEF Next

LEMMA NextKeepsAnswers ==
  ASSUME TypeInv, LockInv, CoreInv, AnswerNamesItsRow, [Next]_vars
  PROVE  AnswerNamesItsRow'
<1> SUFFICES ASSUME NEW w \in Writers, NEW i, i = wret'[w], i # None
             PROVE  i < LogicalLen' /\ RowNow(i)' = Canonical(wrow'[w])
  BY DEF AnswerNamesItsRow, RowNow, ActiveRows
<1>1. CASE wret'[w] = wret[w] /\ wrow'[w] = wrow[w]
  <2>1. i \in Nat /\ i < LogicalLen /\ RowNow(i) = Canonical(wrow[w])
    BY <1>1 DEF AnswerNamesItsRow, TypeInv, TypeOK, WriterType
  <2>2. i < LogicalLen' /\ RowNow(i)' = RowNow(i)
    BY <2>1, NextKeepsRows
  <2> QED
    BY <1>1, <2>1, <2>2
<1>2. CASE AppendPublish(w) /\ wrow'[w] = wrow[w]
  <2>1. /\ LogicalLen' = LogicalLen + 1 /\ LogicalLen \in Nat /\ i = LogicalLen
        /\ RowNow(i)' = Canonical(wrow[w])
    BY <1>2, PublishedRowKept
  <2> QED
    BY <1>2, <2>1
<1> QED
  BY <1>1, <1>2, AnswerFrame

-----------------------------------------------------------------------------
(* Prefixes and frozen deltas *)

\* States stay, and deltas are only closed and grown.
LEMMA HeapGrows ==
  ASSUME TypeInv, CoreInv, [Next]_vars
  PROVE  /\ \A i \in 1..Len(states) : i \in 1..Len(states') /\ states'[i] = states[i]
         /\ \A d \in 1..Len(deltas) :
              /\ deltas[d].closed => deltas'[d].closed
              /\ Len(deltas[d].rows) <= Len(deltas'[d].rows) /\ Len(deltas'[d].rows) \in Nat
              /\ \/ deltas'[d].rows = deltas[d].rows
                 \/ d = states[current].active /\ \E w \in Writers : AppendPublish(w)
<1>1. /\ Len(states) \in Nat /\ Len(deltas) \in Nat
      /\ \A d \in 1..Len(deltas) : Len(deltas[d].rows) \in Nat /\ deltas[d].rows \in Seq(Row)
  BY HeapFacts DEF TypeInv, TypeOK
<1>2. CASE UNCHANGED columnVars
  BY <1>1, <1>2 DEF columnVars
<1>3. CASE \E w \in Writers : AppendPublish(w)
  <2> PICK w \in Writers : AppendPublish(w)
    BY <1>3
  <2> DEFINE a == states[current].active
  <2>1. /\ UNCHANGED states /\ wrow[w] \in Row
        /\ deltas'[a].rows = Append(deltas[a].rows, wrow[w])
        /\ \A e \in 1..Len(deltas) : deltas'[e].closed = deltas[e].closed
        /\ \A e \in 1..Len(deltas) : e # a => deltas'[e] = deltas[e]
    BY AppendPublishHeap DEF CoreInv
  <2>2. a \in 1..Len(deltas)
    BY DEF TypeInv, TypeOK, HeapType
  <2> HIDE DEF a
  <2>3. Len(Append(deltas[a].rows, wrow[w])) = Len(deltas[a].rows) + 1
    BY <1>1, <2>1, <2>2
  <2> QED
    BY <1>1, <1>3, <2>1, <2>2, <2>3 DEF a
<1>4. ASSUME NEW m \in Mergers, Freeze(m)
      PROVE  /\ UNCHANGED states
             /\ \A d \in 1..Len(deltas) : /\ deltas'[d].rows = deltas[d].rows
                                          /\ deltas[d].closed => deltas'[d].closed
  BY <1>4, FreezeHeap DEF Freeze
<1>5. ASSUME NEW m \in Mergers, InstallHandoff(m)
      PROVE  /\ \A i \in 1..Len(states) : i \in 1..Len(states') /\ states'[i] = states[i]
             /\ \A d \in 1..Len(deltas) : deltas'[d] = deltas[d]
  <2> HIDE DEF InstallHandoff
  <2>1. /\ Len(states') = Len(states) + 1
        /\ \A i \in 1..Len(states) : states'[i] = states[i]
        /\ \A e \in 1..Len(deltas) : deltas'[e] = deltas[e]
    BY <1>5, InstallHandoffHeap
  <2> QED
    BY <1>1, <2>1
<1>6. ASSUME NEW m \in Mergers, Publish(m)
      PROVE  /\ \A i \in 1..Len(states) : i \in 1..Len(states') /\ states'[i] = states[i]
             /\ UNCHANGED deltas
  <2>1. Len(states') = Len(states) + 1 /\ \A i \in 1..Len(states) : states'[i] = states[i]
    BY <1>6, PublishHeap
  <2> QED
    BY <1>1, <1>6, <2>1 DEF Publish
<1>7. CASE \E m \in Mergers : Freeze(m) \/ InstallHandoff(m) \/ Publish(m)
  BY <1>1, <1>4, <1>5, <1>6, <1>7
<1> QED
  BY <1>2, <1>3, <1>7, ColumnSteps

\* A step of another thread leaves a reader alone.
LEMMA OtherThanReader ==
  ASSUME TypeInv, [Next]_vars, NEW r \in Readers
  PROVE  ReaderNext(r) \/ (rpc'[r] = rpc[r] /\ rst'[r] = rst[r] /\ rlen'[r] = rlen[r])
<1>1. UNCHANGED readerVars => rpc'[r] = rpc[r] /\ rst'[r] = rst[r] /\ rlen'[r] = rlen[r]
  BY DEF readerVars
<1>2. ASSUME NEW x \in Readers, ReaderNext(x), x # r
      PROVE  rpc'[r] = rpc[r] /\ rst'[r] = rst[r] /\ rlen'[r] = rlen[r]
  BY <1>2 DEF ReaderNext, ReadCall, ReadLoad, ReadPrefix, ReadReturn, ReadThrows, DropView,
     ReadStep, LeaveRead, TypeInv, TypeOK, ReaderType
<1>3. ASSUME NEW w \in Writers, WriterNext(w) PROVE UNCHANGED readerVars
  BY <1>3, WriterFrame DEF writerFrame
<1>4. ASSUME NEW m \in Mergers, MergerNext(m) PROVE UNCHANGED readerVars
  BY <1>4, MergerFrame DEF mergerFrame
<1>5. ASSUME NEW o \in Observers, ObserverNext(o) PROVE UNCHANGED readerVars
  BY <1>5, ObserverFrame DEF observerFrame
<1>6. UNCHANGED vars => UNCHANGED readerVars
  BY DEF vars
<1> QED
  BY <1>1, <1>2, <1>3, <1>4, <1>5, <1>6 DEF Next

\* The state a thread has loaded is on the heap, and so is its active delta.
LEMMA LoadedState ==
  ASSUME TypeInv
  PROVE  /\ \A r \in Readers : rpc[r] \in {"loaded", "sized", "view"} =>
              rst[r] \in 1..Len(states) /\ states[rst[r]].active \in 1..Len(deltas)
         /\ \A w \in Writers : wpc[w] \in StateSteps =>
              wst[w] \in 1..Len(states) /\ states[wst[w]].active \in 1..Len(deltas)
         /\ current \in 1..Len(states) /\ states[current].active \in 1..Len(deltas)
BY HeapFacts DEF TypeInv, TypeOK, HeapType, ReaderType, ReaderLocals, WriterType, WriterLocals

LEMMA NextKeepsPrefixes ==
  ASSUME TypeInv, CoreInv, PrefixInv, [Next]_vars
  PROVE  PrefixInv'
<1> SUFFICES ASSUME NEW r \in Readers, rpc'[r] \in {"sized", "view"}
             PROVE  rlen'[r] <= Len(ActiveRows(rst[r])')
  BY DEF PrefixInv
<1>1. CASE ReaderNext(r)
  <2>1. \/ rpc[r] = "loaded" /\ rlen'[r] = Len(ActiveRows(rst[r]))
        \/ rpc[r] = "sized" /\ rlen'[r] = rlen[r]
    BY <1>1 DEF ReaderNext, ReadCall, ReadLoad, ReadPrefix, ReadReturn, ReadThrows, DropView,
       ReadStep, LeaveRead, TypeInv, TypeOK, ReaderType
  <2>2. rst'[r] = rst[r] /\ rpc[r] \in {"loaded", "sized"}
    BY <1>1 DEF ReaderNext, ReadCall, ReadLoad, ReadPrefix, ReadReturn, ReadThrows, DropView,
       ReadStep, LeaveRead, TypeInv, TypeOK, ReaderType
  <2>3. UNCHANGED columnVars
    BY <1>1, ReaderFrame DEF readerFrame
  <2>4. ActiveRows(rst[r])' = ActiveRows(rst[r])
    BY <2>2, <2>3 DEF columnVars, ActiveRows
  <2>5. Len(ActiveRows(rst[r])) \in Nat
    BY <2>2, LoadedState, HeapFacts DEF TypeInv, TypeOK, ActiveRows
  <2> QED
    BY <2>1, <2>4, <2>5 DEF PrefixInv
<1>2. CASE rpc'[r] = rpc[r] /\ rst'[r] = rst[r] /\ rlen'[r] = rlen[r]
  <2> DEFINE d == states[rst[r]].active
  <2>1. rst[r] \in 1..Len(states) /\ d \in 1..Len(deltas) /\ rlen[r] \in Nat
    BY <1>2, LoadedState DEF TypeInv, TypeOK, ReaderType
  <2>2. ActiveRows(rst[r]) = deltas[d].rows /\ ActiveRows(rst[r])' = deltas'[d].rows
    BY <1>2, <2>1, HeapGrows DEF ActiveRows
  <2>3. /\ Len(deltas[d].rows) <= Len(deltas'[d].rows)
        /\ Len(deltas[d].rows) \in Nat /\ Len(deltas'[d].rows) \in Nat
    BY <2>1, HeapGrows, HeapFacts DEF TypeInv, TypeOK
  <2>4. rlen[r] <= Len(deltas[d].rows)
    BY <1>2, <2>2 DEF PrefixInv
  <2> HIDE DEF d
  <2> QED
    BY <1>2, <2>1, <2>2, <2>3, <2>4
<1> QED
  BY <1>1, <1>2, OtherThanReader

LEMMA NextKeepsPending ==
  ASSUME TypeInv, AnswerInv, [Next]_vars
  PROVE  AnswerInv'
<1> USE DEF AnswerInv
<1>1. ASSUME NEW w \in Writers, WriterNext(w) PROVE AnswerInv'
  <2>1. \A x \in Writers \ {w} : wpc'[x] = wpc[x] /\ wret'[x] = wret[x]
    BY <1>1 DEF WriterNext, AppendStep, AppendCall, AppendLock, AppendLoad, AppendCheck,
       AppendThrows, AppendPublish, AppendReturn, LeaveAppend, TypeInv, TypeOK, WriterType
  <2>2. wpc'[w] \in {"calling", "locked", "loaded", "open"} => wret'[w] = None
    BY <1>1 DEF WriterNext, AppendStep, AppendCall, AppendLock, AppendLoad, AppendCheck,
       AppendThrows, AppendPublish, AppendReturn, LeaveAppend, TypeInv, TypeOK, WriterType
  <2> QED
    BY <2>1, <2>2
<1>2. UNCHANGED writerVars => AnswerInv'
  BY DEF writerVars
<1>3. ASSUME NEW m \in Mergers, MergerNext(m) PROVE UNCHANGED writerVars
  BY <1>3, MergerFrame DEF mergerFrame
<1>4. ASSUME NEW r \in Readers, ReaderNext(r) PROVE UNCHANGED writerVars
  BY <1>4, ReaderFrame DEF readerFrame
<1>5. ASSUME NEW o \in Observers, ObserverNext(o) PROVE UNCHANGED writerVars
  BY <1>5, ObserverFrame DEF observerFrame
<1>6. UNCHANGED vars => UNCHANGED writerVars
  BY DEF vars
<1> QED
  BY <1>1, <1>2, <1>3, <1>4, <1>5, <1>6 DEF Next

\* While an append is past its check no delta is closed ...
LEMMA OpenKept ==
  ASSUME TypeInv, LockInv, CoreInv, FrozenInv, [Next]_vars, NEW w \in Writers,
         wpc'[w] = "open"
  PROVE  (~deltas[states[wst[w]].active].closed)'
<1>1. CASE WriterNext(w)
  <2>1. wst'[w] = wst[w] /\ ~deltas[states[wst[w]].active].closed
    BY <1>1 DEF WriterNext, AppendStep, AppendCall, AppendLock, AppendLoad, AppendCheck,
       AppendThrows, AppendPublish, AppendReturn, LeaveAppend, TypeInv, TypeOK, WriterType
  <2>2. UNCHANGED <<states, deltas>>
    BY <1>1 DEF WriterNext, AppendStep, AppendCall, AppendLock, AppendLoad, AppendCheck,
       AppendThrows, AppendPublish, AppendReturn, LeaveAppend, writerFrame, TypeInv, TypeOK,
       WriterType
  <2> QED
    BY <2>1, <2>2
<1>2. CASE wpc'[w] = wpc[w] /\ wst'[w] = wst[w]
  <2> DEFINE d == states[wst[w]].active
  <2>1. /\ wst[w] \in 1..Len(states) /\ d \in 1..Len(deltas)
        /\ ~deltas[d].closed /\ wpc[w] \in LockSteps
    BY <1>2, LoadedState DEF FrozenInv, StateSteps, LockSteps
  <2>2. states'[wst[w]].active = d
    BY <2>1, HeapGrows
  <2>3. deltas'[d].closed = deltas[d].closed
    <3>1. CASE UNCHANGED columnVars
      BY <3>1 DEF columnVars
    <3>2. CASE \E x \in Writers : AppendPublish(x)
      BY <2>1, <3>2, AppendPublishHeap DEF CoreInv
    <3>3. CASE \E m \in Mergers : Freeze(m)
      <4>1. \A m \in Mergers : ~Freeze(m)
        BY <2>1, Exclusion DEF Freeze, MergeStep, InHandoff
      <4> QED
        BY <3>3, <4>1
    <3>4. ASSUME NEW m \in Mergers, InstallHandoff(m) PROVE deltas'[d] = deltas[d]
      BY <2>1, <3>4, InstallHandoffHeap
    <3>5. ASSUME NEW m \in Mergers, Publish(m) PROVE deltas' = deltas
      BY <3>5 DEF Publish
    <3> QED
      BY <3>1, <3>2, <3>3, <3>4, <3>5, ColumnSteps
  <2> QED
    BY <1>2, <2>1, <2>2, <2>3
<1>3. WriterNext(w) \/ (wpc'[w] = wpc[w] /\ wst'[w] = wst[w])
  <2>1. UNCHANGED writerVars => wpc'[w] = wpc[w] /\ wst'[w] = wst[w]
    BY DEF writerVars
  <2>2. ASSUME NEW x \in Writers, WriterNext(x), x # w
        PROVE  wpc'[w] = wpc[w] /\ wst'[w] = wst[w]
    BY <2>2 DEF WriterNext, AppendStep, AppendCall, AppendLock, AppendLoad, AppendCheck,
       AppendThrows, AppendPublish, AppendReturn, LeaveAppend, TypeInv, TypeOK, WriterType
  <2>3. ASSUME NEW m \in Mergers, MergerNext(m) PROVE UNCHANGED writerVars
    BY <2>3, MergerFrame DEF mergerFrame
  <2>4. ASSUME NEW r \in Readers, ReaderNext(r) PROVE UNCHANGED writerVars
    BY <2>4, ReaderFrame DEF readerFrame
  <2>5. ASSUME NEW o \in Observers, ObserverNext(o) PROVE UNCHANGED writerVars
    BY <2>5, ObserverFrame DEF observerFrame
  <2>6. UNCHANGED vars => UNCHANGED writerVars
    BY DEF vars
  <2> QED
    BY <2>1, <2>2, <2>3, <2>4, <2>5, <2>6 DEF Next
<1> QED
  BY <1>1, <1>2, <1>3

\* ... a merger past its freeze finds the current delta closed ...
LEMMA FrozenKept ==
  ASSUME TypeInv, LockInv, CoreInv, FrozenInv, [Next]_vars, NEW m \in Mergers,
         mpc'[m] \in {"snapshot", "install"}
  PROVE  (deltas[states[current].active].closed)'
<1> DEFINE a == states[current].active
<1>1. a \in 1..Len(deltas) /\ current \in 1..Len(states)
  BY LoadedState
<1>2. CASE MergerNext(m)
  <2>1. Freeze(m) \/ FreezeSnapshot(m)
    BY <1>2 DEF MergerNext, HandoffStep, RebuildStep, MergeTryLock, MergeBegin, MergeRefused,
       HandoffLock, InstallHandoff, RetireInput, RecordInput, ReleaseInput, RetireHandoff,
       RecordHandoff, ReleaseHandoff, LockRetired, RecordRetired, ReleaseOld, EnterBuilding,
       Build, EnterPublishing, Publish, EnterRetired, EnterStable, Advance, Account, Sample,
       MergeReturn, MergeRejected, MergeThrows, LeaveMerge, MergeStep, TypeInv, TypeOK,
       MergerType
  <2>2. CASE Freeze(m)
    <3>1. job[m].input = current /\ UNCHANGED <<states, current>>
      BY <2>2 DEF Freeze, MergeStep, CoreInv, MergeInv, MergeKnows
    <3> QED
      BY <1>1, <2>2, <3>1, FreezeHeap
  <2>3. CASE FreezeSnapshot(m)
    BY <2>3 DEF FreezeSnapshot, MergeStep, columnVars, FrozenInv
  <2> QED
    BY <2>1, <2>2, <2>3
<1>3. CASE mpc'[m] = mpc[m]
  <2>1. deltas[a].closed /\ mpc[m] # "idle"
    BY <1>3 DEF FrozenInv
  <2>2. ~MergerNext(m) => UNCHANGED <<states, current>>
    <3>1. ASSUME NEW n \in Mergers, InstallHandoff(n) \/ Publish(n), n # m PROVE FALSE
      BY <2>1, <3>1, SoleMerger DEF MergerNext, HandoffStep, RebuildStep
    <3>2. \A w \in Writers : AppendPublish(w) => UNCHANGED <<states, current>>
      BY DEF AppendPublish, writerFrame
    <3>3. \A n \in Mergers : Freeze(n) => UNCHANGED <<states, current>>
      BY DEF Freeze
    <3> QED
      BY <3>1, <3>2, <3>3, ColumnSteps DEF MergerNext, HandoffStep, RebuildStep, columnVars
  <2>3. CASE ~MergerNext(m)
    BY <1>1, <2>1, <2>2, <2>3, HeapGrows
  <2> QED
    BY <1>2, <2>3
<1>4. MergerNext(m) \/ mpc'[m] = mpc[m]
  <2>1. UNCHANGED mergerVars => mpc'[m] = mpc[m]
    BY DEF mergerVars
  <2>2. ASSUME NEW n \in Mergers, MergerNext(n), n # m PROVE mpc'[m] = mpc[m]
    BY <2>2, SoleMerger
  <2>3. ASSUME NEW w \in Writers, WriterNext(w) PROVE UNCHANGED mergerVars
    BY <2>3, WriterFrame DEF writerFrame
  <2>4. ASSUME NEW r \in Readers, ReaderNext(r) PROVE UNCHANGED mergerVars
    BY <2>4, ReaderFrame DEF readerFrame
  <2>5. ASSUME NEW o \in Observers, ObserverNext(o) PROVE UNCHANGED mergerVars
    BY <2>5, ObserverFrame DEF observerFrame
  <2>6. UNCHANGED vars => UNCHANGED mergerVars
    BY DEF vars
  <2> QED
    BY <2>1, <2>2, <2>3, <2>4, <2>5, <2>6 DEF Next
<1> QED
  BY <1>2, <1>3, <1>4

LEMMA PublishKeepsActive ==
  ASSUME TypeInv, CoreInv, NEW m \in Mergers, Publish(m)
  PROVE  /\ states'[current'].active = states[current].active
         /\ states'[current'].base = states[current].base
<1>1. mpc[m] \in HandedOff
  BY DEF Publish, MergeStep, HandedOff
<1>2. states[current] = HandoffState(m, job[m].fresh)
  BY <1>1 DEF CoreInv, MergeInv, MergeKnows
<1>3. states'[current'] = PublishedState(m)
  BY PublishHeap
<1> QED
  BY <1>2, <1>3 DEF HandoffState, PublishedState

\* ... so that each delta that was replaced is closed for ever.
LEMMA ReplacedClosed ==
  ASSUME TypeInv, LockInv, CoreInv, FrozenInv, [Next]_vars,
         NEW i \in 1..Len(states'), states'[i].active # states'[current'].active
  PROVE  deltas'[states'[i].active].closed
<1>1. /\ current \in 1..Len(states) /\ Len(states) \in Nat
      /\ \A k \in 1..Len(states) : states[k].active \in 1..Len(deltas)
  BY LoadedState, HeapFacts DEF TypeInv, TypeOK
<1>2. ASSUME i \in 1..Len(states), deltas[states[i].active].closed
      PROVE  deltas'[states'[i].active].closed
  BY <1>1, <1>2, HeapGrows
<1>3. CASE UNCHANGED <<states, current>>
  BY <1>2, <1>3 DEF FrozenInv
<1>4. ASSUME NEW m \in Mergers, InstallHandoff(m) PROVE deltas'[states'[i].active].closed
  <2>1. Len(states') = Len(states) + 1 /\ current' = Len(states) + 1
    BY <1>4, InstallHandoffHeap
  <2>2. i \in 1..Len(states)
    BY <1>1, <2>1
  <2>3. mpc[m] = "install"
    BY <1>4 DEF InstallHandoff, MergeStep
  <2> QED
    BY <1>2, <2>2, <2>3 DEF FrozenInv
<1>5. ASSUME NEW m \in Mergers, Publish(m) PROVE deltas'[states'[i].active].closed
  <2>1. /\ Len(states') = Len(states) + 1 /\ current' = Len(states) + 1
        /\ \A k \in 1..Len(states) : states'[k] = states[k]
    BY <1>5, PublishHeap
  <2>2. i \in 1..Len(states) /\ states'[i] = states[i]
    BY <1>1, <2>1
  <2>3. states'[current'].active = states[current].active
    BY <1>5, PublishKeepsActive
  <2> QED
    BY <1>2, <2>2, <2>3 DEF FrozenInv
<1>6. \A w \in Writers : AppendPublish(w) => UNCHANGED <<states, current>>
  BY DEF AppendPublish, writerFrame
<1>7. \A m \in Mergers : Freeze(m) => UNCHANGED <<states, current>>
  BY DEF Freeze
<1> QED
  BY <1>3, <1>4, <1>5, <1>6, <1>7, ColumnSteps DEF columnVars

LEMMA NextKeepsFrozen ==
  ASSUME TypeInv, LockInv, CoreInv, FrozenInv, [Next]_vars
  PROVE  FrozenInv'
BY OpenKept, FrozenKept, ReplacedClosed DEF FrozenInv

LEMMA BelowBase ==
  ASSUME NEW s, NEW p, NEW q, NEW k, k < s.base
  PROVE  RowAt(s, p, k) = RowAt(s, q, k)
BY DEF RowAt

\* A publication puts the rows below the base of the active delta elsewhere, and
\* keeps them.
LEMMA PublishShares ==
  ASSUME TypeInv, LockInv, CoreInv, NEW m \in Mergers, Publish(m)
  PROVE  /\ states'[current'].active = states[current].active
         /\ SameRows(states[current], states'[current'])
<1> DEFINE s == states[current]
           t == states'[current']
           rows == deltas[s.active].rows
<1>1. deltas' = deltas
  BY DEF Publish
<1>2. t.active = s.active /\ t.base = s.base
  BY PublishKeepsActive
<1>3. s.base \in Nat /\ Len(rows) \in Nat /\ LogicalLen = s.base + Len(rows)
  BY CurrentState DEF CoreInv
<1>4. \A k : RowNow(k) = Canonical(RowAt(s, rows, k)) /\ RowNow(k)' = Canonical(RowAt(t, rows, k))
  BY <1>1, <1>2 DEF RowNow, ActiveRows
<1> HIDE DEF s, t, rows
<1>5. ASSUME NEW k \in 0..(s.base - 1)
      PROVE  Canonical(RowAt(s, << >>, k)) = Canonical(RowAt(t, << >>, k))
  <2>1. k \in Nat /\ k < s.base /\ k < t.base /\ k < LogicalLen
    BY <1>2, <1>3
  <2>2. RowNow(k)' = RowNow(k)
    BY <2>1, PublishKeepsRows
  <2>3. RowAt(s, << >>, k) = RowAt(s, rows, k) /\ RowAt(t, << >>, k) = RowAt(t, rows, k)
    BY <2>1, BelowBase
  <2> QED
    BY <1>4, <2>2, <2>3
<1> QED
  BY <1>2, <1>5 DEF SameRows, s, t

LEMMA NextKeepsShared ==
  ASSUME TypeInv, LockInv, CoreInv, SharedInv, [Next]_vars
  PROVE  SharedInv'
<1> SUFFICES ASSUME NEW i \in 1..Len(states'), states'[i].active = states'[current'].active
             PROVE  SameRows(states'[i], states'[current'])
  BY DEF SharedInv, SameRows
<1>1. /\ current \in 1..Len(states) /\ Len(states) \in Nat
      /\ \A k \in 1..Len(states) : states[k].active \in 1..Len(deltas)
      /\ Len(deltas) \in Nat
  BY LoadedState, HeapFacts DEF TypeInv, TypeOK
<1>2. \A s : SameRows(s, s)
  BY DEF SameRows
<1>3. CASE UNCHANGED <<states, current>>
  BY <1>3 DEF SharedInv
<1>4. ASSUME NEW m \in Mergers, InstallHandoff(m)
      PROVE  SameRows(states'[i], states'[current'])
  <2>1. /\ Len(states') = Len(states) + 1 /\ current' = Len(states) + 1
        /\ states'[current'] = HandoffState(m, Len(deltas) + 1)
        /\ \A k \in 1..Len(states) : states'[k] = states[k]
    BY <1>4, InstallHandoffHeap
  <2>2. states'[current'].active = Len(deltas) + 1
    BY <2>1 DEF HandoffState
  <2>3. i = current'
    BY <1>1, <2>1, <2>2
  <2> QED
    BY <1>2, <2>3
<1>5. ASSUME NEW m \in Mergers, Publish(m)
      PROVE  SameRows(states'[i], states'[current'])
  <2>1. /\ Len(states') = Len(states) + 1 /\ current' = Len(states) + 1
        /\ \A k \in 1..Len(states) : states'[k] = states[k]
    BY <1>5, PublishHeap
  <2>2. /\ states'[current'].active = states[current].active
        /\ SameRows(states[current], states'[current'])
    BY <1>5, PublishShares
  <2>3. CASE i \in 1..Len(states)
    <3>1. SameRows(states[i], states[current])
      BY <2>1, <2>2, <2>3 DEF SharedInv
    <3> QED
      BY <2>1, <2>2, <2>3, <3>1 DEF SameRows
  <2>4. CASE i = current'
    BY <1>2, <2>4
  <2> QED
    BY <1>1, <2>1, <2>3, <2>4
<1>6. \A w \in Writers : AppendPublish(w) => UNCHANGED <<states, current>>
  BY DEF AppendPublish, writerFrame
<1>7. \A m \in Mergers : Freeze(m) => UNCHANGED <<states, current>>
  BY DEF Freeze
<1> QED
  BY <1>3, <1>4, <1>5, <1>6, <1>7, ColumnSteps DEF columnVars

LEMMA NextKeepsLog ==
  ASSUME TypeInv, LockInv, CoreInv, LogInv, [Next]_vars
  PROVE  LogInv'
BY NextKeepsPrefixes, NextKeepsPending, NextKeepsFrozen, NextKeepsShared DEF LogInv

-----------------------------------------------------------------------------
(* The theorems *)

LEMMA InitInv == Init => TypeInv /\ LockInv /\ CoreInv /\ AnswerNamesItsRow
<1> SUFFICES ASSUME Init PROVE TypeInv /\ LockInv /\ CoreInv /\ AnswerNamesItsRow
  OBVIOUS
<1>1. TypeInv
  BY InitType
<1>2. LockInv
  BY ThreadsAssumption DEF Init, LockInv, InHandoff, InTelemetry, LockSteps, StateSteps
<1>3. Len(MainColumn(Initial)) = Len(Initial) /\ Len(Initial) \in Nat
  BY InitialAssumption, MainColumnType, LenProperties
<1>4. HeapInv
  <2>1. Len(states) = 1
    BY DEF Init
  <2>2. states[1].base = Len(Initial) /\ states[1].main = MainColumn(Initial)
    BY DEF Init
  <2>3. states[1].closed = NoDelta
    BY DEF Init
  <2>4. Covers(states[1])
    BY <1>3, <2>2, <2>3 DEF Covers, ClosedSize
  <2> QED
    BY <2>1, <2>4 DEF HeapInv
<1>5. RestInv /\ OpenInv
  <2>1. current = 1 /\ states[1].closed = NoDelta /\ states[1].active = 1
    BY DEF Init
  <2>2. deltas[1].closed = FALSE
    BY DEF Init
  <2>3. RestInv
    BY <2>1 DEF RestInv
  <2>4. OpenInv
    BY <2>1, <2>2 DEF OpenInv
  <2> QED
    BY <2>3, <2>4
<1>6. MergeInv
  BY DEF Init, MergeInv, PhaseFits, MergeKnows, ClosedSteps, FreshSteps, HandedOff,
     PublishedSteps, BuiltSteps
<1>7. WriterInv /\ AnswerNamesItsRow
  BY DEF Init, WriterInv, StateSteps, AnswerNamesItsRow
<1> QED
  BY <1>1, <1>2, <1>4, <1>5, <1>6, <1>7 DEF CoreInv

LEMMA InitLog == Init => LogInv
<1> SUFFICES ASSUME Init PROVE LogInv
  OBVIOUS
<1>1. PrefixInv /\ AnswerInv
  BY DEF Init, PrefixInv, AnswerInv
<1>2. Len(states) = 1 /\ current = 1
  BY DEF Init
<1>3. FrozenInv
  BY <1>2 DEF Init, FrozenInv
<1>4. SharedInv
  BY <1>2 DEF SharedInv, SameRows
<1> QED
  BY <1>1, <1>3, <1>4 DEF LogInv

\* The inductive invariant: mutexes, phases, heap, what a merger and a writer
\* know, and the answers given, step by step.
THEOREM InductiveInvariant == Spec => []IInv
<1>1. IInv <=> TypeInv /\ LockInv /\ CoreInv /\ AnswerNamesItsRow /\ LogInv
  BY DEF IInv, CoreInv
<1>2. Init => IInv
  BY <1>1, InitInv, InitLog
<1>3. IInv /\ [Next]_vars => IInv'
  <2> SUFFICES ASSUME TypeInv, LockInv, CoreInv, AnswerNamesItsRow, LogInv, [Next]_vars
               PROVE  TypeInv' /\ LockInv' /\ CoreInv' /\ AnswerNamesItsRow' /\ LogInv'
    BY <1>1 DEF IInv, CoreInv
  <2> QED
    BY NextKeepsType, NextKeepsLocks, NextKeepsCore, NextKeepsAnswers, NextKeepsLog
<1> QED
  BY <1>2, <1>3, PTL DEF Spec

\* The RowId an append returned names its row for ever, whatever merges do.
THEOREM AnswersStayTrue == Spec => []AnswerNamesItsRow
<1>1. IInv => AnswerNamesItsRow
  BY DEF IInv
<1> QED
  BY <1>1, InductiveInvariant, PTL

\* The asserts of GenerationReadView hold for every state in use: main, closed
\* delta and active prefix partition the row space.
THEOREM RowSpaceIsCovered == Spec => []RowSpaceCovered
<1>1. IInv => RowSpaceCovered
  <2> SUFFICES ASSUME IInv PROVE RowSpaceCovered
    OBVIOUS
  <2>1. current \in 1..Len(states) /\ \A i \in Ref \ {0} : i \in 1..Len(states)
    BY HeapFacts DEF IInv, TypeInv, TypeOK
  <2>2. /\ \A r \in Readers : rst[r] \in Ref
        /\ \A w \in Writers : wst[w] \in Ref
    BY DEF IInv, TypeInv, TypeOK, ReaderType, WriterType
  <2> QED
    BY <2>1, <2>2 DEF IInv, HeapInv, RowSpaceCovered
<1> QED
  BY <1>1, InductiveInvariant, PTL

\* No handoff overwrites a closed delta that no main has yet, not even when an
\* earlier merge has thrown.
THEOREM NoHandoffDropsRows == Spec => []HandoffDropsNothing
<1>1. IInv => HandoffDropsNothing
  BY RestKnown DEF IInv, MergeInv, MergeKnows, HandoffDropsNothing
<1> QED
  BY <1>1, InductiveInvariant, PTL

\* The unconditional exchange of a publication replaces the handoff state of the
\* same merge, and the active delta it carries over is the one in use.
THEOREM PublishIsSafe == Spec => []PublishReplacesItsHandoff
<1>1. IInv => PublishReplacesItsHandoff
  BY DEF IInv, MergeInv, MergeKnows, HandedOff, PublishReplacesItsHandoff
<1> QED
  BY <1>1, InductiveInvariant, PTL

\* If nothing throws but a dictionary that meets an unsupported value, no append
\* ever fails because its delta is closed.
THEOREM AppendsFindOpenDelta ==
  ASSUME MayThrow = FALSE
  PROVE  Spec => []AppendFindsOpenDelta
<1>1. IInv => AppendFindsOpenDelta
  <2> SUFFICES ASSUME IInv, NEW w \in Writers, wpc[w] \in {"loaded", "open"}
               PROVE  ~deltas[states[wst[w]].active].closed
    BY DEF AppendFindsOpenDelta
  <2>1. states[wst[w]].active = states[current].active
    BY DEF IInv, WriterInv, StateSteps
  <2>2. \A m \in Mergers : mpc[m] \notin InHandoff
    BY ThreadsAssumption DEF IInv, LockInv, LockSteps, StateSteps
  <2>3. ~deltas[states[current].active].closed
    BY <2>2 DEF IInv, OpenInv, InHandoff
  <2> QED
    BY <2>1, <2>3
<1> QED
  BY <1>1, InductiveInvariant, PTL

\* Every step keeps every logical row and its RowId.
THEOREM RowsStayPut == Spec => RowsKept
<1>1. IInv /\ [Next]_vars =>
        [\A i \in 0..(LogicalLen - 1) : i < LogicalLen' /\ RowNow(i)' = RowNow(i)]_vars
  <2> SUFFICES ASSUME IInv, [Next]_vars, NEW i \in 0..(LogicalLen - 1)
               PROVE  i < LogicalLen' /\ RowNow(i)' = RowNow(i)
    OBVIOUS
  <2>1. LogicalLen \in Nat
    BY CurrentState DEF IInv
  <2>2. TypeInv /\ LockInv /\ CoreInv
    BY DEF IInv, CoreInv
  <2>3. i \in Nat /\ i < LogicalLen
    BY <2>1
  <2> QED
    BY <2>2, <2>3, NextKeepsRows
<1> QED
  BY <1>1, InductiveInvariant, PTL DEF Spec, RowsKept
=============================================================================
