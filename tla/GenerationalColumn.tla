------------------------- MODULE GenerationalColumn -------------------------
(***************************************************************************)
(* GenerationalColumn<T> (src/susano/generational_column.hpp): writers     *)
(* append, readers acquire views and merge_once folds the active delta     *)
(* into a new main, all at the same time.  One action per step another     *)
(* thread can observe: a lock, an atomic load or exchange, a publication.  *)
(*                                                                         *)
(* states is the heap of GenerationState objects and deltas the heap of    *)
(* ConcurrentDeltaColumns; a reference is an index, 0 the null reference.  *)
(* A delta's append and snapshot are atomic here: the release store and    *)
(* acquire load of visible_size_.                                          *)
(***************************************************************************)
EXTENDS GenerationReadView, FiniteSets

CONSTANTS
  Writers, Readers, Mergers, Observers,   \* the calling threads
  NoThread,        \* the owner of a free mutex
  None,            \* "no row", "no RowId", "no snapshot field yet"
  Initial,         \* the rows of the FixedColumn the column is built from
  MaxRows,         \* bound on the logical rows
  MaxMerges,       \* bound on the merges started
  MayThrow         \* whether allocations and hooks may throw

ASSUME ThreadsAssumption ==
  /\ \A threads \in {Writers, Readers, Observers} : threads \cap Mergers = {}
  /\ NoThread \notin Writers \cup Mergers \cup Observers
  /\ None \notin Row \cup Nat \cup Seq(Row)

ASSUME InitialAssumption == Initial \in Seq(Row) /\ Encodable(Initial)

ASSUME BoundsAssumption ==
  MaxRows \in Nat /\ MaxMerges \in Nat /\ MayThrow \in BOOLEAN

VARIABLES
  states, deltas,
  current,          \* current_
  phase,            \* lifecycle_
  handoffLock, mergeLock, telemetryLock,
  wpc, wrow, wst, wret,     \* append: step, argument, loaded state, RowId
  rpc, rst, rlen,           \* acquire_read_view: step, state, prefix size
  mpc, job,                 \* merge_once: step, locals
  retired, reclaimed, peakRetired,   \* retired_ (entries are unique: a set)
  merges, rowsMerged,       \* handoff_, build_ and publication_count_ move as one
  opc, ost, snap            \* telemetry(): step, loaded state, result

columnVars == <<states, deltas, current>>
lockVars == <<handoffLock, mergeLock, telemetryLock>>
writerVars == <<wpc, wrow, wst, wret>>
readerVars == <<rpc, rst, rlen>>
mergerVars == <<mpc, job>>
retireVars == <<retired, reclaimed, peakRetired>>
countVars == <<merges, rowsMerged>>
observerVars == <<opc, ost, snap>>

vars == <<columnVars, phase, lockVars, writerVars, readerVars, mergerVars,
          retireVars, countVars, observerVars>>

\* What the steps of a kind of thread never change.
writerFrame == <<states, current, phase, mergeLock, telemetryLock, readerVars,
                 mergerVars, retireVars, countVars, observerVars>>
readerFrame == <<columnVars, phase, lockVars, writerVars, mergerVars, retireVars,
                 countVars, observerVars>>
mergerFrame == <<writerVars, readerVars, observerVars>>
observerFrame == <<columnVars, phase, handoffLock, mergeLock, writerVars, readerVars,
                   mergerVars, peakRetired, countVars>>

Lifecycle == INSTANCE MergeLifecycle

NoJob == [input |-> 0, old |-> 0, closed |-> NoDelta, fresh |-> 0,
          base |-> 0, built |-> << >>]
NoSnap == [generation |-> None, phase |-> None, merges |-> None, closedRows |-> None,
           activeRows |-> None, retiredCount |-> None, oldest |-> None]

ActiveRows(i) == deltas[states[i].active].rows
LogicalLen == LogicalSize(states[current], Len(ActiveRows(current)))

Init ==
  /\ states = << [generation |-> 0, main |-> MainColumn(Initial), closed |-> NoDelta,
                  active |-> 1, base |-> Len(Initial)] >>
  /\ deltas = << [rows |-> << >>, closed |-> FALSE] >>
  /\ current = 1
  /\ Lifecycle!InitLifecycle
  /\ handoffLock = NoThread /\ mergeLock = NoThread /\ telemetryLock = NoThread
  /\ wpc = [w \in Writers |-> "idle"] /\ wrow = [w \in Writers |-> None]
  /\ wst = [w \in Writers |-> 0] /\ wret = [w \in Writers |-> None]
  /\ rpc = [r \in Readers |-> "idle"] /\ rst = [r \in Readers |-> 0]
  /\ rlen = [r \in Readers |-> 0]
  /\ mpc = [m \in Mergers |-> "idle"] /\ job = [m \in Mergers |-> NoJob]
  /\ retired = {} /\ reclaimed = 0 /\ peakRetired = 0
  /\ merges = 0 /\ rowsMerged = 0
  /\ opc = [o \in Observers |-> "idle"] /\ ost = [o \in Observers |-> 0]
  /\ snap = [o \in Observers |-> NoSnap]

-----------------------------------------------------------------------------
(* append / append_null *)

AppendCall(w, row) ==
  /\ wpc[w] = "idle"
  /\ LogicalLen + Cardinality({x \in Writers : wpc[x] # "idle"}) < MaxRows
  /\ wpc' = [wpc EXCEPT ![w] = "calling"]
  /\ wrow' = [wrow EXCEPT ![w] = row]
  /\ wret' = [wret EXCEPT ![w] = None]
  /\ UNCHANGED <<writerFrame, deltas, handoffLock, wst>>

\* Seeded fault: append does not wait for handoff_mutex_.
AppendLock_Unlocked(w) ==
  /\ wpc[w] = "calling"
  /\ wpc' = [wpc EXCEPT ![w] = "locked"]
  /\ UNCHANGED <<writerFrame, deltas, handoffLock, wrow, wst, wret>>

AppendLock(w) ==
  /\ wpc[w] = "calling"
  /\ handoffLock = NoThread
  /\ handoffLock' = w
  /\ wpc' = [wpc EXCEPT ![w] = "locked"]
  /\ UNCHANGED <<writerFrame, deltas, wrow, wst, wret>>

AppendLoad(w) ==
  /\ wpc[w] = "locked"
  /\ wst' = [wst EXCEPT ![w] = current]
  /\ wpc' = [wpc EXCEPT ![w] = "loaded"]
  /\ UNCHANGED <<writerFrame, deltas, handoffLock, wrow, wret>>

\* append_impl finds the delta open.
AppendCheck(w) ==
  /\ wpc[w] = "loaded"
  /\ ~deltas[states[wst[w]].active].closed
  /\ wpc' = [wpc EXCEPT ![w] = "open"]
  /\ UNCHANGED <<writerFrame, deltas, handoffLock, wrow, wst, wret>>

\* Seeded fault: the handoff mutex is not given back.
UnlockHandoff_Kept == UNCHANGED handoffLock

UnlockHandoff == handoffLock' = NoThread

\* The mutex and the loaded state are released on a return and on a throw.
LeaveAppend(w) ==
  /\ UnlockHandoff
  /\ wpc' = [wpc EXCEPT ![w] = "idle"]
  /\ wst' = [wst EXCEPT ![w] = 0]
  /\ UNCHANGED <<writerFrame, deltas, wrow, wret>>

\* append_impl throws: the delta is closed, or a chunk cannot be allocated.
AppendThrows(w) ==
  /\ \/ wpc[w] = "loaded" /\ deltas[states[wst[w]].active].closed
     \/ wpc[w] = "open" /\ MayThrow
  /\ LeaveAppend(w)

\* Seeded faults: the base of the delta is left out; the size is taken for the
\* offset of the row before it.
RowIdOf_LocalOffset(s, offset) == offset
RowIdOf_OffByOne(s, offset) == s.base + offset - 1

\* The RowId of an offset in the active delta of a state.
RowIdOf(s, offset) == s.base + offset

\* The release store of visible_size_ publishes the row.
AppendPublish(w) ==
  LET s == states[wst[w]]
      rows == deltas[s.active].rows
  IN  /\ wpc[w] = "open"
      /\ deltas' = [deltas EXCEPT ![s.active].rows = Append(rows, wrow[w])]
      /\ wret' = [wret EXCEPT ![w] = RowIdOf(s, Len(rows))]
      /\ wpc' = [wpc EXCEPT ![w] = "published"]
      /\ UNCHANGED <<writerFrame, handoffLock, wrow, wst>>

AppendReturn(w) == wpc[w] = "published" /\ LeaveAppend(w)

-----------------------------------------------------------------------------
(* acquire_read_view, and dropping the view *)

ReadStep(r, from, to) ==
  /\ rpc[r] = from
  /\ rpc' = [rpc EXCEPT ![r] = to]
  /\ UNCHANGED readerFrame

ReadCall(r) == ReadStep(r, "idle", "calling") /\ UNCHANGED <<rst, rlen>>

ReadLoad(r) ==
  /\ ReadStep(r, "calling", "loaded")
  /\ rst' = [rst EXCEPT ![r] = current]
  /\ UNCHANGED rlen

\* snapshot(): the acquire load of visible_size_.
ReadPrefix(r) ==
  /\ ReadStep(r, "loaded", "sized")
  /\ rlen' = [rlen EXCEPT ![r] = Len(ActiveRows(rst[r]))]
  /\ UNCHANGED rst

\* The chunk references are copied and the view is returned.
ReadReturn(r) == ReadStep(r, "sized", "view") /\ UNCHANGED <<rst, rlen>>

\* The state and the prefix are released.
LeaveRead(r) == rst' = [rst EXCEPT ![r] = 0] /\ rlen' = [rlen EXCEPT ![r] = 0]

\* The vector of chunk references cannot be reserved.
ReadThrows(r) == MayThrow /\ ReadStep(r, "sized", "idle") /\ LeaveRead(r)

DropView(r) == ReadStep(r, "view", "idle") /\ LeaveRead(r)

-----------------------------------------------------------------------------
(* retired_: weak references to the states that left current_ *)

\* Seeded fault: only the readers' references keep a state alive.
Held_ReadersOnly(i) == current = i \/ \E r \in Readers : rst[r] = i

\* Some shared_ptr to the state is alive, so its weak_ptr has not expired.
Held(i) ==
  \/ current = i
  \/ \E w \in Writers : wst[w] = i
  \/ \E r \in Readers : rst[r] = i
  \/ \E m \in Mergers : i \in {job[m].input, job[m].old}
  \/ \E o \in Observers : ost[o] = i

\* Seeded fault: no entry is ever found expired.
Unexpired_All == retired

Unexpired == {i \in retired : Held(i)}

\* Seeded fault: erased entries are not counted.
CountReclaimed_Not == UNCHANGED reclaimed

\* cleanup_retired_locked() counts the entries it erases.
CountReclaimed == reclaimed' = reclaimed + Cardinality(retired \ Unexpired)

\* cleanup_retired_locked(): expired entries go.
CleanupRetired == retired' = Unexpired /\ CountReclaimed

\* Seeded fault: the telemetry mutex is not given back.
UnlockTelemetry_Kept == UNCHANGED telemetryLock

UnlockTelemetry == telemetryLock' = NoThread

-----------------------------------------------------------------------------
(* merge_once *)

MergeStep(m, from, to) ==
  /\ mpc[m] = from
  /\ mpc' = [mpc EXCEPT ![m] = to]

\* Seeded fault: the phase alone keeps a second merge out.
MergeTryLock_NotHeld(m) ==
  /\ MergeStep(m, "idle", "entered")
  /\ Len(states) < 1 + 2 * MaxMerges
  /\ UNCHANGED <<mergerFrame, columnVars, phase, lockVars, job, retireVars, countVars>>

\* A failed try_lock returns false and changes nothing: no step.
MergeTryLock(m) ==
  /\ MergeStep(m, "idle", "entered")
  /\ mergeLock = NoThread
  /\ Len(states) < 1 + 2 * MaxMerges
  /\ mergeLock' = m
  /\ UNCHANGED <<mergerFrame, columnVars, phase, handoffLock, telemetryLock, job,
                 retireVars, countVars>>

MergeBegin(m) ==
  /\ MergeStep(m, "entered", "handoff")
  /\ Lifecycle!Succeeds("Stable", "Handoff")
  /\ Lifecycle!Transition("Stable", "Handoff")
  /\ UNCHANGED <<mergerFrame, columnVars, lockVars, job, retireVars, countVars>>

\* Seeded fault: a throw under telemetry_mutex_ does not give it back.
UnwindTelemetry_Kept(m) == UNCHANGED telemetryLock

UnwindTelemetry(m) ==
  telemetryLock' = IF telemetryLock = m THEN NoThread ELSE telemetryLock

\* Leaving merge_once, normally or by a throw, releases locks and locals.
LeaveMerge(m) ==
  /\ mpc' = [mpc EXCEPT ![m] = "idle"]
  /\ job' = [job EXCEPT ![m] = NoJob]
  /\ mergeLock' = NoThread
  /\ handoffLock' = IF handoffLock = m THEN NoThread ELSE handoffLock
  /\ UnwindTelemetry(m)

\* A phase other than Stable: merge_once returns false.
MergeRefused(m) ==
  /\ mpc[m] = "entered"
  /\ ~Lifecycle!Succeeds("Stable", "Handoff")
  /\ LeaveMerge(m)
  /\ UNCHANGED <<mergerFrame, columnVars, phase, retireVars, countVars>>

HandoffLock(m) ==
  /\ MergeStep(m, "handoff", "freeze")
  /\ handoffLock = NoThread
  /\ handoffLock' = m
  /\ job' = [job EXCEPT ![m].input = current]
  /\ UNCHANGED <<mergerFrame, columnVars, phase, mergeLock, telemetryLock, retireVars,
                 countVars>>

\* freeze(): closed_ is exchanged to true.
Freeze(m) ==
  LET active == states[job[m].input].active
  IN  /\ MergeStep(m, "freeze", "snapshot")
      /\ ~deltas[active].closed
      /\ deltas' = [deltas EXCEPT ![active].closed = TRUE]
      /\ UNCHANGED <<mergerFrame, states, current, phase, lockVars, job, retireVars,
                     countVars>>

\* Seeded fault: the fresh delta starts at the RowId the closed one starts at.
FreshBase_Stale(s, rows) == s.base

\* fresh_base: the RowId after the last frozen row.
FreshBase(s, rows) == s.base + Len(rows)

\* freeze(): the frozen prefix.
FreezeSnapshot(m) ==
  LET s == states[job[m].input]
      rows == deltas[s.active].rows
  IN  /\ MergeStep(m, "snapshot", "install")
      /\ job' = [job EXCEPT ![m].closed = [base |-> s.base, rows |-> rows],
                            ![m].base = FreshBase(s, rows)]
      /\ UNCHANGED <<mergerFrame, columnVars, phase, lockVars, retireVars, countVars>>

\* The state installed by the handoff, its active delta being delta d.
HandoffState(m, d) ==
  LET s == states[job[m].input]
  IN  [generation |-> s.generation, main |-> s.main, closed |-> job[m].closed,
       active |-> d, base |-> job[m].base]

\* current_.exchange: the new state takes over and the old one is kept in "retired".
Exchange(m, s) ==
  /\ states' = Append(states, s)
  /\ current' = Len(states) + 1

\* Seeded fault: the handoff state goes on using the frozen delta.
NextActive_Frozen(m) == states[job[m].input].active

\* The fresh delta, allocated next.
NextActive(m) == Len(deltas) + 1

InstallHandoff(m) ==
  /\ MergeStep(m, "install", "retireInput")
  /\ deltas' = Append(deltas, [rows |-> << >>, closed |-> FALSE])
  /\ Exchange(m, HandoffState(m, NextActive(m)))
  /\ job' = [job EXCEPT ![m].fresh = Len(deltas) + 1, ![m].old = current]
  /\ UNCHANGED <<mergerFrame, phase, lockVars, retireVars, countVars>>

\* retire_state(), first half: the mutex is taken and expired entries go.
LockRetired(m, from, to) ==
  /\ MergeStep(m, from, to)
  /\ telemetryLock = NoThread
  /\ telemetryLock' = m
  /\ CleanupRetired
  /\ UNCHANGED <<mergerFrame, columnVars, phase, handoffLock, mergeLock, job,
                 peakRetired, countVars>>

\* retire_state(), second half: the state that was exchanged out is put on record.
RecordRetired(m, from, to) ==
  LET recorded == retired \cup {job[m].old}
      size == Cardinality(recorded)
  IN  /\ MergeStep(m, from, to)
      /\ retired' = recorded
      /\ peakRetired' = IF size > peakRetired THEN size ELSE peakRetired
      /\ UnlockTelemetry
      /\ UNCHANGED <<mergerFrame, columnVars, phase, handoffLock, mergeLock, job,
                     reclaimed, countVars>>

\* The argument of retire_state goes after its mutex.
ReleaseOld(m, from, to) ==
  /\ MergeStep(m, from, to)
  /\ job' = [job EXCEPT ![m].old = 0]
  /\ UNCHANGED <<mergerFrame, columnVars, phase, mergeLock, telemetryLock, retireVars,
                 countVars>>

RetireInput(m) == LockRetired(m, "retireInput", "recordInput")
RecordInput(m) == RecordRetired(m, "recordInput", "releaseInput")

\* The critical section of the handoff ends.
ReleaseInput(m) == ReleaseOld(m, "releaseInput", "handedOff") /\ UnlockHandoff

\* A lifecycle step whose result is discarded.
Advance(m, from, to, expected, next) ==
  /\ MergeStep(m, from, to)
  /\ Lifecycle!Transition(expected, next)
  /\ UNCHANGED <<mergerFrame, columnVars, lockVars, job, retireVars, countVars>>

EnterBuilding(m) == Advance(m, "handedOff", "build", "Handoff", "Building")

\* Seeded fault: the closed rows go in front of the main's.
RawRows_ClosedFirst(m) == job[m].closed.rows \o states[job[m].input].main

\* build_main copies the main, then the closed delta, into a FixedColumn.
RawRows(m) == states[job[m].input].main \o job[m].closed.rows

Build(m) ==
  /\ MergeStep(m, "build", "built")
  /\ Encodable(RawRows(m))
  /\ job' = [job EXCEPT ![m].built = MainColumn(RawRows(m))]
  /\ UNCHANGED <<mergerFrame, columnVars, phase, lockVars, retireVars, countVars>>

EnterPublishing(m) == Advance(m, "built", "publish", "Building", "Publishing")

\* Seeded fault: the merged delta stays in the published state.
PublishedState_KeepsClosed(m) ==
  [generation |-> states[job[m].input].generation + 1, main |-> job[m].built,
   closed |-> job[m].closed, active |-> job[m].fresh, base |-> job[m].base]

\* The state of the next generation: new main, no closed delta, same active delta.
PublishedState(m) ==
  [generation |-> states[job[m].input].generation + 1, main |-> job[m].built,
   closed |-> NoDelta, active |-> job[m].fresh, base |-> job[m].base]

Publish(m) ==
  /\ MergeStep(m, "publish", "retireHandoff")
  /\ Exchange(m, PublishedState(m))
  /\ job' = [job EXCEPT ![m].old = current]
  /\ UNCHANGED <<mergerFrame, deltas, phase, lockVars, retireVars, countVars>>

RetireHandoff(m) == LockRetired(m, "retireHandoff", "recordHandoff")
RecordHandoff(m) == RecordRetired(m, "recordHandoff", "releaseHandoff")

ReleaseHandoff(m) ==
  ReleaseOld(m, "releaseHandoff", "published") /\ UNCHANGED handoffLock

EnterRetired(m) == Advance(m, "published", "retired", "Publishing", "Retired")
EnterStable(m) == Advance(m, "retired", "account", "Retired", "Stable")

\* Seeded fault: the rows of the rebuilt main are counted.
MergedRows_Rebuilt(m) == Len(job[m].built)

MergedRows(m) == Len(job[m].closed.rows)

\* The counters move first, under the mutex.
Account(m) ==
  /\ MergeStep(m, "account", "sample")
  /\ telemetryLock = NoThread
  /\ telemetryLock' = m
  /\ merges' = merges + 1
  /\ rowsMerged' = rowsMerged + MergedRows(m)
  /\ UNCHANGED <<mergerFrame, columnVars, phase, handoffLock, mergeLock, job, retireVars>>

\* The timing sample is stored and the mutex given back.
Sample(m) ==
  /\ MergeStep(m, "sample", "return")
  /\ UnlockTelemetry
  /\ UNCHANGED <<mergerFrame, columnVars, phase, handoffLock, mergeLock, job, retireVars,
                 countVars>>

MergeReturn(m) ==
  /\ mpc[m] = "return"
  /\ LeaveMerge(m)
  /\ UNCHANGED <<mergerFrame, columnVars, phase, retireVars, countVars>>

\* freeze() on a closed delta, or a dictionary that meets NaN or an infinity.
MergeRejected(m) ==
  /\ \/ mpc[m] = "freeze" /\ deltas[states[job[m].input].active].closed
     \/ mpc[m] = "build" /\ ~Encodable(RawRows(m))
  /\ LeaveMerge(m)
  /\ UNCHANGED <<mergerFrame, columnVars, phase, retireVars, countVars>>

\* An allocation or a hook throws: the phase stays what it is, Stable again only
\* where the timing sample cannot be stored.
MergeThrows(m) ==
  /\ MayThrow
  /\ mpc[m] \in {"snapshot", "install", "recordInput", "build", "publish",
                 "recordHandoff", "published", "sample"}
  /\ LeaveMerge(m)
  /\ UNCHANGED <<mergerFrame, columnVars, phase, retireVars, countVars>>

-----------------------------------------------------------------------------
(* telemetry() *)

ObserveStep(o, from, to) ==
  /\ opc[o] = from
  /\ opc' = [opc EXCEPT ![o] = to]
  /\ UNCHANGED observerFrame

ObserveLoad(o) ==
  /\ ObserveStep(o, "idle", "loaded")
  /\ ost' = [ost EXCEPT ![o] = current]
  /\ snap' = [snap EXCEPT ![o] = NoSnap]
  /\ UNCHANGED <<telemetryLock, retired, reclaimed>>

ObserveCleanup(o) ==
  /\ ObserveStep(o, "loaded", "cleaned")
  /\ telemetryLock = NoThread
  /\ telemetryLock' = o
  /\ CleanupRetired
  /\ UNCHANGED <<ost, snap>>

\* The oldest generation whose retired state is still referenced.
OldestRetired ==
  IF Unexpired = {} THEN None
  ELSE CHOOSE g \in {states[i].generation : i \in Unexpired} :
         \A i \in Unexpired : g <= states[i].generation

\* The scan of retired_, then generation, phase, counts and closed rows.
ObserveRead(o) ==
  /\ ObserveStep(o, "cleaned", "read")
  /\ snap' = [snap EXCEPT ![o] =
       [NoSnap EXCEPT !.oldest = OldestRetired,
                      !.generation = states[ost[o]].generation,
                      !.phase = phase,
                      !.merges = merges,
                      !.closedRows = ClosedSize(states[ost[o]])]]
  /\ UNCHANGED <<ost, telemetryLock, retired, reclaimed>>

\* The mutex is given back on a return and on a throw.
LeaveObserve(o) ==
  /\ ObserveStep(o, "read", "unlocked")
  /\ UnlockTelemetry
  /\ UNCHANGED <<ost, retired, reclaimed>>

ObserveReturn(o) ==
  /\ LeaveObserve(o)
  /\ snap' = [snap EXCEPT ![o].activeRows = Len(ActiveRows(ost[o])),
                          ![o].retiredCount = Cardinality(retired)]

\* The timings cannot be copied.
ObserveThrows(o) ==
  /\ MayThrow
  /\ LeaveObserve(o)
  /\ snap' = [snap EXCEPT ![o] = NoSnap]

\* The loaded state goes after the mutex.
ObserveRelease(o) ==
  /\ ObserveStep(o, "unlocked", "idle")
  /\ ost' = [ost EXCEPT ![o] = 0]
  /\ UNCHANGED <<snap, telemetryLock, retired, reclaimed>>

-----------------------------------------------------------------------------
AppendStep(w) ==
  \/ AppendLoad(w) \/ AppendCheck(w) \/ AppendThrows(w)
  \/ AppendPublish(w) \/ AppendReturn(w)

WriterNext(w) == (\E row \in Row : AppendCall(w, row)) \/ AppendLock(w) \/ AppendStep(w)

ReaderNext(r) ==
  \/ ReadCall(r) \/ ReadLoad(r) \/ ReadPrefix(r) \/ ReadReturn(r) \/ ReadThrows(r)
  \/ DropView(r)

\* The steps of merge_once under handoff_mutex_.
HandoffStep(m) ==
  \/ Freeze(m) \/ FreezeSnapshot(m) \/ InstallHandoff(m)
  \/ RetireInput(m) \/ RecordInput(m) \/ ReleaseInput(m)

RebuildStep(m) ==
  \/ EnterBuilding(m) \/ Build(m) \/ EnterPublishing(m) \/ Publish(m)
  \/ RetireHandoff(m) \/ RecordHandoff(m) \/ ReleaseHandoff(m)
  \/ EnterRetired(m) \/ EnterStable(m) \/ Account(m) \/ Sample(m) \/ MergeReturn(m)

MergerNext(m) ==
  \/ MergeTryLock(m) \/ MergeBegin(m) \/ MergeRefused(m) \/ HandoffLock(m)
  \/ HandoffStep(m) \/ RebuildStep(m) \/ MergeRejected(m) \/ MergeThrows(m)

ObserverNext(o) ==
  \/ ObserveLoad(o) \/ ObserveCleanup(o) \/ ObserveRead(o)
  \/ ObserveReturn(o) \/ ObserveThrows(o) \/ ObserveRelease(o)

Next ==
  \/ \E w \in Writers : WriterNext(w)
  \/ \E r \in Readers : ReaderNext(r)
  \/ \E m \in Mergers : MergerNext(m)
  \/ \E o \in Observers : ObserverNext(o)

Spec == Init /\ [][Next]_vars
=============================================================================
