----------------------- MODULE GenerationalColumnProps ----------------------
(***************************************************************************)
(* What GenerationalColumn is expected to guarantee: a type invariant,     *)
(* safety invariants, action properties, the abstract log it implements    *)
(* and progress under the fairness of a preemptive scheduler.              *)
(***************************************************************************)
EXTENDS GenerationalColumn

Ref == 0..Len(states)
Job == [input : Ref, old : Ref, closed : ClosedDelta \cup {NoDelta},
        fresh : Nat, base : Nat, built : Seq(Row)]

HeapType ==
  /\ states \in Seq(GenerationState)
  /\ deltas \in Seq([rows : Seq(Row), closed : BOOLEAN])
  /\ current \in 1..Len(states)
  /\ \A i \in 1..Len(states) : states[i].active \in 1..Len(deltas)

LockType ==
  /\ phase \in Lifecycle!MergePhase
  /\ handoffLock \in Writers \cup Mergers \cup {NoThread}
  /\ mergeLock \in Mergers \cup {NoThread}
  /\ telemetryLock \in Observers \cup Mergers \cup {NoThread}

WriterType ==
  /\ wpc \in [Writers -> {"idle", "calling", "locked", "loaded", "open", "published"}]
  /\ wrow \in [Writers -> Row \cup {None}]
  /\ wst \in [Writers -> Ref]
  /\ wret \in [Writers -> Nat \cup {None}]

ReaderType ==
  /\ rpc \in [Readers -> {"idle", "calling", "loaded", "sized", "view"}]
  /\ rst \in [Readers -> Ref]
  /\ rlen \in [Readers -> Nat]

MergerType ==
  /\ mpc \in [Mergers -> {"idle", "entered", "handoff", "freeze", "snapshot",
                          "install", "retireInput", "recordInput", "releaseInput",
                          "handedOff", "build", "built", "publish", "retireHandoff",
                          "recordHandoff", "releaseHandoff", "published", "retired",
                          "account", "sample", "return"}]
  /\ job \in [Mergers -> Job]

RetireType ==
  /\ retired \in SUBSET (1..Len(states))
  /\ reclaimed \in Nat /\ peakRetired \in Nat
  /\ merges \in Nat /\ rowsMerged \in Nat

ObserverType ==
  /\ opc \in [Observers -> {"idle", "loaded", "cleaned", "read", "unlocked"}]
  /\ ost \in [Observers -> Ref]

\* Every variable has its type, and every reference is null or allocated.
TypeOK ==
  /\ HeapType /\ LockType /\ WriterType /\ ReaderType /\ MergerType
  /\ RetireType /\ ObserverType

-----------------------------------------------------------------------------
(* The abstract log *)

ViewRows(r, n) == LogicalRows(states[rst[r]], ActiveRows(rst[r]), n)

\* A view is settled once its active prefix can no longer grow: from the load
\* of visible_size_, or already when the delta it will read is closed.
ViewOf(r) ==
  IF rpc[r] \in {"sized", "view"} THEN ViewRows(r, rlen[r])
  ELSE IF rpc[r] = "loaded" /\ deltas[states[rst[r]].active].closed
       THEN ViewRows(r, Len(ActiveRows(rst[r])))
  ELSE None

\* The logical rows, the rows being appended, the readers in acquire_read_view and
\* the rows each of them sees.
LogNow == LogicalRows(states[current], ActiveRows(current), Len(ActiveRows(current)))
Pending == [w \in Writers |-> IF wpc[w] = "idle" THEN None ELSE Canonical(wrow[w])]
Reading == {r \in Readers : rpc[r] \in {"calling", "loaded", "sized"}}
Views == [r \in Readers |-> ViewOf(r)]

Log == INSTANCE AppendLog WITH
  Rows <- {Canonical(row) : row \in Row}, InitialLog <- MainColumn(Initial),
  log <- LogNow, pending <- Pending, answer <- wret, reading <- Reading, view <- Views

\* Callers cannot tell the column from a linearizable append-only log: merges
\* neither lose, duplicate, reorder nor change rows, an append that returned is
\* in every view whose acquisition starts later, and a view never changes.
ImplementsAppendLog == Log!LogSpec

-----------------------------------------------------------------------------
(* The deltas *)

\* The rows of delta d that a reader's view or a merger's frozen prefix holds.
PrefixOf(t, d) ==
  IF t \in Readers
  THEN IF rpc[t] \in {"sized", "view"} /\ states[rst[t]].active = d
       THEN SubSeq(deltas[d].rows, 1, rlen[t]) ELSE None
  ELSE IF job[t].closed # NoDelta /\ states[job[t].input].active = d
       THEN job[t].closed.rows ELSE None

\* A delta that is not allocated yet is an empty open one.
DeltaRows(d) == IF d \in DOMAIN deltas THEN deltas[d].rows ELSE << >>
DeltaClosed(d) == d \in DOMAIN deltas /\ deltas[d].closed
DeltaPrefixes(d) == [t \in Readers \cup Mergers |-> PrefixOf(t, d)]

Delta(d) == INSTANCE AtomicDelta WITH
  Rows <- Row, Threads <- Readers \cup Mergers,
  rows <- DeltaRows(d), closed <- DeltaClosed(d), prefix <- DeltaPrefixes(d)

\* Each delta of the column goes through the steps of AtomicDelta, the interface
\* ConcurrentDelta is shown to implement for callers that share a mutex: nothing
\* is published after the freeze, which happens once, and a prefix, a reader's or
\* a merge's, is all rows of the moment its size was loaded.
DeltasAreAtomic ==
  /\ \A d \in 1..(1 + MaxMerges) : Delta(d)!DeltaInit
  /\ [][\A d \in 1..(1 + MaxMerges) : [Delta(d)!DeltaNext]_(Delta(d)!deltaVars)]_vars

-----------------------------------------------------------------------------
(* Safety *)

\* What the column answers for RowId i, up to ==.
RowNow(i) == Canonical(RowAt(states[current], ActiveRows(current), i))

\* The RowId an append returned names the appended row for ever, through every
\* later handoff and publication ("one stable logical RowId").
AnswerNamesItsRow ==
  \A w \in Writers : wret[w] # None =>
    /\ wret[w] < LogicalLen
    /\ RowNow(wret[w]) = Canonical(wrow[w])

\* The three stores of a state in use partition its row space, so the asserts of
\* GenerationReadView hold: rows below the active base that main does not have
\* are in the closed delta, which is labelled with the RowId it starts at.
Covers(s) ==
  /\ s.base = Len(s.main) + ClosedSize(s)
  /\ s.closed # NoDelta => s.closed.base = Len(s.main)

RowSpaceCovered ==
  /\ Covers(states[current])
  /\ \A r \in Readers : rst[r] # 0 => Covers(states[rst[r]])
  /\ \A w \in Writers : wst[w] # 0 => Covers(states[wst[w]])

\* A handoff replaces the closed_delta pointer of the state it starts from, so it
\* may only start from a state without one: otherwise the rows of an unfinished
\* merge, failed or running, would vanish.
HandoffDropsNothing ==
  \A m \in Mergers : mpc[m] \in {"freeze", "snapshot", "install"} =>
    states[job[m].input].closed = NoDelta

\* publish overwrites current_ without looking at it: nobody may have replaced
\* the handoff state, nor its active delta, since the merger installed it.
PublishReplacesItsHandoff ==
  \A m \in Mergers : mpc[m] \in {"retireInput", "recordInput", "releaseInput",
                                "handedOff", "build", "built", "publish"} =>
    /\ states[current] = HandoffState(m, job[m].fresh)
    /\ job[m].fresh = Len(deltas)

\* Unless an allocation failed in a handoff, an append never meets a closed delta.
AppendFindsOpenDelta ==
  \A w \in Writers : wpc[w] \in {"loaded", "open"} =>
    ~deltas[states[wst[w]].active].closed

\* At rest the counters describe the published column.
CountersMatchMain ==
  mergeLock = NoThread /\ phase = "Stable" =>
    /\ merges = states[current].generation
    /\ rowsMerged = Len(states[current].main) - Len(Initial)

-----------------------------------------------------------------------------
(* Retired states and telemetry *)

\* Replaced, not on record yet, and on its way there.
Retiring == {job[m].old : m \in Mergers} \ ({0} \cup retired)

\* A merge that threw before it was back at Stable left the phase where it was and
\* no merger at work.
Wedged ==
  /\ phase # "Stable"
  /\ \A m \in Mergers : mpc[m] \in {"idle", "entered"}

\* retire_state may throw after the exchange: the merge that did so, the last one
\* of the column, leaves one replaced state that is on no record.
Untracked == IF Wedged THEN {0, 1} ELSE {0}

\* A replaced state that a view, an append or a snapshot still uses is on record,
\* but for the one a failed merge may have lost.
HeldStatesTracked ==
  LET held == {rst[r] : r \in Readers} \cup {ost[o] : o \in Observers}
                \cup {wst[w] : w \in Writers}
  IN  Cardinality(held \ ({0, current} \cup retired \cup Retiring)) \in Untracked

\* Every replaced state is counted once: retired, reclaimed, on its way, or lost.
RetirementAccounted ==
  Len(states) - 1 - (reclaimed + Cardinality(retired) + Cardinality(Retiring)) \in Untracked

\* Retired states do not pile up over merges: one per reader and observer, the
\* running merge's input and the state being retired.
RetiredBounded == peakRetired <= Cardinality(Readers) + Cardinality(Observers) + 2

\* A snapshot read while merges go on may lag, but never shows a generation more
\* than one publication ahead of the count it shows.
SnapshotLag ==
  \A o \in Observers : snap[o].merges # None =>
    snap[o].generation <= snap[o].merges + 1

\* telemetry() loads the state before it gets the mutex, and merges may run in
\* between; yet it never reports a retired generation above the one it calls
\* current, because its own reference keeps the loaded state on record.
SnapshotOldestNotNewer ==
  \A o \in Observers : snap[o].oldest # None => snap[o].oldest <= snap[o].generation

-----------------------------------------------------------------------------
(* Action properties *)

\* No step of any thread, a merge that throws included, loses a row or gives
\* its RowId to another one.
RowsKept ==
  [][\A i \in 0..(LogicalLen - 1) : i < LogicalLen' /\ RowNow(i)' = RowNow(i)]_vars

\* After a merge threw before it was back at Stable, no further merge ever starts: the
\* rows stay where the failure left them, and the column keeps its generation.  (One
\* whose timing sample cannot be stored throws too, but after it is back at Stable and
\* counted: later merges start as usual.)
FailedMergeEndsMerging ==
  [][Wedged => Wedged' /\ phase' = phase /\ current' = current]_vars

-----------------------------------------------------------------------------
(* Progress *)

WriterFairness ==
  \A w \in Writers : WF_vars(AppendStep(w)) /\ SF_vars(AppendLock(w))

HandoffFairness ==
  \A m \in Mergers : /\ WF_vars(Freeze(m) \/ FreezeSnapshot(m) \/ InstallHandoff(m))
                     /\ WF_vars(ReleaseInput(m))
                     /\ SF_vars(RetireInput(m))

ObserverFairness ==
  \A o \in Observers :
    /\ WF_vars(ObserveRead(o) \/ ObserveReturn(o) \/ ObserveRelease(o))
    /\ SF_vars(ObserveCleanup(o))

\* No hook runs and nothing is waited for under telemetry_mutex_.
TelemetryFairness ==
  \A m \in Mergers : WF_vars(RecordInput(m) \/ RecordHandoff(m) \/ Sample(m))

\* A merger waits for one mutex at a time.
RebuildFairness ==
  \A m \in Mergers :
    /\ WF_vars(\/ MergeBegin(m) \/ MergeRefused(m) \/ MergeRejected(m)
               \/ EnterBuilding(m) \/ Build(m) \/ EnterPublishing(m) \/ Publish(m)
               \/ ReleaseHandoff(m) \/ EnterRetired(m) \/ EnterStable(m)
               \/ MergeReturn(m))
    /\ SF_vars(HandoffLock(m) \/ RetireHandoff(m) \/ Account(m))

\* A merge may take for ever to build (its hooks may wait): only the handoff section
\* and the sections under telemetry_mutex_ have to finish.
FairSpec ==
  Spec /\ WriterFairness /\ HandoffFairness /\ ObserverFairness /\ TelemetryFairness

\* Every append returns, whatever mergers, observers and other writers do, a merge
\* that stalls in its build included.
AppendReturns == \A w \in Writers : wpc[w] = "calling" ~> wpc[w] = "idle"

\* Every telemetry call returns, although mergers own its mutex while they retire a
\* state or count a merge: none keeps it, also when it throws there, and no merge
\* stalls while it owns it.
SnapshotsReturn == \A o \in Observers : opc[o] # "idle" ~> opc[o] = "idle"

\* If builds end, every merge that got the merge mutex returns or throws.
MergeReturns == RebuildFairness => \A m \in Mergers : mpc[m] # "idle" ~> mpc[m] = "idle"

\* If builds end, rows that were closed for a merge end up in the main, unless that
\* merge throws before it has published them.
ClosedRowsReachMain ==
  RebuildFairness =>
    (states[current].closed # NoDelta ~> states[current].closed = NoDelta \/ Wedged)
=============================================================================
