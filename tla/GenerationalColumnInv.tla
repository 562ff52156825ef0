----------------------- MODULE GenerationalColumnInv ------------------------
(***************************************************************************)
(* The inductive invariants of GenerationalColumn: what every step of      *)
(* every thread relies on and keeps.  IInv is about the rows, RetireInv    *)
(* about the states that were replaced and what is reported of them,       *)
(* QueryInv about the rows that queries read.                              *)
(***************************************************************************)
EXTENDS GenerationalColumnProps

\* The steps of merge_once at which each local is set.
InHandoff == {"freeze", "snapshot", "install", "retireInput", "recordInput", "releaseInput"}
InTelemetry == {"recordInput", "recordHandoff", "sample"}
HandoffRetirement == {"retireHandoff", "recordHandoff", "releaseHandoff"}
OldSteps == {"retireInput", "recordInput", "releaseInput",
             "retireHandoff", "recordHandoff", "releaseHandoff"}
BuiltSteps == {"built", "publish"}
HandedOff == {"retireInput", "recordInput", "releaseInput", "handedOff", "build", "built",
              "publish"}
PublishedSteps == {"retireHandoff", "recordHandoff", "releaseHandoff", "published",
                   "retired", "account", "sample", "return"}
FreshSteps == HandedOff \cup PublishedSteps
ClosedSteps == {"install"} \cup FreshSteps
InputSteps == {"freeze", "snapshot"} \cup ClosedSteps

\* The steps of append at which handoff_mutex_ is held, and a state is loaded.
StateSteps == {"loaded", "open", "published"}
LockSteps == {"locked"} \cup StateSteps

\* A local that a step reads has been set.
MergerLocals ==
  \A m \in Mergers : /\ mpc[m] \in InputSteps => job[m].input # 0
                     /\ mpc[m] \in ClosedSteps => job[m].closed # NoDelta
                     /\ mpc[m] \in FreshSteps => job[m].fresh \in 1..Len(deltas)
                     /\ mpc[m] \in OldSteps => job[m].old # 0

WriterLocals ==
  \A w \in Writers : /\ wpc[w] # "idle" => wrow[w] # None
                     /\ wpc[w] \in StateSteps => wst[w] # 0

ReaderLocals == \A r \in Readers : rpc[r] \in {"loaded", "sized", "view"} => rst[r] # 0

ObserverLocals == \A o \in Observers : opc[o] # "idle" => ost[o] # 0

TypeInv == TypeOK /\ MergerLocals /\ WriterLocals /\ ReaderLocals /\ ObserverLocals

\* The mutexes are held exactly where the code holds them.
LockInv ==
  /\ \A m \in Mergers : /\ mpc[m] # "idle" <=> mergeLock = m
                        /\ mpc[m] \in InHandoff <=> handoffLock = m
                        /\ mpc[m] \in InTelemetry <=> telemetryLock = m
  /\ \A w \in Writers : wpc[w] \in LockSteps <=> handoffLock = w
  /\ \A o \in Observers : opc[o] \in {"cleaned", "read"} <=> telemetryLock = o

\* The phase tells how far the running merge is; "Stable" if there is none,
\* unless one has thrown.
PhaseOf(pc) ==
  CASE pc \in {"handoff", "handedOff"} \cup InHandoff -> "Handoff"
    [] pc \in {"build", "built"} -> "Building"
    [] pc \in {"publish", "retireHandoff", "recordHandoff", "releaseHandoff",
               "published"} -> "Publishing"
    [] pc = "retired" -> "Retired"
    [] OTHER -> "Stable"

PhaseFits(m) == mpc[m] \notin {"idle", "entered"} => phase = PhaseOf(mpc[m])

\* Every state ever installed partitions its row space.
HeapInv == \A i \in 1..Len(states) : Covers(states[i])

\* Outside a handoff and a build the current state has nothing closed.
Resting ==
  \/ phase = "Stable"
  \/ \E m \in Mergers :
       mpc[m] \in {"handoff", "freeze", "snapshot", "install"} \cup PublishedSteps

RestInv == Resting => states[current].closed = NoDelta

\* The current active delta is closed only inside a handoff, unless one threw.
OpenInv ==
  ~MayThrow /\ deltas[states[current].active].closed =>
    \E m \in Mergers : mpc[m] \in {"snapshot", "install"}

\* What merge_once knows at each step about the state it started from and the
\* state it installed.
InputCovered(m) ==
  LET s == states[job[m].input]
  IN  /\ s.closed = NoDelta
      /\ job[m].closed.base = s.base
      /\ job[m].base = s.base + Len(job[m].closed.rows)

MergeKnows(m) ==
  /\ mpc[m] \in {"freeze", "snapshot", "install"} => job[m].input = current
  /\ mpc[m] \in ClosedSteps => InputCovered(m)
  /\ mpc[m] = "install" => job[m].closed.rows = ActiveRows(current)
  /\ mpc[m] \in HandedOff => /\ states[current] = HandoffState(m, job[m].fresh)
                             /\ job[m].fresh = Len(deltas)
  /\ mpc[m] \in BuiltSteps => job[m].built = MainColumn(RawRows(m))

MergeInv == \A m \in Mergers : PhaseFits(m) /\ MergeKnows(m)

\* A writer with the handoff mutex may hold the state that was published over
\* since, but it has the current active delta and its base.
WriterInv ==
  \A w \in Writers : wpc[w] \in StateSteps =>
    /\ states[wst[w]].active = states[current].active
    /\ states[wst[w]].base = states[current].base

-----------------------------------------------------------------------------
(* What makes views lasting, and of one instant *)

\* A prefix was part of its delta, and still is: deltas only grow.
PrefixInv ==
  \A r \in Readers : rpc[r] \in {"sized", "view"} => rlen[r] <= Len(ActiveRows(rst[r]))

\* An append that has not published its row has no answer.
AnswerInv ==
  \A w \in Writers : wpc[w] \in {"calling", "locked", "loaded", "open"} => wret[w] = None

\* Only the current active delta can grow: a delta is closed before another one takes
\* its place, and not between the check and the publication of an append.
FrozenInv ==
  /\ \A w \in Writers : wpc[w] = "open" => ~deltas[states[wst[w]].active].closed
  /\ \A m \in Mergers :
       mpc[m] \in {"snapshot", "install"} => deltas[states[current].active].closed
  /\ \A i \in 1..Len(states) :
       states[i].active # states[current].active => deltas[states[i].active].closed

\* Two states with the same active delta have the same rows before it.
SameRows(s, t) ==
  /\ s.base = t.base
  /\ \A k \in 0..(s.base - 1) :
       Canonical(RowAt(s, << >>, k)) = Canonical(RowAt(t, << >>, k))

\* A handoff state and the one published over it differ only in how rows are stored.
SharedInv ==
  \A i \in 1..Len(states) :
    states[i].active = states[current].active => SameRows(states[i], states[current])

LogInv == PrefixInv /\ AnswerInv /\ FrozenInv /\ SharedInv

-----------------------------------------------------------------------------
\* What append, acquire_read_view and merge_once rely on between their steps.
IInv ==
  /\ TypeInv /\ LockInv /\ HeapInv /\ RestInv /\ OpenInv /\ MergeInv /\ WriterInv
  /\ AnswerNamesItsRow
  /\ LogInv

-----------------------------------------------------------------------------
(* Counters, replaced states and telemetry *)

AfterPublish == {"retireHandoff", "recordHandoff", "releaseHandoff", "published",
                 "retired", "account"}
BeforePublish == {"handoff", "handedOff", "build", "built", "publish"} \cup InHandoff

\* The rows that merges have added to the main.
MergedNow == Len(states[current].main) - Len(Initial)

\* No publication waits to be counted.
Settled ==
  \/ phase = "Stable" /\ \A m \in Mergers : mpc[m] # "account"
  \/ \E m \in Mergers : mpc[m] \in BeforePublish

\* The counters describe the published column, or what it was before the publication
\* that is not yet counted.
CountInv ==
  /\ states[current].generation \in {merges, merges + 1}
  /\ \A m \in Mergers : mpc[m] \in AfterPublish =>
       /\ states[current].generation = merges + 1
       /\ MergedNow = rowsMerged + Len(job[m].closed.rows)
  /\ Settled => states[current].generation = merges /\ MergedNow = rowsMerged

\* The current state is the newest one, and generations follow one another.
OrderInv ==
  /\ current = Len(states)
  /\ \A i, j \in 1..Len(states) : i <= j => states[i].generation <= states[j].generation

\* The states that views, appends and snapshots refer to.
InUse ==
  {rst[r] : r \in Readers} \cup {ost[o] : o \in Observers} \cup {wst[w] : w \in Writers}

\* The steps of retire_state before and after the state is on record.
UnrecordedSteps == {"retireInput", "recordInput", "retireHandoff", "recordHandoff"}
RecordedSteps == {"releaseInput", "releaseHandoff"}

\* A state is replaced, then retired by the same merger.  One that is still in use is
\* current, on record or on its way there, unless its merge threw before recording it,
\* which was the last.
RecordInv ==
  /\ retired \subseteq 1..(current - 1)
  /\ \A m \in Mergers :
       /\ IF mpc[m] \in OldSteps THEN job[m].old = current - 1 ELSE job[m].old = 0
       /\ mpc[m] \in UnrecordedSteps => job[m].old \notin retired
       /\ mpc[m] \in RecordedSteps => job[m].old \in retired
  /\ \A i \in InUse :
       i \in {0, current} \cup retired \cup Retiring \/ (Wedged /\ i = current - 1)

\* Neither an append nor a merge keeps a state when it is over, so while a merge retires
\* the state it installed itself, no append uses an older one.
UseInv ==
  /\ \A m \in Mergers : mpc[m] = "idle" => job[m].input = 0
  /\ \A w \in Writers :
       /\ wst[w] # 0 => wpc[w] \in StateSteps
       /\ \A m \in Mergers :
            /\ mpc[m] \in HandedOff => wst[w] \in {0, current}
            /\ mpc[m] \in HandoffRetirement => wst[w] \in {0, current - 1, current}

Snapshot ==
  [generation : Nat \cup {None}, phase : Lifecycle!MergePhase \cup {None},
   merges : Nat \cup {None}, closedRows : Nat \cup {None}, activeRows : Nat \cup {None},
   retiredCount : Nat \cup {None}, oldest : Nat \cup {None}]

SnapInv == snap \in [Observers -> Snapshot] /\ SnapshotLag /\ SnapshotOldestNotNewer

\* What telemetry() may rely on while merges retire states.
RetireInv == CountInv /\ OrderInv /\ RecordInv /\ UseInv /\ RetirementAccounted /\ SnapInv

-----------------------------------------------------------------------------
(* The rows that queries read *)

\* Every main was accepted by a dictionary, and so were the rows of a build.
MainInv ==
  /\ \A i \in 1..Len(states) : Encodable(states[i].main)
  /\ \A m \in Mergers : mpc[m] \in BuiltSteps => Encodable(RawRows(m))

\* The rows appended, and those on their way, are within the bound.
Appending == {w \in Writers : wpc[w] \in {"calling", "locked", "loaded", "open"}}
SizeInv == LogicalLen + Cardinality(Appending) <= MaxRows

\* What was in a state when its delta was replaced is still at the start of the log.
RowsOf(i) == LogicalRows(states[i], ActiveRows(i), Len(ActiveRows(i)))
StartsLog(rows) ==
  Len(rows) <= Len(LogNow) /\ \A k \in 1..Len(rows) : LogNow[k] = rows[k]

GrownInv ==
  \A i \in 1..Len(states) :
    states[i].active # states[current].active => StartsLog(RowsOf(i))

\* What a query over any view relies on.
QueryInv == MainInv /\ SizeInv /\ GrownInv
=============================================================================
