# Susano in TLA+

Susano is an in-memory columnar store written as C++23 headers. This directory
holds TLA+ models of it, the TLC configurations that check them and
TLAPS proofs of what they check: every invariant and action property of the runs is
proved for all instances, only liveness is model-checked alone. Paths below are relative
to the repository's `src/susano/`.

## The system

| component | source | state | operations | hard behaviour |
|---|---|---|---|---|
| GenerationalColumn | `generational_column.hpp` | `current_` (atomic pointer to an immutable state), three mutexes, lifecycle, retired list, counters | `append`, `append_null`, `acquire_read_view`, `merge_once`, `telemetry` | writers, readers, mergers and observers at the same time; exceptions at every allocation and hook |
| MergeLifecycle | `merge_lifecycle.hpp` | one atomic phase | `transition` (compare-and-swap along a cycle) | racing mergers; a phase nobody resets |
| GenerationReadView, generation predicates | `generation_read_view.hpp` | a state and a prefix of its active delta | point reads, `generation_equal`, `generation_less`, ... | views acquired inside a merge |
| ConcurrentDeltaColumn | `concurrent_delta.hpp` | chunks, `visible_size_`, `closed_` | `append`, `snapshot`, `freeze` | three stores per row, shared validity words, chunk boundaries, memory order |
| FixedColumn, ValidityBitmap | `fixed_column.hpp`, `validity_bitmap.hpp` | values, validity words, size | `append`, `append_null` | the second vector fails to grow |
| SortedDictionary | `sorted_dictionary.hpp` | distinct values in order | construction, `find`, bounds | signed zeros, NaN, infinities, one value too many for the id type |
| Dictionary columns, predicates | `dictionary_column.hpp`, `dictionary_predicates.hpp`, `code_vector.hpp`, `main_column.hpp` | dictionary, codes, validity | build, decode, five predicates | null placeholder code 0, boundaries |
| PackedCodeVector | `packed_code_vector.hpp` | words | pack, read | codes across two words, size overflow |
| MainDeltaColumn | `main_delta_*.hpp`, `delta_column.hpp` | immutable main, growing delta | append, point read, five predicates | the main/delta boundary |
| RowId, GenerationId, PhysicalType, `main.cpp`, benchmarks | | none | | not modelled |

How they interact. `GenerationalColumn::current_` points to a `GenerationState`:
a main (dictionary-encoded, immutable), perhaps a closed delta (a frozen
prefix, immutable) and an active `ConcurrentDeltaColumn`. `append` takes
`handoff_mutex_`, loads the state and appends to its active delta; the RowId is
the delta's base plus the offset. A reader loads the state and then the size of
its active delta, without a lock. `merge_once` tries `merge_mutex_`, moves the phase
from Stable to Handoff, and under `handoff_mutex_` freezes the active delta and
installs a state with the frozen rows as closed delta and a fresh active one.
It builds a new main from the old main and the closed delta, and exchanges in a state
without closed delta. Both exchanged-out states enter the retired list, as weak
pointers, under `telemetry_mutex_`. `telemetry` loads the state, takes that mutex,
erases expired entries and reports.

What makes each part correct:

- the column is an append-only log: RowIds never change their row, views are
  linearizable and immutable, merges are invisible (also merges that fail);
- at most one merge runs, and publication replaces exactly its own handoff state;
- appends return although a build stalls; merges return; closed rows reach the main;
- retired states are counted once, kept on record while referenced, and bounded;
- a delta shows a row whole or not at all, on a machine with weak memory order too, and a
  frozen delta has all rows;
- values and validity stay aligned when an append throws;
- encoded and raw rows answer every predicate alike; ids mean nothing outside
  their dictionary, so answers must not change when a merge renumbers them;
- packed codes are read as written.

## Modules

| module | models | correspondence |
|---|---|---|
| `ColumnValues` | the rows a column can hold | opaque values; `Canonical` is `canonicalize`, `Unsupported` the non-finite doubles |
| `MergeLifecycle` | the phase | `Transition` is the compare-and-swap, `Succeeds` its result |
| `GenerationReadView` | states and addressing | `RowAt` is `is_null`/`value`: three stores by RowId |
| `GenerationalColumn` | the column with its threads | below |
| `AppendLog` | what callers are promised | a log; appends and views take effect at one instant |
| `GenerationalColumnProps` | its properties, the mapping to `AppendLog`, fairness | |
| `GenerationalColumnInv` | the inductive invariants `IInv`, `RetireInv` and `QueryInv` | |
| `GenerationalColumnProofs`, `GenerationalColumnTheorems` | proofs: types and `IInv`; refinement of `AppendLog`, composition with `AtomicDelta`, `RetireInv`, queries over views | below |
| `ReadViewAudit` | history variables for one documented claim | below |
| `DeltaChunks` | where an offset lies: chunk, slot, word, bit | pure operators |
| `ConcurrentDelta` | the delta, store by store | `chunks`, `visible`, `closed`; one action per load or store; its inductive invariant `DeltaInv` |
| `DeltaChunksProofs`, `ConcurrentDeltaProofs` | proofs: where offsets lie, `DeltaInv`, refinement of `AtomicDelta` | below |
| `AtomicDelta` | the delta as `GenerationalColumn` uses it | `ConcurrentDelta` implements it, `GenerationalColumn` composes with it |
| `DeltaMemory` | the delta under the C++ memory orders | below |
| `DeltaMemoryProofs` | proofs: its inductive invariant and the properties it has under them | below |
| `FixedColumn` | values and bitmap, growing or failing to | `AppendRow`, `AppendFails` |
| `SortedDictionary`, `DictionaryColumn` | dictionary, encoding, predicates | pure operators; a predicate's loop is the recursive function of `MatchingRows` |
| `DictionaryProofs` | proofs: sorting, codes compare as values, loops collect what a scan does | below |
| `MainDeltaColumn` | the single-threaded column | composes `FixedColumn` (the delta) and `DictionaryColumn` (the main) |
| `MainDeltaColumnProofs` | proofs: the delta stays whole, point reads, predicates | below |
| `GenerationQueries` | predicates over views | composes `GenerationalColumn` and `DictionaryColumn` |
| `PackedCodes` | bit packing: word count, shifts, masks | pure operators; a code and a word are the sets of their one bits |
| `PackedVectors` | packing a vector and reading it back | one action per construction |
| `PackedDictionaryColumn` | the packed dictionary column beside the fixed one | composes `DictionaryColumn` and `PackedCodes`; `fixedColumn` and `packedColumn` are built anew from `source` at each step |
| `PackedProofs` | proofs: codes are read as written, inside the words; a packed column is the fixed one | below |

`MC*` modules instantiate them for TLC. Operators whose name ends in
`_Something` and whose comment starts with "Seeded fault" are wrong variants of
the definition after them, kept to show that each property can fail.

### GenerationalColumn

`states` and `deltas` are heaps of objects; a pointer is an index and 0 is null.
Program counters `wpc`, `rpc`, `mpc`, `opc` name the next step of each thread:

- `append`: `AppendCall`, `AppendLock` (the mutex), `AppendLoad` (`current_`),
  `AppendCheck` (`closed_`), `AppendPublish` (the release store of
  `visible_size_`), `AppendReturn`; `AppendThrows` for a closed delta or a
  failed allocation;
- `acquire_read_view`: `ReadCall`, `ReadLoad`, `ReadPrefix`, `ReadReturn` (or `ReadThrows`),
  and `DropView` for the destructor of the view;
- `merge_once`: `MergeTryLock`, `MergeBegin` or `MergeRefused`, `HandoffLock`,
  `Freeze`, `FreezeSnapshot`, `InstallHandoff`, `RetireInput`, `RecordInput`,
  `ReleaseInput` (the handoff section), `EnterBuilding`, `Build`, `EnterPublishing`,
  `Publish`, `RetireHandoff`, `RecordHandoff`, `ReleaseHandoff`, `EnterRetired`,
  `EnterStable`, `Account`, `Sample`, `MergeReturn`;
  `MergeRejected` for what always throws, `MergeThrows` for what may;
- `telemetry`: `ObserveLoad`, `ObserveCleanup`, `ObserveRead`, `ObserveReturn` (or
  `ObserveThrows`), `ObserveRelease`.

`telemetry_mutex_` is owned from `RetireInput` to `RecordInput` and from `RetireHandoff` to
`RecordHandoff` (`retire_state`), from `Account` to `Sample` (the counters and the timing
sample) and from `ObserveCleanup` to `ObserveReturn`, so mergers and observers wait for
each other. The state that `retire_state` was given, and the one `telemetry` loaded, are
released in the step after the mutex.

Points worth knowing:

- The comment on `append` says "single-writer", but `handoff_mutex_` makes it safe
  for several writers, and the models have several.
- A `merge_once` whose `try_lock` fails returns false and is no step.
- Publication takes no mutex and does not compare what it replaces. That it
  replaces its own handoff state follows from `merge_mutex_` and the phase:
  `PublishReplacesItsHandoff`.
- A merge that throws before it is back at Stable leaves the phase where it is, so no
  later merge starts; if it throws between `freeze` and the exchange, the active delta stays
  closed and appends throw from then on. No row is lost either way (`RowsKept`,
  `FailedMergeEndsMerging`). Nothing in the repository promises more, so this is
  no finding.
- One throw comes later: line 211 stores a timing sample when the phase is Stable again and
  the counters have moved (`MergeThrows` at the step "sample"). The caller gets an
  exception for a merge that is complete; the counters are right (`CountersMatchMain`), the
  mutexes are given back (`SnapshotsReturn`) and the next merge starts as usual.
- `retire_state` runs after the exchange and may throw when the list grows. The replaced
  state is then on no record, and the merge that lost it is the last one of the column
  (`Wedged`): at most one state goes untracked, ever (`RetirementAccounted`,
  `HeldStatesTracked`).
- A double column turns -0.0 into +0.0 when a row is merged. Rows are compared by
  `operator==` (`Canonical`), under which nothing changes.

Abstractions. Expiry of a weak pointer is "no local or pointer of the model
refers to the state" (`Held`). `retired_` is a set: a state enters once. The
three merge counters move in one critical section and are one counter. The delta's
stores are one step (shown right by `ConcurrentDelta`). The main is the rows it
decodes to (shown right by `BuiltMainDecodes`). In `telemetry`, the scan of the list
and the first fields are one step under the mutex, the last fields another. When `merge_once`
returns or throws, its locks and locals go in one step.
Byte sizes and clocks are left out; no decision reads them.

### The memory model of the delta

`DeltaMemory` drops sequential consistency for the one object that threads share without
a mutex. `visible_size_` is a modification order of messages; each message carries the
view its release store publishes (how much of every slot and bitmap word the storing thread
knew), each thread and each mutex has a view, an acquire load joins the view of the message
it reads, a relaxed one does not, and a load may return any message not older than the
newest its thread knows. Validity words are atomics accessed with relaxed order, so a
read may return any version not older than the one its thread knows; value slots are plain
memory: a read that is not ordered after the last write would be a data race. The writers share the caller's mutex as in `GenerationalColumn`.

## Runs

| run | asks | properties | bounds |
|---|---|---|---|
| `views` | is the column a linearizable log for two readers | `AnswerNamesItsRow`, `RowSpaceCovered`, `ImplementsAppendLog` | 1 writer, 2 readers, 1 merger, rows of two zeros and null, 3 rows (1 initial), 2 merges |
| `contention` | do two writers and two mergers exclude each other | `TypeOK`, `PublishReplacesItsHandoff`, `AppendFindsOpenDelta`, `RetiredBounded`, `ImplementsAppendLog`, `DeltasAreAtomic` | 1 reader, 2 rows, 2 merges |
| `failures` | what survives exceptions | `IInv`, `HandoffDropsNothing`, `CountersMatchMain`, `RowsKept`, `FailedMergeEndsMerging`, `ImplementsAppendLog` | 2 mergers, NaN among the values, `MayThrow`, 2 rows, 2 merges |
| `retirement` | is every replaced state recorded and counted, failures included | `HeldStatesTracked`, `RetirementAccounted`, `SnapshotLag`, `SnapshotOldestNotNewer` | 1 of each thread, 2 mergers, 2 merges, `MayThrow` |
| `progress` | does every operation return | `AppendReturns`, `SnapshotsReturn`, `MergeReturns`, `ClosedRowsReachMain` | 1 writer, 2 mergers, 1 observer, 1 row, 1 merge, `MayThrow` |
| `delta` | is the chunked delta atomic | `ImplementsAtomicDelta`, `FrozenIsWhole` | chunks of 4 rows, words of 2 bits, 5 rows, 2 writers, 2 readers, 2 freezers |
| `memory` | do the memory orders of the delta suffice | `PrefixReadsWhole`, `WritersInStep`, `KnownRowsSeen`, `FrozenIsNewest` | chunks and words of 2, 4 rows, 2 writers, 1 reader, 1 freezer, 2 freezes |
| `main_delta` | reads and predicates of the main/delta column | `DeltaIsWhatWasAppended`, `PointReadsMatch`, `QueriesMatch` | up to 3 main rows and 3 delta rows of 7 kinds, words of 2 bits, all targets |
| `queries` | predicates over views during merges | `BuiltMainDecodes`, `ViewQueriesMatch`, `ViewAnswersGrow` | 3 rows of 4 kinds, 2 merges, all targets |
| `packing` | are codes read back as written | `RoundTrip`, `AccessesInBounds` | words of 5 bits, ids of 3, all sequences up to 5 codes and all widths, a size_t that overflows |
| `packed_dictionary` | does packing change an answer | `PackedDecodesAlike`, `PackedQueriesMatch`, `RefusedForCause` | all sources up to 5 rows of 7 kinds, ids of 2 bits with `MaxId` 3: five distinct values are one too many |
| `linearization_point` | the documented linearization point | `ViewIsOfOneOfItsLoads`, expected to fail | 1 writer, 1 reader, 1 merger, 2 rows, 1 merge |

Why the bounds are enough. Two merges put every state through all positions:
installed by a handoff, published, and the start of the next merge. Three rows let
one lie in each store of one view. Two of a kind of thread are what a race needs,
and the proofs below cover any number. Chunks of four with words of two have
a row first and last in a chunk and in a word, with five rows in two chunks. Ids of
three bits in words of five straddle at every shift, as 32-bit ids do in 64.
The bounds `MaxRows`, `MaxMerges`, `MaxFreezes`, `MaxCodes`, `MaxMainRows` stop calls from
being made and disable no step of a call under way. `main_delta`, `packing` and
`packed_dictionary` switch deadlock checking off since their single caller stops at the bound.

Two properties are compositions.

- `ImplementsAppendLog` is refinement: the log is the logical rows of `current_`; an
  append takes effect at its release store; a view takes effect at its load of
  `visible_size_`, or at the freeze if the delta it loaded is closed before that.
  It takes `current_` and `visible_size_` to be sequentially consistent. On weaker
  hardware a load may be stale, so a view may be older than its call; `memory` shows
  what remains there: what a thread knows of, it sees (`KnownRowsSeen`), and
  a freeze, which is under the mutex of the appends, always sees the newest row
  (`FrozenIsNewest`).
- `DeltasAreAtomic` says that what the column does to each delta of its heap are steps of
  `AtomicDelta`, the interface that the `delta` run shows `ConcurrentDelta` to implement.
  The column asks nothing else of its deltas and the chunked delta gives no less.

The expected violation: `generational_column.hpp:88` says the two acquire loads of
`acquire_read_view` are its linearization point. `ReadViewAudit` records the column's
length at both. In the counterexample a reader loads the state, one row is
appended, a merge freezes that delta, another row is appended to the fresh one,
and the reader loads the size of the old delta: one row, at a moment when the column had
none and two. The view is still linearizable, at the freeze.

### Fairness

`progress` assumes `FairSpec`: the scheduler runs every thread that
can take a step (weak fairness of the steps of an append, of a handoff section, of a
merge under `telemetry_mutex_` and of a telemetry call under way), and a thread
waiting for a mutex that is free again and again gets it in the end (strong fairness of
lock steps). `std::mutex` does not promise the second; without it no operation that
locks has a progress guarantee. No fairness is assumed for starting a call, nor for a throw,
which is possible at any of its places and never certain.

`FairSpec` says nothing of what a merge does outside its handoff section and the telemetry
mutex, under which no hook runs: its hooks and its build may take for ever. `AppendReturns`
and `SnapshotsReturn` hold all the same. `MergeReturns` and `ClosedRowsReachMain` have
`RebuildFairness`, that builds end and that a merge gets the mutex it waits for, as a premise:
a merge then returns or throws, and closed rows reach the main unless their merge threw
before it published them.

## Proofs

All are checked by TLAPS, for any sets of threads, values, initial rows, chunk and word
sizes and bounds. Assumptions are those of the modules: null is no value, `NegZero`
implies `PosZero`, non-finite values are not zeros, a thread is of one kind where two
kinds own the same mutex or take prefixes, the initial rows are encodable, `None` is no
row and no sequence of rows, a word's size divides a chunk's, a `Rank` is an integer (the
order of the values of a finite column embeds in them), in `DeltaMemory` finitely many
threads append; `Thrown` and `Rejected`, which stand for an exception, are no results
(`ThrownAssumption`, `RejectedAssumption`, `ThrownVectorAssumption`), and `MaxId` is the
largest number of `IdBits` bits (`WidthAssumption`). A theorem that needs more says so.

The column:

- `TypeCorrect`: `Spec => []TypeOK`. The types need that a local is set before it
  is read (`MergerLocals`, ...): `TypeInv`.
- `InductiveInvariant`: `Spec => []IInv`. `IInv` adds to `TypeInv`: who holds
  which of the three mutexes at which step (`LockInv`), from which follows that one merger is
  active; that the phase tells how far that merger is (`PhaseFits`); that every
  installed state partitions its row space (`HeapInv`); that the current state has
  no closed delta while the phase is Stable or a merge has not yet handed off
  (`RestInv`), which is why no handoff drops rows; that the current active delta is
  open outside the handoff section (`OpenInv`); what the merger knows of its
  input and of `current_` (`MergeKnows`); that a writer holding the mutex has the
  current delta and base, although perhaps an old state (`WriterInv`); and `LogInv`, what
  makes a view last: a prefix stays within its delta, only the current active delta
  grows and not after the freeze (`FrozenInv`), and states with the same active delta
  have the same rows before it (`SharedInv`).
- From it: `RowSpaceIsCovered`, `NoHandoffDropsRows`, `PublishIsSafe`,
  `AnswersStayTrue`, `AppendsFindOpenDelta` (if nothing throws), and the action
  property `RowsStayPut`.
- `ColumnIsALog`: `Spec => ImplementsAppendLog`, the linearizability of the column. Each
  step of `Next` is mapped: `AppendPublish` to the append of the log, `ReadPrefix` or, for
  a reader whose delta it closes, `Freeze` to taking the view; handoff and publication,
  and merges that throw, to stutters. That needs `LogInv`: a stale view's rows are a
  prefix of the log for ever only because its delta cannot grow once closed.
- `DeltasAtomic`: `Spec => DeltasAreAtomic`. With `DeltaIsAtomic` below, the column runs on
  the chunked delta as it does on the atomic one.

The retired states (`GenerationalColumnTheorems`):

- `RetirementInvariant`: `Spec => []RetireInv`. `RetireInv` says how far the counters are
  behind the published state at each step of a merge (`CountInv`); that states are
  installed in order of their generations (`OrderInv`); that a replaced state is the one
  before the current, off record until its merger has put it there (`RecordInput`,
  `RecordHandoff`) and on record after, and that whatever is in use is
  current, on record, on its way, or lost by the merge that threw (`RecordInv`); that
  while a merge retires its input no append is under way, and while it retires its
  handoff state an append can only use that or the next (`UseInv`).
- From it: `CountersAreRight`, `HeldStatesAreTracked`, `RetirementAddsUp`,
  `SnapshotsLagByOne`, `OldestIsNotNewer` (the reference that `telemetry` holds keeps an entry
  that is no newer on record), and `RetiredListBounded`, for finitely many readers and
  observers: the clean-up leaves the entries in use, and no other thread reaches the list
  until the state is recorded. `FailureEndsMerging` is the action property
  `FailedMergeEndsMerging`: a merge that threw before it was back at Stable was the last.

The delta:

- `DeltaInvariant`: `Spec => []DeltaInv` for `ConcurrentDelta`. `DeltaInv` says who is in
  the caller's mutex (`CallerInv`), that an append that found the delta open completes
  before it is closed (`ClosedInv`), what an append has stored so far, also in a validity
  word shared with visible rows (`WriterInv`), that a prefix ends at or before the visible
  rows and references all its chunks (`PrefixInv`), and that visible slots hold rows
  (`RowsInv`). It rests on the geometry in `DeltaChunksProofs`: two offsets share no slot
  and no bit, and the chunks needed for n rows hold n rows.
- From it: `SlotsAreUnshared`, `ChunksAreThere`, `FrozenRowsAreAll`, and `DeltaIsAtomic`:
  `Spec => ImplementsAtomicDelta`. A row appears at the store of `visible_size_`, a prefix
  is taken at its load.

The delta under the memory orders of the code:

- `MemoryIsConsistent`: `Spec => []IInv` for `DeltaMemory`. `IInv` says who is in the
  caller's mutex (`CallerInv`); that a slot has one message from its chunk's construction and
  one from its row, a word one more for each of its rows in order, and that every message of
  a word from the one that wrote a row's bit on has that bit right (`SlotInv`, `WordInv`,
  `RowsInv`); that the message of size n carries a view of the writes of the n rows below it
  (`SizeInv`); that the holder of the caller's mutex, and the mutex when nobody holds it, have
  seen the newest size, closing and rows (`CurrentInv`), which is why the relaxed load of
  `visible_size_` in `append_impl` is exact; and that nobody has seen what was not written.
- From it: `PrefixesReadWhole`, `WritersAreInStep`, `KnownRowsStay`, `FreezeTakesAll`. The
  writes of a row need no order among themselves: only the release of the size that covers
  them counts, and the caller's mutex, which passes what earlier writers have seen to the
  next one.

The packed codes:

- `CodesRoundTrip`: `Spec => []RoundTrip` and `WordsAreAllocated`:
  `Spec => []AccessesInBounds`, for every word size, id size, `SizeMax`, width and sequence
  of codes that the constructor accepts. The argument is one fact on bits: bit k of word j
  is set exactly if the row that owns bit `WordBits * j + k` has it in its code
  (`ContributedBits`, `RowsDisjoint`), which gives both the part of a code in its
  first word and the part in the next. The overflow check keeps products below `SizeMax`.

The dictionary and its predicates (`DictionaryProofs`, theorems on operators):

- `CodesCompareAsValues`: `MainMatches` on the codes of any
  encodable column selects the rows whose values compare, for every operation and every
  supported target. It rests on these facts: a set of values can be sorted, as
  the place of a value, one more than the values below it, is its own (`SortingExists`), so that
  `Dictionary` is strictly ascending (`DictionaryFacts`); the values below a target are an
  initial segment of it, so that counting them is finding the bound (`DownSet`,
  `BoundsSplit`); and no id, nor the bound after the last, is wrapped (`SmallIds`).
- `MainAnswers`: the sequence of RowIds it returns, or the exception, is that of a scan,
  for every target, NaN and infinities included.
- What the loops compute needs induction, which is on a set here: a set that has 0 and with
  each number the next has them all (`SetInduction`, from the cardinality of initial
  segments). The function of `MatchingRows` has to be shown to exist before it
  can be unfolded (`LoopExists`, `Loop`); from its rounds follow that it depends only on
  the rows that match (`MatchAlike`) and that a scan of two parts is the scan of the first,
  then of the second with its RowIds shifted (`ScanSplit`, `QueryJoin`), which is how a
  query that is answered store by store answers as one scan.

The main/delta column:

- `DeltaStaysWhole`: `Spec => []DeltaIsWhatWasAppended`, from `Whole`, which says bit by
  bit what each validity word holds (`DeltaBits`): an append may start a word or share one.
- `ReadsAreReferenceRows`: `Spec => []PointReadsMatch`, and `QueriesAreScans`:
  `Spec => []QueriesMatch`, if `MaxMainRows <= MaxId`. A main of
  more distinct values than ids is refused by the constructor, and there is no column.

Queries over views (`GenerationalColumnTheorems`), for finitely many writers,
`Len(Initial) <= MaxRows` and `MaxRows <= MaxId` (with more rows than ids a merge may be
refused, which `failures` has as an exception):

- `StateAnswers`: over any state that partitions its row space the main, the closed delta and the
  prefix, each searched in its own way, give what a scan of the logical rows gives.
- `QueryInvariant`: `Spec => []QueryInv`. `IInv` does not say that what is queried can be
  encoded, nor that ids suffice, nor how an old view lies in the present log. `QueryInv`
  adds that every main of the heap is encodable and so is what a merge has built (`MainInv`: a
  merge whose rows are not goes no further than `Build`), that the rows published and those
  of appends under way stay within `MaxRows` (`SizeInv`: it counts the writers under way, hence
  the finitely many writers), and that the rows a state had when its delta
  was replaced still start the log (`GrownInv`).
- From it and `IInv`: `ViewQueriesAreScans` (`ViewQueriesMatch`), `AnswersOnlyGrow`
  (`ViewAnswersGrow`: an answer over rows that start others starts the answer over those,
  `AnswersGrow`, although the ids are renumbered in between) and `MainsDecode`
  (`BuiltMainDecodes`), by which `MainColumn` stands for the encoded main in every other theorem.

The packed dictionary column (`PackedProofs`):

- `PackedIsFixed`: `ColumnSpec => []PackedDecodesAlike`, and `PackedQueriesAreScans`:
  `ColumnSpec => []PackedQueriesMatch`. The width `CodeBitWidth` chooses lies between two powers
  of two (`BetweenPowers`), so it has room for every id and for the code 0 of a null row and is no
  wider than a `ValueId` (`WidthFacts`); an id is the only one with its bits
  (`BitsIdentify`, bit by bit from `NextBit`), so `value_id` reads back what was packed
  (`IdsRead`, from `ReadBack` above), and the column a predicate sees is the fixed one
  (`UnpackedIsFixed`).
- `NoOtherRefusal`: `ColumnSpec => []RefusedForCause` if `IdBits * MaxRows <= SizeMax`: a
  vector whose bits `size_t` cannot count is refused, and no source of that size fits a
  memory. A dictionary has as many values as the source has distinct ones, no
  fewer and no more.

Each conjunct of the invariants is preserved action by action; the steps that move rows (publish
of an append, handoff, publication) have lemmas of their own. None of the
properties is inductive alone: `AnswerNamesItsRow` needs to know what
`merge_once` carries in its locals from handoff to publication.

Only model-checked: liveness (`AppendReturns`, `SnapshotsReturn`, `MergeReturns`,
`ClosedRowsReachMain`), which with its fairness and ENABLED is beyond the prover. That the
`linearization_point` run refutes `ViewIsOfOneOfItsLoads` is TLC's too.

## Not modelled

RowId and GenerationId (wrapped numbers, far from 2^64), PhysicalType (constants),
byte and time estimates, formatting of phases, `main.cpp`, the build and the benchmarks.
Hardware memory order is modelled for the delta only. For the column it is an argument:
`current_` is a release/acquire pair that hands on immutable states, and everything else
shared is an atomic or under a mutex.

## Plan

Done: the core column, the delta and their proofs, with refinement of `AppendLog` and
`AtomicDelta` and the composition of the two; retirement and telemetry with their proofs; the
memory model of the delta with its proofs; the sequential columns, the predicates over them
and over views, packing and the packed dictionary column, with their proofs. Open: what the
prover cannot reach (above).
