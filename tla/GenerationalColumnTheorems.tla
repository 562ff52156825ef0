--------------------- MODULE GenerationalColumnTheorems ----------------------
(***************************************************************************)
(* What follows from the invariant of GenerationalColumn: it is an         *)
(* AppendLog, each step of each thread being one of the log's or none; its *)
(* deltas go through the steps of AtomicDelta, which ConcurrentDelta       *)
(* implements; the counters of merges, the retired states and telemetry's  *)
(* snapshots add up; and queries over any view return what a scan of its   *)
(* rows would.  For any number of threads, rows and merges, failed merges  *)
(* included.                                                               *)
(***************************************************************************)
EXTENDS GenerationalColumnProofs, GenerationQueries, DictionaryProofs

Inv == TypeInv /\ LockInv /\ CoreInv /\ LogInv

-----------------------------------------------------------------------------
(* The log *)

LEMMA LogIsRows ==
  /\ LogNow = [k \in 1..LogicalLen |-> RowNow(k - 1)]
  /\ LogNow' = [k \in 1..LogicalLen' |-> RowNow(k - 1)']
BY DEF LogNow, LogicalRows, LogicalLen, RowNow

\* Three stores that fill a row space, and a prefix of the third, answer with rows.
LEMMA StoreType ==
  ASSUME NEW main \in Seq(Row), NEW closed, NEW p \in Seq(Row), NEW base \in Nat,
         NEW n \in Nat, n <= Len(p), Len(main) <= base,
         base > Len(main) => closed \in Seq(Row) /\ base = Len(main) + Len(closed),
         NEW i \in Nat, i < base + n
  PROVE  (IF i < Len(main) THEN main[i + 1]
          ELSE IF i < base THEN closed[i - Len(main) + 1] ELSE p[i - base + 1]) \in Row
<1>1. Len(main) \in Nat /\ Len(p) \in Nat
  BY LenProperties
<1>2. CASE i < Len(main)
  <2>1. i + 1 \in 1..Len(main)
    BY <1>1, <1>2
  <2> QED
    BY <1>2, <2>1, ElementOfSeq
<1>3. CASE ~(i < Len(main)) /\ i < base
  <2>1. closed \in Seq(Row) /\ base = Len(main) + Len(closed)
    BY <1>1, <1>3
  <2>2. Len(closed) \in Nat
    BY <2>1, LenProperties
  <2>3. i - Len(main) + 1 \in 1..Len(closed)
    BY <1>1, <1>3, <2>1, <2>2
  <2> QED
    BY <1>3, <2>1, <2>3, ElementOfSeq
<1>4. CASE ~(i < Len(main)) /\ ~(i < base)
  <2>1. i - base + 1 \in 1..Len(p)
    BY <1>1, <1>4
  <2> QED
    BY <1>4, <2>1, ElementOfSeq
<1> QED
  BY <1>2, <1>3, <1>4

\* What covering its row space says of a state's three stores.
LEMMA MainBelowBase ==
  ASSUME NEW s \in GenerationState, Covers(s)
  PROVE  /\ s.base \in Nat /\ s.main \in Seq(Row) /\ Len(s.main) \in Nat
         /\ Len(s.main) <= s.base
         /\ s.base > Len(s.main) =>
              s.closed.rows \in Seq(Row) /\ s.base = Len(s.main) + Len(s.closed.rows)
<1>1. /\ s.base \in Nat /\ s.main \in Seq(Row) /\ s.closed \in ClosedDelta \cup {NoDelta}
      /\ Len(s.main) \in Nat
  BY LenProperties DEF GenerationState
<1>2. s.closed # NoDelta => s.closed.rows \in Seq(Row) /\ Len(s.closed.rows) \in Nat
  BY <1>1, LenProperties DEF ClosedDelta
<1>3. s.base = Len(s.main) + (IF s.closed = NoDelta THEN 0 ELSE Len(s.closed.rows))
  BY DEF Covers, ClosedSize
<1>4. /\ Len(s.main) <= s.base
      /\ s.base > Len(s.main) =>
           s.closed.rows \in Seq(Row) /\ s.base = Len(s.main) + Len(s.closed.rows)
  <2> DEFINE base == s.base
             mainLen == Len(s.main)
             rows == s.closed.rows
             some == s.closed # NoDelta
  <2>1. base \in Nat /\ mainLen \in Nat /\ (some => rows \in Seq(Row) /\ Len(rows) \in Nat)
    BY <1>1, <1>2
  <2>2. base = mainLen + (IF some THEN Len(rows) ELSE 0)
    BY <1>3
  <2> HIDE DEF base, mainLen, rows, some
  <2>3. mainLen <= base /\ (base > mainLen => rows \in Seq(Row) /\ base = mainLen + Len(rows))
    BY <2>1, <2>2
  <2> QED
    BY <2>3 DEF base, mainLen, rows
<1> QED
  BY <1>1, <1>4

\* A view of a state that covers its row space consists of rows.
LEMMA ViewType ==
  ASSUME NEW s \in GenerationState, Covers(s), NEW p \in Seq(Row), NEW n \in Nat, n <= Len(p)
  PROVE  /\ LogicalRows(s, p, n) \in Seq(Row)
         /\ Len(LogicalRows(s, p, n)) = s.base + n
<1>1. s.base \in Nat /\ Len(p) \in Nat
  BY MainBelowBase, LenProperties
<1>5. ASSUME NEW k \in 1..(s.base + n) PROVE Canonical(RowAt(s, p, k - 1)) \in Row
  <2>1. k - 1 \in Nat /\ k - 1 < s.base + n
    BY <1>1
  <2> DEFINE i == k - 1
             main == s.main
             closed == s.closed.rows
             base == s.base
  <2>2. /\ main \in Seq(Row) /\ base \in Nat /\ Len(main) <= base /\ i \in Nat /\ i < base + n
        /\ base > Len(main) => closed \in Seq(Row) /\ base = Len(main) + Len(closed)
    BY <1>1, <2>1, MainBelowBase
  <2>3. RowAt(s, p, i) = IF i < Len(main) THEN main[i + 1]
                         ELSE IF i < base THEN closed[i - Len(main) + 1] ELSE p[i - base + 1]
    BY DEF RowAt
  <2> HIDE DEF i, main, closed, base
  <2>4. RowAt(s, p, i) \in Row
    BY <2>2, <2>3, StoreType
  <2> QED
    BY <2>4, CanonicalType DEF i
<1>6. LogicalRows(s, p, n) = [k \in 1..(s.base + n) |-> Canonical(RowAt(s, p, k - 1))]
  BY DEF LogicalRows, LogicalSize
<1>7. s.base + n \in Nat
  BY <1>1
<1> QED
  BY <1>5, <1>6, <1>7

LEMMA LogType ==
  ASSUME Inv
  PROVE  LogNow \in Seq(Row) /\ Len(LogNow) = LogicalLen /\ LogicalLen \in Nat
<1>1. /\ states[current] \in GenerationState /\ Covers(states[current])
      /\ ActiveRows(current) \in Seq(Row) /\ Len(ActiveRows(current)) \in Nat
  BY CurrentState, HeapFacts DEF Inv, CoreInv, TypeInv, TypeOK, ActiveRows
<1>2. Len(ActiveRows(current)) <= Len(ActiveRows(current))
  BY <1>1
<1>3. LogicalLen = states[current].base + Len(ActiveRows(current)) /\ LogicalLen \in Nat
  BY CurrentState DEF Inv, CoreInv, ActiveRows
<1> QED
  BY <1>1, <1>2, <1>3, ViewType DEF LogNow

LEMMA SeqIsFunction ==
  ASSUME NEW seq \in Seq(Row)
  PROVE  seq = [k \in 1..Len(seq) |-> seq[k]]
<1> DEFINE t == [k \in 1..Len(seq) |-> seq[k]]
<1>1. Len(seq) \in Nat /\ \A k \in 1..Len(seq) : seq[k] \in Row
  BY LenProperties, ElementOfSeq
<1>2. t \in Seq(Row) /\ Len(t) = Len(seq) /\ \A k \in 1..Len(seq) : seq[k] = t[k]
  BY <1>1
<1> HIDE DEF t
<1>3. seq = t
  BY <1>2, SeqEqual
<1> QED
  BY <1>3 DEF t

\* Only the publication of an append changes the log, by one row at the end.
LEMMA LogGrows ==
  ASSUME Inv, NEW w \in Writers, AppendPublish(w)
  PROVE  LogNow' = Append(LogNow, Canonical(wrow[w])) /\ wret'[w] = Len(LogNow)
<1> DEFINE x == Canonical(wrow[w])
<1>1. LogNow \in Seq(Row) /\ Len(LogNow) = LogicalLen /\ LogicalLen \in Nat
  BY LogType
<1>2. x \in Row
  BY CanonicalType, AppendPublishHeap DEF Inv, CoreInv
<1>3. /\ LogicalLen' = LogicalLen + 1 /\ wret'[w] = LogicalLen
      /\ \A i : i = LogicalLen => RowNow(i)' = x
      /\ \A i \in Nat : i < LogicalLen => RowNow(i)' = RowNow(i)
  BY PublishedRowKept DEF Inv
<1> HIDE DEF x
<1>4. /\ Append(LogNow, x) \in Seq(Row) /\ Len(Append(LogNow, x)) = LogicalLen + 1
      /\ \A k \in 1..LogicalLen : Append(LogNow, x)[k] = LogNow[k]
      /\ Append(LogNow, x)[LogicalLen + 1] = x
  BY <1>1, <1>2, AppendProperties
<1>5. ASSUME NEW k \in 1..(LogicalLen + 1)
      PROVE  RowNow(k - 1)' = Append(LogNow, x)[k]
  <2>1. CASE k = LogicalLen + 1
    <3>1. k - 1 = LogicalLen
      BY <1>1, <2>1
    <3> QED
      BY <1>3, <1>4, <2>1, <3>1
  <2>2. CASE k \in 1..LogicalLen
    <3>1. k - 1 \in Nat /\ k - 1 < LogicalLen
      BY <1>1, <2>2
    <3>2. LogNow[k] = RowNow(k - 1)
      BY <2>2, LogIsRows
    <3> QED
      BY <1>3, <1>4, <2>2, <3>1, <3>2
  <2> QED
    BY <1>1, <2>1, <2>2
<1>6. Append(LogNow, x) = [k \in 1..(LogicalLen + 1) |-> Append(LogNow, x)[k]]
  BY <1>4, SeqIsFunction
<1>7. LogNow' = [k \in 1..(LogicalLen + 1) |-> RowNow(k - 1)']
  BY <1>3, LogIsRows
<1> QED
  BY <1>1, <1>3, <1>5, <1>6, <1>7 DEF x

LEMMA LogKept ==
  ASSUME Inv, [Next]_vars, \A w \in Writers : ~AppendPublish(w)
  PROVE  LogNow' = LogNow
<1>1. LogicalLen' = LogicalLen /\ \A i \in Nat : i < LogicalLen => RowNow(i)' = RowNow(i)
  <2>1. CASE UNCHANGED columnVars
    BY <2>1 DEF columnVars, LogicalLen, RowNow, ActiveRows
  <2>2. CASE \E m \in Mergers : Freeze(m) \/ InstallHandoff(m) \/ Publish(m)
    BY <2>2, FreezeKeepsRows, HandoffKeepsRows, PublishKeepsRows DEF Inv
  <2> QED
    BY <2>1, <2>2, ColumnSteps
<1>2. ASSUME NEW k \in 1..LogicalLen PROVE RowNow(k - 1)' = RowNow(k - 1)
  <2>1. k - 1 \in Nat /\ k - 1 < LogicalLen
    BY LogType
  <2> QED
    BY <1>1, <2>1
<1> QED
  BY <1>1, <1>2, LogIsRows

-----------------------------------------------------------------------------
(* Views *)

\* A view is a sequence of rows, and so is not None.
LEMMA ViewIsRows ==
  ASSUME Inv, NEW i \in 1..Len(states), NEW n \in Nat, n <= Len(ActiveRows(i))
  PROVE  LogicalRows(states[i], ActiveRows(i), n) # None
<1>1. /\ states[i] \in GenerationState /\ Covers(states[i]) /\ ActiveRows(i) \in Seq(Row)
  BY HeapFacts DEF Inv, CoreInv, HeapInv, TypeInv, TypeOK, ActiveRows
<1>2. LogicalRows(states[i], ActiveRows(i), n) \in Seq(Row)
  BY <1>1, ViewType
<1> QED
  BY <1>2, ThreadsAssumption

\* All of a state whose active delta is the current one is the log.
LEMMA SharedView ==
  ASSUME Inv, NEW i \in 1..Len(states), states[i].active = states[current].active
  PROVE  LogicalRows(states[i], ActiveRows(i), Len(ActiveRows(i))) = LogNow
<1> DEFINE s == states[i]
           t == states[current]
           rows == ActiveRows(current)
<1>1. ActiveRows(i) = rows
  BY DEF ActiveRows
<1>2. SameRows(s, t)
  BY DEF Inv, LogInv, SharedInv
<1>3. /\ Len(s.main) \in Nat /\ s.base \in Nat /\ Len(s.main) <= s.base
      /\ Len(t.main) \in Nat /\ Len(t.main) <= t.base /\ Len(rows) \in Nat
  <2>1. \A k \in 1..Len(states) :
          /\ states[k] \in GenerationState /\ Covers(states[k]) /\ ActiveRows(k) \in Seq(Row)
    BY HeapFacts DEF Inv, CoreInv, HeapInv, TypeInv, TypeOK, ActiveRows
  <2>2. current \in 1..Len(states)
    BY LoadedState DEF Inv
  <2> QED
    BY <2>1, <2>2, MainBelowBase, LenProperties
<1> HIDE DEF s, t, rows
<1>4. ASSUME NEW k \in 1..(s.base + Len(rows))
      PROVE  Canonical(RowAt(s, rows, k - 1)) = Canonical(RowAt(t, rows, k - 1))
  <2>1. s.base = t.base
    BY <1>2 DEF SameRows
  <2>2. CASE k - 1 < s.base
    <3>1. k - 1 \in 0..(s.base - 1)
      BY <1>3, <2>2
    <3>2. /\ RowAt(s, rows, k - 1) = RowAt(s, << >>, k - 1)
          /\ RowAt(t, rows, k - 1) = RowAt(t, << >>, k - 1)
      BY <2>1, <2>2, BelowBase
    <3> QED
      BY <1>2, <3>1, <3>2 DEF SameRows
  <2>3. CASE ~(k - 1 < s.base)
    <3>1. ~(k - 1 < Len(s.main)) /\ ~(k - 1 < Len(t.main))
      BY <1>3, <2>1, <2>3
    <3> QED
      BY <2>1, <2>3, <3>1 DEF RowAt
  <2> QED
    BY <2>2, <2>3
<1>5. /\ LogicalRows(s, rows, Len(rows))
           = [k \in 1..(s.base + Len(rows)) |-> Canonical(RowAt(s, rows, k - 1))]
      /\ LogicalRows(t, rows, Len(rows))
           = [k \in 1..(s.base + Len(rows)) |-> Canonical(RowAt(t, rows, k - 1))]
  BY <1>2 DEF LogicalRows, LogicalSize, SameRows
<1>6. LogicalRows(s, rows, Len(rows)) = LogicalRows(t, rows, Len(rows))
  BY <1>4, <1>5
<1> QED
  BY <1>1, <1>6 DEF LogNow, s, t, rows

\* A closed delta stays as it is.
LEMMA ClosedLasts ==
  ASSUME Inv, [Next]_vars, NEW d \in 1..Len(deltas), deltas[d].closed
  PROVE  deltas'[d].closed /\ deltas'[d].rows = deltas[d].rows
<1>1. ASSUME NEW w \in Writers, AppendPublish(w), d = states[current].active PROVE FALSE
  <2>1. wpc[w] = "open" /\ states[wst[w]].active = d
    BY <1>1 DEF AppendPublish, Inv, CoreInv, WriterInv, StateSteps
  <2> QED
    BY <2>1 DEF Inv, LogInv, FrozenInv
<1> QED
  BY <1>1, HeapGrows DEF Inv

\* A prefix of a delta stays as it is.
LEMMA PrefixLasts ==
  ASSUME Inv, [Next]_vars, NEW i \in 1..Len(states), NEW n \in Nat, n <= Len(ActiveRows(i))
  PROVE  /\ states'[i] = states[i]
         /\ LogicalRows(states[i], deltas'[states[i].active].rows, n)
              = LogicalRows(states[i], ActiveRows(i), n)
<1> DEFINE s == states[i]
           rows == ActiveRows(i)
           grown == deltas'[s.active].rows
<1>1. /\ s.base \in Nat /\ rows \in Seq(Row) /\ Len(rows) \in Nat
      /\ s.active \in 1..Len(deltas) /\ rows = deltas[s.active].rows
  BY HeapFacts DEF Inv, TypeInv, TypeOK, ActiveRows
<1>2. CASE grown = rows
  BY <1>2, HeapGrows DEF Inv
<1>3. CASE \E w \in Writers : AppendPublish(w) /\ s.active = states[current].active
  <2> PICK w \in Writers : AppendPublish(w) /\ s.active = states[current].active
    BY <1>3
  <2>1. wrow[w] \in Row /\ grown = Append(rows, wrow[w])
    BY <1>1, AppendPublishHeap DEF Inv, CoreInv
  <2>2. ASSUME NEW k \in 1..(s.base + n) PROVE RowAt(s, grown, k - 1) = RowAt(s, rows, k - 1)
    <3>1. n <= Len(rows)
      OBVIOUS
    <3> HIDE DEF s, rows, grown
    <3>2. ASSUME NEW base \in Nat, NEW length \in Nat, n <= length, k \in 1..(base + n)
          PROVE  k - 1 \in Nat /\ k - 1 < base + length
      BY <3>2
    <3>3. k - 1 \in Nat /\ k - 1 < s.base + Len(rows)
      BY <1>1, <3>1, <3>2
    <3> QED
      BY <1>1, <2>1, <3>3, PrefixGrows
  <2>3. \A p : LogicalRows(s, p, n) = [k \in 1..(s.base + n) |-> Canonical(RowAt(s, p, k - 1))]
    BY DEF LogicalRows, LogicalSize
  <2> HIDE DEF s, rows, grown
  <2>4. LogicalRows(s, grown, n) = LogicalRows(s, rows, n)
    BY <2>2, <2>3
  <2> QED
    BY <2>4, HeapGrows DEF Inv, s, rows, grown
<1> QED
  BY <1>1, <1>2, <1>3, HeapGrows DEF Inv

\* What a reader sees does not change while others step, except that a freeze
\* settles the views that are being acquired.
LEMMA ViewLasts ==
  ASSUME Inv, [Next]_vars, NEW r \in Readers,
         rpc'[r] = rpc[r], rst'[r] = rst[r], rlen'[r] = rlen[r]
  PROVE  \/ ViewOf(r)' = ViewOf(r)
         \/ /\ rpc[r] = "loaded" /\ ViewOf(r) = None /\ ViewOf(r)' = LogNow
            /\ \E m \in Mergers : Freeze(m)
<1> DEFINE i == rst[r]
           d == states[i].active
<1>1. CASE rpc[r] \in {"sized", "view"}
  <2>1. i \in 1..Len(states) /\ rlen[r] \in Nat /\ rlen[r] <= Len(ActiveRows(i))
    BY <1>1, LoadedState DEF Inv, TypeInv, TypeOK, ReaderType, LogInv, PrefixInv
  <2>2. ViewOf(r) = LogicalRows(states[i], ActiveRows(i), rlen[r])
    BY <1>1 DEF ViewOf, ViewRows
  <2>3. ViewOf(r)' = LogicalRows(states'[i], deltas'[states'[i].active].rows, rlen[r])
    BY <1>1 DEF ViewOf, ViewRows, ActiveRows
  <2> QED
    BY <2>1, <2>2, <2>3, PrefixLasts
<1>2. CASE rpc[r] = "loaded" /\ deltas[d].closed
  <2>1. i \in 1..Len(states) /\ d \in 1..Len(deltas) /\ Len(ActiveRows(i)) \in Nat
    BY <1>2, LoadedState, HeapFacts DEF Inv, TypeInv, TypeOK, ActiveRows
  <2>2. /\ states'[i] = states[i]
        /\ deltas'[d].closed /\ deltas'[d].rows = ActiveRows(i)
    BY <1>2, <2>1, ClosedLasts, HeapGrows DEF Inv, ActiveRows
  <2>3. ViewOf(r) = LogicalRows(states[i], ActiveRows(i), Len(ActiveRows(i)))
    BY <1>2 DEF ViewOf, ViewRows
  <2>4. ViewOf(r)' = LogicalRows(states[i], ActiveRows(i), Len(ActiveRows(i)))
    BY <1>2, <2>2 DEF ViewOf, ViewRows, ActiveRows
  <2> QED
    BY <2>3, <2>4
<1>3. CASE rpc[r] = "loaded" /\ ~deltas[d].closed
  <2>1. /\ i \in 1..Len(states) /\ d \in 1..Len(deltas) /\ states'[i] = states[i]
        /\ d = states[current].active
    BY <1>3, LoadedState, HeapGrows DEF Inv, LogInv, FrozenInv
  <2>2. ViewOf(r) = None
    BY <1>3 DEF ViewOf
  <2>3. CASE ~deltas'[d].closed
    BY <1>3, <2>1, <2>2, <2>3 DEF ViewOf
  <2>4. CASE deltas'[d].closed
    <3>1. PICK m \in Mergers : Freeze(m)
      <4>1. \A w \in Writers : AppendPublish(w) => deltas'[d].closed = deltas[d].closed
        BY <2>1, AppendPublishHeap DEF Inv, CoreInv
      <4>2. \A m \in Mergers : InstallHandoff(m) => deltas'[d] = deltas[d]
        BY <2>1, InstallHandoffHeap DEF Inv
      <4>3. \A m \in Mergers : Publish(m) => deltas' = deltas
        BY DEF Publish
      <4> QED
        BY <1>3, <2>4, <4>1, <4>2, <4>3, ColumnSteps DEF columnVars
    <3>2. deltas'[d].rows = deltas[d].rows
      BY <2>1, <3>1, FreezeHeap DEF Inv
    <3>3. ViewOf(r)' = LogicalRows(states[i], ActiveRows(i), Len(ActiveRows(i)))
      BY <1>3, <2>1, <2>4, <3>2 DEF ViewOf, ViewRows, ActiveRows
    <3> QED
      BY <1>3, <2>1, <2>2, <3>1, <3>3, SharedView
  <2> QED
    BY <2>3, <2>4
<1>4. CASE rpc[r] \notin {"loaded", "sized", "view"}
  BY <1>4 DEF ViewOf
<1> QED
  BY <1>1, <1>2, <1>3, <1>4

-----------------------------------------------------------------------------
(* Steps *)

LEMMA PendingIsRow ==
  ASSUME Inv, NEW w \in Writers, wpc[w] # "idle"
  PROVE  Pending[w] \in Row /\ Pending[w] # None /\ Pending[w] = Canonical(wrow[w])
<1>1. wrow[w] \in Row
  BY DEF Inv, TypeInv, TypeOK, WriterType, WriterLocals
<1> QED
  BY <1>1, CanonicalType, ThreadsAssumption DEF Pending

\* Where nobody freezes and no reader steps, the views stay.
LEMMA ViewsKept ==
  ASSUME Inv, [Next]_vars, UNCHANGED <<readerVars, mpc>>
  PROVE  Reading' = Reading /\ Views' = Views
<1>1. \A m \in Mergers : ~Freeze(m)
  <2> SUFFICES ASSUME NEW m \in Mergers, Freeze(m) PROVE FALSE
    OBVIOUS
  <2>1. mpc[m] = "freeze" /\ mpc'[m] = "snapshot"
    BY DEF Freeze, MergeStep, Inv, TypeInv, TypeOK, MergerType
  <2> QED
    BY <2>1
<1>2. \A r \in Readers : ViewOf(r)' = ViewOf(r)
  BY <1>1, ViewLasts DEF readerVars
<1> QED
  BY <1>2 DEF Reading, Views, readerVars

LEMMA WriterRefines ==
  ASSUME Inv, NEW w \in Writers, WriterNext(w)
  PROVE  Log!LogNext \/ UNCHANGED Log!logVars
<1>1. [Next]_vars
  BY DEF Next
<1>2. Reading' = Reading /\ Views' = Views
  BY <1>1, WriterFrame, ViewsKept DEF writerFrame, mergerVars
<1>3. /\ wpc \in [Writers -> {"idle", "calling", "locked", "loaded", "open", "published"}]
      /\ wrow \in [Writers -> Row \cup {None}] /\ wret \in [Writers -> Nat \cup {None}]
  BY DEF Inv, TypeInv, TypeOK, WriterType
<1>4. ASSUME NEW row \in Row, AppendCall(w, row) PROVE Log!CallAppend(w, Canonical(row))
  <2>1. /\ Pending[w] = None
        /\ Pending' = [Pending EXCEPT ![w] = Canonical(row)]
    BY <1>3, <1>4 DEF AppendCall, Pending
  <2>2. LogNow' = LogNow
    BY <1>4 DEF AppendCall, writerFrame, LogNow, ActiveRows
  <2> QED
    BY <1>2, <1>4, <2>1, <2>2 DEF AppendCall, Log!CallAppend
<1>5. ASSUME AppendLock(w) \/ AppendLoad(w) \/ AppendCheck(w)
      PROVE  UNCHANGED Log!logVars
  <2>1. UNCHANGED <<states, deltas, current, wret>>
    BY <1>5 DEF AppendLock, AppendLoad, AppendCheck, writerFrame
  <2>2. LogNow' = LogNow
    BY <2>1 DEF LogNow, ActiveRows
  <2>3. Pending' = Pending
    BY <1>3, <1>5 DEF AppendLock, AppendLoad, AppendCheck, Pending
  <2> QED
    BY <1>2, <2>1, <2>2, <2>3 DEF Log!logVars
<1>6. ASSUME AppendThrows(w) \/ AppendReturn(w) PROVE Log!ReturnAppend(w)
  <2>1. UNCHANGED <<states, deltas, current, wret>>
    BY <1>6 DEF AppendThrows, AppendReturn, LeaveAppend, writerFrame
  <2>2. LogNow' = LogNow
    BY <2>1 DEF LogNow, ActiveRows
  <2>3. Pending[w] # None
    BY <1>6, PendingIsRow DEF AppendThrows, AppendReturn
  <2>4. Pending' = [Pending EXCEPT ![w] = None]
    BY <1>3, <1>6 DEF AppendThrows, AppendReturn, LeaveAppend, Pending
  <2> QED
    BY <1>2, <2>1, <2>2, <2>3, <2>4 DEF Log!ReturnAppend
<1>7. ASSUME AppendPublish(w) PROVE Log!Commit(w)
  <2>1. wpc[w] = "open" /\ wpc' = [wpc EXCEPT ![w] = "published"] /\ UNCHANGED wrow
    BY <1>7 DEF AppendPublish
  <2>2. wret[w] = None
    BY <2>1 DEF Inv, LogInv, AnswerInv
  <2>3. Pending[w] # None /\ Pending[w] = Canonical(wrow[w])
    BY <2>1, PendingIsRow
  <2>4. LogNow' = Append(LogNow, Pending[w]) /\ wret'[w] = Len(LogNow)
    BY <1>7, <2>3, LogGrows
  <2>5. wret' = [wret EXCEPT ![w] = Len(LogNow)]
    BY <1>3, <1>7, <2>4 DEF AppendPublish
  <2>6. Pending' = Pending
    BY <1>3, <2>1 DEF Pending
  <2> QED
    BY <1>2, <2>2, <2>3, <2>4, <2>5, <2>6 DEF Log!Commit
<1>8. \A row \in Row : Log!CallAppend(w, Canonical(row)) => Log!LogNext
  BY DEF Log!LogNext
<1>9. Log!ReturnAppend(w) \/ Log!Commit(w) => Log!LogNext
  BY DEF Log!LogNext
<1> QED
  BY <1>4, <1>5, <1>6, <1>7, <1>8, <1>9 DEF WriterNext, AppendStep

\* No step of merge_once is seen, but for the freeze, at which views take effect.
LEMMA MergerRefines ==
  ASSUME Inv, NEW m \in Mergers, MergerNext(m)
  PROVE  Log!LogNext
<1> DEFINE R == {r \in Readers : ViewOf(r)' # ViewOf(r)}
<1>1. [Next]_vars
  BY DEF Next
<1>2. UNCHANGED writerVars /\ UNCHANGED readerVars
  BY MergerFrame DEF mergerFrame
<1>3. LogNow' = LogNow
  <2>1. \A w \in Writers : ~AppendPublish(w)
    BY <1>2 DEF AppendPublish, writerVars, Inv, TypeInv, TypeOK, WriterType
  <2> QED
    BY <1>1, <2>1, LogKept
<1>4. Pending' = Pending /\ wret' = wret /\ Reading' = Reading
  BY <1>2 DEF writerVars, readerVars, Pending, Reading
<1>5. \A r \in R : rpc[r] = "loaded" /\ ViewOf(r) = None /\ ViewOf(r)' = LogNow
  BY <1>1, <1>2, ViewLasts DEF readerVars
<1>6. \A r \in R : r \in Reading /\ Views[r] = None
  BY <1>5 DEF Reading, Views
<1>7. Views' = [r \in Readers |-> IF r \in R THEN LogNow ELSE Views[r]]
  BY <1>5 DEF Views
<1>8. R \in SUBSET Readers
  OBVIOUS
<1>9. Log!TakeViews(R)
  BY <1>3, <1>4, <1>6, <1>7 DEF Log!TakeViews
<1> QED
  BY <1>8, <1>9 DEF Log!LogNext

LEMMA ObserverRefines ==
  ASSUME NEW o \in Observers, ObserverNext(o)
  PROVE  UNCHANGED Log!logVars
<1>1. UNCHANGED columnVars /\ UNCHANGED writerVars /\ UNCHANGED readerVars
  BY ObserverFrame DEF observerFrame
<1> QED
  BY <1>1 DEF Log!logVars, columnVars, writerVars, readerVars, LogNow, ActiveRows, Pending,
     Reading, Views, ViewOf, ViewRows

LEMMA ReaderRefines ==
  ASSUME Inv, NEW r \in Readers, ReaderNext(r)
  PROVE  Log!LogNext \/ UNCHANGED Log!logVars
<1>1. UNCHANGED columnVars /\ UNCHANGED writerVars
  BY ReaderFrame DEF readerFrame
<1>2. LogNow' = LogNow /\ Pending' = Pending /\ wret' = wret
  BY <1>1 DEF columnVars, writerVars, LogNow, ActiveRows, Pending
<1>3. /\ rpc \in [Readers -> {"idle", "calling", "loaded", "sized", "view"}]
      /\ DOMAIN rst = Readers /\ DOMAIN rlen = Readers
  BY DEF Inv, TypeInv, TypeOK, ReaderType
<1>4. \A x \in Readers \ {r} :
        /\ rpc'[x] = rpc[x] /\ rst'[x] = rst[x] /\ rlen'[x] = rlen[x]
        /\ ViewOf(x)' = ViewOf(x)
  <2>1. \A x \in Readers \ {r} : rpc'[x] = rpc[x] /\ rst'[x] = rst[x] /\ rlen'[x] = rlen[x]
    BY <1>3 DEF ReaderNext, ReadCall, ReadLoad, ReadPrefix, ReadReturn, ReadThrows, DropView,
       ReadStep, LeaveRead
  <2> QED
    BY <1>1, <2>1 DEF columnVars, ViewOf, ViewRows, ActiveRows
<1>5. Views' = [Views EXCEPT ![r] = ViewOf(r)'] /\ Views[r] = ViewOf(r)
  BY <1>4 DEF Views
<1>6. ASSUME ViewOf(r)' = ViewOf(r) PROVE Views' = Views
  BY <1>5, <1>6 DEF Views
<1>7. ASSUME ViewOf(r)' = LogNow, ViewOf(r) = None, r \in Reading, Reading' = Reading
      PROVE  Log!LogNext
  <2>1. Views' = [x \in Readers |-> IF x \in {r} THEN LogNow ELSE Views[x]]
    BY <1>5, <1>7 DEF Views
  <2>2. Log!TakeViews({r})
    BY <1>2, <1>5, <1>7, <2>1 DEF Log!TakeViews
  <2> QED
    BY <2>2 DEF Log!LogNext
<1>8. CASE ReadCall(r)
  <2>1. rpc[r] = "idle" /\ rpc'[r] = "calling" /\ ViewOf(r) = None /\ ViewOf(r)' = None
    BY <1>3, <1>8 DEF ReadCall, ReadStep, ViewOf
  <2>2. Reading' = Reading \cup {r} /\ r \notin Reading
    BY <1>4, <2>1 DEF Reading
  <2>3. Log!CallRead(r)
    BY <1>2, <1>5, <1>6, <2>1, <2>2 DEF Log!CallRead
  <2> QED
    BY <2>3 DEF Log!LogNext
<1>9. CASE ReadLoad(r)
  <2>1. /\ rpc[r] = "calling" /\ rpc'[r] = "loaded" /\ rst'[r] = current
        /\ UNCHANGED <<states, deltas>>
    BY <1>1, <1>3, <1>9 DEF ReadLoad, ReadStep, columnVars
  <2>2. Reading' = Reading /\ r \in Reading
    BY <1>4, <2>1 DEF Reading
  <2>3. ViewOf(r) = None /\ ViewOf(r)' \in {None, LogNow}
    BY <2>1 DEF ViewOf, ViewRows, LogNow, ActiveRows
  <2>4. CASE ViewOf(r)' = None
    BY <1>2, <1>6, <2>2, <2>3, <2>4 DEF Log!logVars
  <2> QED
    BY <1>7, <2>2, <2>3, <2>4
<1>10. CASE ReadPrefix(r)
  <2> DEFINE i == rst[r]
  <2>1. /\ rpc[r] = "loaded" /\ rpc'[r] = "sized" /\ rst'[r] = i
        /\ rlen'[r] = Len(ActiveRows(i)) /\ UNCHANGED <<states, deltas>>
    BY <1>1, <1>3, <1>10 DEF ReadPrefix, ReadStep, columnVars
  <2>2. Reading' = Reading /\ r \in Reading
    BY <1>4, <2>1 DEF Reading
  <2>3. ViewOf(r)' = LogicalRows(states[i], ActiveRows(i), Len(ActiveRows(i)))
    BY <2>1 DEF ViewOf, ViewRows, ActiveRows
  <2>4. CASE deltas[states[i].active].closed
    <3>1. ViewOf(r)' = ViewOf(r)
      BY <2>1, <2>3, <2>4 DEF ViewOf, ViewRows
    <3> QED
      BY <1>2, <1>6, <2>2, <3>1 DEF Log!logVars
  <2>5. CASE ~deltas[states[i].active].closed
    <3>1. i \in 1..Len(states) /\ states[i].active = states[current].active
      BY <2>1, <2>5, LoadedState DEF Inv, LogInv, FrozenInv
    <3>2. ViewOf(r)' = LogNow /\ ViewOf(r) = None
      BY <2>1, <2>3, <2>5, <3>1, SharedView DEF ViewOf
    <3> QED
      BY <1>7, <2>2, <3>2
  <2> QED
    BY <2>4, <2>5
<1>11. rpc[r] \in {"sized", "view"} => ViewOf(r) # None
  <2> SUFFICES ASSUME rpc[r] \in {"sized", "view"} PROVE ViewOf(r) # None
    OBVIOUS
  <2>1. rst[r] \in 1..Len(states) /\ rlen[r] \in Nat /\ rlen[r] <= Len(ActiveRows(rst[r]))
    BY LoadedState DEF Inv, TypeInv, TypeOK, ReaderType, LogInv, PrefixInv
  <2>2. ViewOf(r) = LogicalRows(states[rst[r]], ActiveRows(rst[r]), rlen[r])
    BY DEF ViewOf, ViewRows
  <2> QED
    BY <2>1, <2>2, ViewIsRows
<1>12. CASE ReadReturn(r)
  <2>1. /\ rpc[r] = "sized" /\ rpc'[r] = "view" /\ UNCHANGED <<rst, rlen, states, deltas>>
    BY <1>1, <1>3, <1>12 DEF ReadReturn, ReadStep, columnVars
  <2>2. Reading' = Reading \ {r} /\ r \in Reading
    BY <1>4, <2>1 DEF Reading
  <2>3. ViewOf(r)' = ViewOf(r)
    BY <2>1 DEF ViewOf, ViewRows, ActiveRows
  <2>4. Log!ReturnRead(r)
    BY <1>2, <1>5, <1>6, <1>11, <2>1, <2>2, <2>3 DEF Log!ReturnRead
  <2> QED
    BY <2>4 DEF Log!LogNext
<1>13. CASE ReadThrows(r)
  <2>1. rpc[r] = "sized" /\ rpc'[r] = "idle" /\ ViewOf(r)' = None
    BY <1>3, <1>13 DEF ReadThrows, ReadStep, ViewOf
  <2>2. Reading' = Reading \ {r} /\ r \in Reading
    BY <1>4, <2>1 DEF Reading
  <2>3. Log!FailRead(r)
    BY <1>2, <1>5, <2>1, <2>2 DEF Log!FailRead
  <2> QED
    BY <2>3 DEF Log!LogNext
<1>14. CASE DropView(r)
  <2>1. rpc[r] = "view" /\ rpc'[r] = "idle" /\ ViewOf(r)' = None
    BY <1>3, <1>14 DEF DropView, ReadStep, ViewOf
  <2>2. Reading' = Reading /\ r \notin Reading
    BY <1>4, <2>1 DEF Reading
  <2>3. Log!DropView(r)
    BY <1>2, <1>5, <1>11, <2>1, <2>2 DEF Log!DropView
  <2> QED
    BY <2>3 DEF Log!LogNext
<1> QED
  BY <1>8, <1>9, <1>10, <1>12, <1>13, <1>14 DEF ReaderNext

LEMMA InitRefines == Init => Log!LogInit
<1> SUFFICES ASSUME Init PROVE Log!LogInit
  OBVIOUS
<1>1. /\ MainColumn(Initial) \in Seq(Row) /\ Len(MainColumn(Initial)) = Len(Initial)
      /\ Len(Initial) \in Nat
      /\ \A k \in 1..Len(Initial) : MainColumn(Initial)[k] = Canonical(Initial[k])
  BY InitialAssumption, MainColumnType, LenProperties
<1>2. /\ states[current].main = MainColumn(Initial) /\ states[current].base = Len(Initial)
      /\ ActiveRows(current) = << >>
  BY DEF Init, ActiveRows
<1>3. LogNow = MainColumn(Initial)
  <2>1. LogNow = [k \in 1..Len(Initial) |-> Canonical(RowAt(states[current], << >>, k - 1))]
    BY <1>1, <1>2 DEF LogNow, LogicalRows, LogicalSize
  <2>2. ASSUME NEW k \in 1..Len(Initial)
        PROVE  Canonical(RowAt(states[current], << >>, k - 1)) = MainColumn(Initial)[k]
    <3>1. k - 1 < Len(states[current].main) /\ k - 1 + 1 = k
      BY <1>1, <1>2
    <3>2. RowAt(states[current], << >>, k - 1) = Canonical(Initial[k])
      BY <1>1, <1>2, <3>1 DEF RowAt
    <3> QED
      BY <1>1, <3>2, CanonicalIdempotent
  <2>3. MainColumn(Initial) = [k \in 1..Len(Initial) |-> MainColumn(Initial)[k]]
    BY <1>1, SeqIsFunction
  <2> QED
    BY <2>1, <2>2, <2>3
<1>4. /\ Pending = [w \in Writers |-> None] /\ wret = [w \in Writers |-> None]
      /\ Reading = {} /\ Views = [r \in Readers |-> None]
  BY DEF Init, Pending, Reading, Views, ViewOf
<1> QED
  BY <1>3, <1>4 DEF Log!LogInit

-----------------------------------------------------------------------------
\* The column is a linearizable append-only log for its callers, for any number of
\* threads, rows and merges, merges that throw included.
THEOREM ColumnIsALog == Spec => ImplementsAppendLog
<1>1. IInv /\ [Next]_vars => [Log!LogNext]_(Log!logVars)
  <2> SUFFICES ASSUME Inv, [Next]_vars PROVE Log!LogNext \/ UNCHANGED Log!logVars
    BY DEF IInv, Inv, CoreInv
  <2>1. UNCHANGED vars => UNCHANGED Log!logVars
    BY DEF vars, columnVars, writerVars, readerVars, Log!logVars, LogNow, ActiveRows,
       Pending, Reading, Views, ViewOf, ViewRows
  <2> QED
    BY <2>1, WriterRefines, MergerRefines, ReaderRefines, ObserverRefines DEF Next
<1> QED
  BY <1>1, InitRefines, InductiveInvariant, PTL DEF Spec, ImplementsAppendLog, Log!LogSpec

-----------------------------------------------------------------------------
(* The deltas *)

\* The local for the frozen prefix is null until freeze returns.
JobInv == \A m \in Mergers : mpc[m] \notin ClosedSteps => job[m].closed = NoDelta

DeltasInv == Inv /\ JobInv

LEMMA MergerStepsAlone ==
  ASSUME TypeInv, NEW m \in Mergers, MergerNext(m), NEW n \in Mergers, n # m
  PROVE  mpc'[n] = mpc[n] /\ job'[n] = job[n]
BY DEF MergerNext, HandoffStep, RebuildStep, MergeTryLock, MergeBegin, MergeRefused,
   HandoffLock, Freeze, FreezeSnapshot, FreshBase, InstallHandoff, NextActive,
   RetireInput, RecordInput, ReleaseInput, LockRetired, RecordRetired, ReleaseOld,
   EnterBuilding, Build, EnterPublishing, Publish, RetireHandoff, RecordHandoff,
   ReleaseHandoff, EnterRetired, EnterStable, Advance, Account, Sample, MergedRows,
   MergeReturn, MergeRejected, MergeThrows, LeaveMerge, MergeStep, mergerVars, TypeInv,
   TypeOK, MergerType

LEMMA JobKept ==
  ASSUME TypeInv, LockInv, JobInv, [Next]_vars
  PROVE  JobInv'
<1>1. ASSUME NEW m \in Mergers, MergerNext(m) PROVE JobInv'
  <2>1. \A n \in Mergers \ {m} : mpc'[n] = mpc[n] /\ job'[n] = job[n]
    BY <1>1, MergerStepsAlone
  <2>2. mpc'[m] \notin ClosedSteps => job'[m].closed = NoDelta
    BY <1>1 DEF MergerNext, HandoffStep, RebuildStep, MergeTryLock, MergeBegin,
       MergeRefused, HandoffLock, Freeze, FreezeSnapshot, FreshBase, InstallHandoff,
       NextActive, RetireInput, RecordInput, ReleaseInput, LockRetired, RecordRetired,
       ReleaseOld, EnterBuilding, Build, EnterPublishing, Publish, RetireHandoff,
       RecordHandoff, ReleaseHandoff, EnterRetired, EnterStable, Advance, Account,
       Sample, MergedRows, MergeReturn, MergeRejected, MergeThrows, LeaveMerge,
       MergeStep, NoJob, JobInv, ClosedSteps, FreshSteps, HandedOff, PublishedSteps,
       TypeInv, TypeOK, MergerType, Job
  <2> QED
    BY <2>1, <2>2 DEF JobInv
<1>2. UNCHANGED mergerVars => JobInv'
  BY DEF mergerVars, JobInv
<1>3. ASSUME NEW w \in Writers, WriterNext(w) PROVE UNCHANGED mergerVars
  BY <1>3, WriterFrame DEF writerFrame
<1>4. ASSUME NEW r \in Readers, ReaderNext(r) PROVE UNCHANGED mergerVars
  BY <1>4, ReaderFrame DEF readerFrame
<1>5. ASSUME NEW o \in Observers, ObserverNext(o) PROVE UNCHANGED mergerVars
  BY <1>5, ObserverFrame DEF observerFrame
<1>6. UNCHANGED vars => UNCHANGED mergerVars
  BY DEF vars
<1> QED
  BY <1>1, <1>2, <1>3, <1>4, <1>5, <1>6 DEF Next

-----------------------------------------------------------------------------
(* One delta *)

LEMMA PrefixOfAppend ==
  ASSUME NEW rows \in Seq(Row), NEW row \in Row, NEW n \in Nat, n <= Len(rows)
  PROVE  SubSeq(Append(rows, row), 1, n) = SubSeq(rows, 1, n)
OBVIOUS

\* A prefix that a thread has stays what it is.
LEMMA ReaderPrefixKept ==
  ASSUME DeltasInv, [Next]_vars, NEW d, NEW r \in Readers,
         rpc'[r] \in {"sized", "view"} <=> rpc[r] \in {"sized", "view"},
         rpc[r] \in {"sized", "view"} => rst'[r] = rst[r] /\ rlen'[r] = rlen[r]
  PROVE  PrefixOf(r, d)' = PrefixOf(r, d)
<1>1. CASE rpc[r] \notin {"sized", "view"}
  BY <1>1 DEF PrefixOf
<1>2. CASE rpc[r] \in {"sized", "view"}
  <2> DEFINE i == rst[r]
  <2>1. i \in 1..Len(states) /\ rlen[r] \in Nat
    BY <1>2, LoadedState DEF DeltasInv, Inv, TypeInv, TypeOK, ReaderType
  <2>2. states'[i] = states[i]
    BY <2>1, HeapGrows DEF DeltasInv, Inv
  <2>3. rlen[r] <= Len(deltas[states[i].active].rows)
    BY <1>2 DEF DeltasInv, Inv, LogInv, PrefixInv, ActiveRows
  <2>4. states[i].active \in 1..Len(deltas)
    BY <1>2, LoadedState DEF DeltasInv, Inv
  <2>5. ASSUME states[i].active = d
        PROVE  SubSeq(deltas'[d].rows, 1, rlen[r]) = SubSeq(deltas[d].rows, 1, rlen[r])
    <3>1. deltas[d].rows \in Seq(Row) /\ Len(deltas[d].rows) \in Nat
      BY <2>4, <2>5, HeapFacts DEF DeltasInv, Inv, TypeInv, TypeOK
    <3>2. CASE deltas'[d].rows = deltas[d].rows
      BY <3>2
    <3>3. CASE d = states[current].active /\ \E w \in Writers : AppendPublish(w)
      <4>1. PICK w \in Writers : AppendPublish(w)
        BY <3>3
      <4>2. deltas'[d].rows = Append(deltas[d].rows, wrow[w]) /\ wrow[w] \in Row
        BY <3>3, <4>1, AppendPublishHeap DEF DeltasInv, Inv, CoreInv
      <4> QED
        BY <2>1, <2>3, <2>5, <3>1, <4>2, PrefixOfAppend
    <3> QED
      BY <2>4, <2>5, <3>2, <3>3, HeapGrows DEF DeltasInv, Inv
  <2> QED
    BY <1>2, <2>2, <2>5 DEF PrefixOf
<1> QED
  BY <1>1, <1>2

LEMMA MergerPrefixKept ==
  ASSUME DeltasInv, [Next]_vars, NEW d, NEW m \in Mergers, m \notin Readers,
         job'[m].closed = job[m].closed,
         job[m].closed # NoDelta => job'[m].input = job[m].input
  PROVE  PrefixOf(m, d)' = PrefixOf(m, d)
<1>1. CASE job[m].closed = NoDelta
  BY <1>1 DEF PrefixOf
<1>2. CASE job[m].closed # NoDelta
  <2> DEFINE i == job[m].input
  <2>1. mpc[m] \in ClosedSteps
    BY <1>2 DEF DeltasInv, JobInv
  <2>2. i \in Ref /\ i # 0
    BY <2>1 DEF DeltasInv, Inv, TypeInv, TypeOK, MergerType, MergerLocals, Job, InputSteps
  <2>3. i \in 1..Len(states)
    BY <2>2, HeapFacts DEF DeltasInv, Inv, TypeInv, TypeOK
  <2>4. states'[i] = states[i]
    BY <2>3, HeapGrows DEF DeltasInv, Inv
  <2> QED
    BY <1>2, <2>4 DEF PrefixOf
<1> QED
  BY <1>1, <1>2

\* What the step of a thread may do to delta d.
DeltaStep(d) == Delta(d)!DeltaNext \/ UNCHANGED Delta(d)!deltaVars

LEMMA SameDelta ==
  ASSUME NEW d, UNCHANGED deltas, DeltaPrefixes(d)' = DeltaPrefixes(d)
  PROVE  DeltaStep(d)
BY DEF DeltaStep, Delta!deltaVars, DeltaRows, DeltaClosed

\* All prefixes stay while neither a reader nor a merger has to do with them.
LEMMA PrefixesKept ==
  ASSUME DeltasInv, [Next]_vars, NEW d, UNCHANGED <<readerVars, job>>
  PROVE  DeltaPrefixes(d)' = DeltaPrefixes(d)
BY ReaderPrefixKept, MergerPrefixKept DEF DeltaPrefixes, readerVars

LEMMA WriterDelta ==
  ASSUME DeltasInv, NEW d, NEW w \in Writers, WriterNext(w)
  PROVE  DeltaStep(d)
<1>1. [Next]_vars /\ UNCHANGED writerFrame
  BY WriterFrame DEF Next
<1>2. DeltaPrefixes(d)' = DeltaPrefixes(d)
  BY <1>1, PrefixesKept DEF writerFrame, mergerVars
<1>3. CASE UNCHANGED deltas
  BY <1>2, <1>3, SameDelta
<1>4. CASE AppendPublish(w)
  <2> DEFINE a == states[current].active
  <2>1. /\ wrow[w] \in Row /\ Len(deltas') = Len(deltas)
        /\ deltas'[a].rows = Append(deltas[a].rows, wrow[w])
        /\ \A e \in 1..Len(deltas) : deltas'[e].closed = deltas[e].closed
        /\ \A e \in 1..Len(deltas) : e # a => deltas'[e] = deltas[e]
    BY <1>4, AppendPublishHeap DEF DeltasInv, Inv, CoreInv
  <2>2. DOMAIN deltas = 1..Len(deltas) /\ DOMAIN deltas' = 1..Len(deltas)
    <3>1. DOMAIN deltas = 1..Len(deltas)
      BY DEF DeltasInv, Inv, TypeInv, TypeOK, HeapType
    <3>2. DOMAIN deltas' = DOMAIN deltas
      BY <1>4 DEF AppendPublish
    <3> QED
      BY <3>1, <3>2
  <2>3. states[wst[w]].active = a /\ ~deltas[a].closed /\ a \in 1..Len(deltas)
    BY <1>4, LoadedState DEF AppendPublish, DeltasInv, Inv, CoreInv, WriterInv, StateSteps,
       LogInv, FrozenInv
  <2> HIDE DEF a
  <2>4. CASE d = a
    <3>1. Delta(d)!PublishRow(wrow[w])
      BY <1>2, <2>1, <2>2, <2>3, <2>4 DEF Delta!PublishRow, DeltaRows, DeltaClosed
    <3> QED
      BY <2>1, <3>1 DEF DeltaStep, Delta!DeltaNext
  <2>5. CASE d # a
    BY <1>2, <2>1, <2>2, <2>5 DEF DeltaStep, Delta!deltaVars, DeltaRows, DeltaClosed
  <2> QED
    BY <2>4, <2>5
<1> QED
  BY <1>3, <1>4, WriterFrame

LEMMA ReaderDelta ==
  ASSUME DeltasInv, NEW d, NEW r \in Readers, ReaderNext(r)
  PROVE  DeltaStep(d)
<1>1. [Next]_vars /\ UNCHANGED readerFrame
  BY ReaderFrame DEF Next
<1>2. UNCHANGED <<states, deltas, mpc, job>>
  BY <1>1 DEF readerFrame, columnVars, mergerVars
<1>3. /\ rpc \in [Readers -> {"idle", "calling", "loaded", "sized", "view"}]
      /\ DOMAIN rst = Readers /\ DOMAIN rlen = Readers
  BY DEF DeltasInv, Inv, TypeInv, TypeOK, ReaderType
<1>4. \A t \in (Readers \cup Mergers) \ {r} : PrefixOf(t, d)' = PrefixOf(t, d)
  <2>1. \A x \in Readers \ {r} : rpc'[x] = rpc[x] /\ rst'[x] = rst[x] /\ rlen'[x] = rlen[x]
    BY <1>3 DEF ReaderNext, ReadCall, ReadLoad, ReadPrefix, ReadReturn, ReadThrows, DropView,
       ReadStep, LeaveRead
  <2> QED
    BY <1>2, <2>1 DEF PrefixOf
<1>5. DeltaPrefixes(d)' = [DeltaPrefixes(d) EXCEPT ![r] = PrefixOf(r, d)']
  BY <1>4 DEF DeltaPrefixes
<1>6. CASE ReadCall(r) \/ ReadLoad(r) \/ ReadReturn(r)
  <2>1. PrefixOf(r, d)' = PrefixOf(r, d)
    BY <1>2, <1>3, <1>6 DEF ReadCall, ReadLoad, ReadReturn, ReadStep, PrefixOf
  <2> QED
    BY <1>2, <1>5, <2>1, SameDelta DEF DeltaPrefixes
<1>7. CASE ReadPrefix(r)
  <2>1. /\ rpc[r] = "loaded" /\ rpc'[r] = "sized" /\ rst'[r] = rst[r]
        /\ rlen'[r] = Len(ActiveRows(rst[r]))
    BY <1>3, <1>7 DEF ReadPrefix, ReadStep
  <2>2. PrefixOf(r, d) = None
    BY <2>1 DEF PrefixOf
  <2>3. CASE states[rst[r]].active = d
    <3>1. d \in 1..Len(deltas) /\ ActiveRows(rst[r]) = deltas[d].rows
      BY <2>1, <2>3, LoadedState DEF ActiveRows, DeltasInv, Inv
    <3>2. deltas[d].rows \in Seq(Row) /\ d \in DOMAIN deltas
      BY <3>1, HeapFacts DEF DeltasInv, Inv, TypeInv, TypeOK, HeapType
    <3>3. SubSeq(deltas[d].rows, 1, Len(deltas[d].rows)) = deltas[d].rows
      BY <3>2
    <3>4. PrefixOf(r, d)' = DeltaRows(d)
      BY <1>2, <2>1, <2>3, <3>1, <3>2, <3>3 DEF PrefixOf, DeltaRows
    <3>5. Delta(d)!TakePrefix(r)
      BY <1>2, <1>5, <2>2, <3>4 DEF Delta!TakePrefix, DeltaRows, DeltaClosed, DeltaPrefixes
    <3> QED
      BY <3>5 DEF DeltaStep, Delta!DeltaNext
  <2>4. CASE states[rst[r]].active # d
    <3>1. PrefixOf(r, d)' = PrefixOf(r, d)
      BY <1>2, <2>1, <2>2, <2>4 DEF PrefixOf
    <3> QED
      BY <1>2, <1>5, <3>1, SameDelta DEF DeltaPrefixes
  <2> QED
    BY <2>3, <2>4
<1>8. CASE ReadThrows(r) \/ DropView(r)
  <2>1. PrefixOf(r, d)' = None
    BY <1>3, <1>8 DEF ReadThrows, DropView, ReadStep, PrefixOf
  <2>2. CASE PrefixOf(r, d) = None
    BY <1>2, <1>5, <2>1, <2>2, SameDelta DEF DeltaPrefixes
  <2>3. CASE PrefixOf(r, d) # None
    <3>1. Delta(d)!DropPrefix(r)
      BY <1>2, <1>5, <2>1, <2>3 DEF Delta!DropPrefix, DeltaRows, DeltaClosed, DeltaPrefixes
    <3> QED
      BY <3>1 DEF DeltaStep, Delta!DeltaNext
  <2> QED
    BY <2>2, <2>3
<1> QED
  BY <1>6, <1>7, <1>8 DEF ReaderNext

\* The steps of merge_once that have to do with a delta or with the frozen prefix.
LEMMA MergerDelta ==
  ASSUME DeltasInv, NEW d \in 1..(1 + MaxMerges), NEW m \in Mergers, m \notin Readers,
         MergerNext(m)
  PROVE  DeltaStep(d)
<1>1. [Next]_vars /\ UNCHANGED readerVars
  BY MergerFrame DEF Next, mergerFrame
<1>2. DOMAIN deltas = 1..Len(deltas) /\ Len(deltas) \in Nat
  BY DEF DeltasInv, Inv, TypeInv, TypeOK, HeapType
<1>3. job \in [Mergers -> Job]
  BY DEF DeltasInv, Inv, TypeInv, TypeOK, MergerType
<1>4. \A t \in (Readers \cup Mergers) \ {m} : PrefixOf(t, d)' = PrefixOf(t, d)
  <2>1. ASSUME NEW r \in Readers PROVE PrefixOf(r, d)' = PrefixOf(r, d)
    BY <1>1, ReaderPrefixKept DEF readerVars
  <2>2. ASSUME NEW n \in Mergers, n # m, n \notin Readers
        PROVE  PrefixOf(n, d)' = PrefixOf(n, d)
    BY <1>1, <2>2, MergerStepsAlone, MergerPrefixKept DEF DeltasInv, Inv
  <2> QED
    BY <2>1, <2>2
<1>5. DeltaPrefixes(d)' = [DeltaPrefixes(d) EXCEPT ![m] = PrefixOf(m, d)']
  BY <1>4 DEF DeltaPrefixes
<1>6. CASE Freeze(m)
  <2> DEFINE a == states[job[m].input].active
  <2>1. /\ ~deltas[a].closed /\ deltas' = [deltas EXCEPT ![a].closed = TRUE]
        /\ UNCHANGED <<states, job>>
    BY <1>6 DEF Freeze
  <2>2. a \in 1..Len(deltas)
    BY <1>6, FreezeHeap DEF DeltasInv, Inv
  <2>3. PrefixOf(m, d)' = PrefixOf(m, d)
    BY <1>1, <2>1, MergerPrefixKept
  <2>4. DeltaPrefixes(d)' = DeltaPrefixes(d)
    BY <1>5, <2>3 DEF DeltaPrefixes
  <2> HIDE DEF a
  <2>5. /\ DOMAIN deltas' = DOMAIN deltas
        /\ \A e \in DOMAIN deltas : deltas'[e].rows = deltas[e].rows
        /\ \A e \in DOMAIN deltas : e # a => deltas'[e] = deltas[e]
        /\ deltas'[a].closed = TRUE
    BY <1>2, <2>1, <2>2, HeapFacts DEF DeltasInv, Inv, TypeInv, TypeOK, HeapType
  <2>6. DeltaRows(d)' = DeltaRows(d)
    BY <2>5 DEF DeltaRows
  <2>7. CASE d = a
    <3>1. ~DeltaClosed(d) /\ DeltaClosed(d)' = TRUE
      BY <1>2, <2>1, <2>2, <2>5, <2>7 DEF DeltaClosed
    <3>2. Delta(d)!Close
      BY <2>4, <2>6, <3>1 DEF Delta!Close
    <3> QED
      BY <3>2 DEF DeltaStep, Delta!DeltaNext
  <2>8. CASE d # a
    <3>1. DeltaClosed(d)' = DeltaClosed(d)
      BY <2>5, <2>8 DEF DeltaClosed
    <3> QED
      BY <2>4, <2>6, <3>1 DEF DeltaStep, Delta!deltaVars
  <2> QED
    BY <2>7, <2>8
<1>7. CASE FreezeSnapshot(m)
  <2> DEFINE i == job[m].input
  <2>1. /\ UNCHANGED <<states, deltas>> /\ mpc[m] = "snapshot"
        /\ job'[m].input = i
        /\ job'[m].closed = [base |-> states[i].base, rows |-> deltas[states[i].active].rows]
    BY <1>3, <1>7 DEF FreezeSnapshot, FreshBase, MergeStep, columnVars, Job
  <2>2. job[m].closed = NoDelta
    BY <2>1 DEF DeltasInv, JobInv, ClosedSteps, FreshSteps, HandedOff, PublishedSteps
  <2>3. i \in 1..Len(states)
    BY <1>3, <2>1, HeapFacts DEF DeltasInv, Inv, TypeInv, TypeOK, MergerLocals, InputSteps, Job
  <2>4. states[i].active \in DOMAIN deltas /\ states[i].base \in Nat
        /\ deltas[states[i].active].rows \in Seq(Row)
    BY <1>2, <2>3, HeapFacts DEF DeltasInv, Inv, TypeInv, TypeOK
  <2>5. job'[m].closed # NoDelta
    BY <2>1, <2>4, NoDeltaAssumption DEF ClosedDelta
  <2> HIDE DEF i
  <2>6. CASE states[i].active = d
    <3>1. PrefixOf(m, d) = None
      BY <2>2 DEF PrefixOf
    <3>2. PrefixOf(m, d)' = DeltaRows(d)
      BY <2>1, <2>4, <2>5, <2>6 DEF PrefixOf, DeltaRows
    <3>3. Delta(d)!TakePrefix(m)
      BY <1>5, <2>1, <3>1, <3>2 DEF Delta!TakePrefix, DeltaRows, DeltaClosed, DeltaPrefixes
    <3> QED
      BY <3>3 DEF DeltaStep, Delta!DeltaNext
  <2>7. CASE states[i].active # d
    <3>1. PrefixOf(m, d)' = PrefixOf(m, d)
      BY <2>1, <2>2, <2>5, <2>7 DEF PrefixOf
    <3> QED
      BY <1>5, <2>1, <3>1, SameDelta DEF DeltaPrefixes
  <2> QED
    BY <2>6, <2>7
<1>8. CASE InstallHandoff(m)
  <2>1. /\ Len(deltas') = Len(deltas) + 1
        /\ deltas'[Len(deltas) + 1] = [rows |-> << >>, closed |-> FALSE]
        /\ \A e \in 1..Len(deltas) : deltas'[e] = deltas[e]
        /\ HeapType'
    BY <1>8, InstallHandoffHeap DEF DeltasInv, Inv
  <2>2. DOMAIN deltas' = 1..(Len(deltas) + 1)
    BY <2>1 DEF HeapType
  <2>3. job'[m].closed = job[m].closed /\ job'[m].input = job[m].input
    BY <1>3, <1>8 DEF InstallHandoff, Job
  <2>4. DeltaPrefixes(d)' = DeltaPrefixes(d)
    BY <1>1, <1>5, <2>3, MergerPrefixKept DEF DeltaPrefixes
  <2>5. d \in 1..(Len(deltas) + 1) <=> d \in 1..Len(deltas) \/ d = Len(deltas) + 1
    BY <1>2
  <2>6. DeltaRows(d)' = DeltaRows(d) /\ DeltaClosed(d)' = DeltaClosed(d)
    BY <1>2, <2>1, <2>2, <2>5 DEF DeltaRows, DeltaClosed
  <2> QED
    BY <2>4, <2>6 DEF DeltaStep, Delta!deltaVars
<1>9. CASE LeaveMerge(m) /\ UNCHANGED columnVars
  <2>1. PrefixOf(m, d)' = None
    BY <1>3, <1>9 DEF LeaveMerge, NoJob, PrefixOf
  <2>2. CASE PrefixOf(m, d) = None
    BY <1>5, <1>9, <2>1, <2>2, SameDelta DEF DeltaPrefixes, columnVars
  <2>3. CASE PrefixOf(m, d) # None
    <3>1. Delta(d)!DropPrefix(m)
      BY <1>5, <1>9, <2>1, <2>3
      DEF Delta!DropPrefix, DeltaRows, DeltaClosed, DeltaPrefixes, columnVars
    <3> QED
      BY <3>1 DEF DeltaStep, Delta!DeltaNext
  <2> QED
    BY <2>2, <2>3
<1>10. CASE /\ UNCHANGED deltas /\ job'[m].closed = job[m].closed
            /\ job[m].closed # NoDelta => job'[m].input = job[m].input
  <2>1. PrefixOf(m, d)' = PrefixOf(m, d)
    BY <1>1, <1>10, MergerPrefixKept
  <2> QED
    BY <1>5, <1>10, <2>1, SameDelta DEF DeltaPrefixes
<1>11. \/ Freeze(m) \/ FreezeSnapshot(m) \/ InstallHandoff(m)
       \/ LeaveMerge(m) /\ UNCHANGED columnVars
       \/ /\ UNCHANGED deltas /\ job'[m].closed = job[m].closed
          /\ job[m].closed # NoDelta => job'[m].input = job[m].input
  <2>1. HandoffLock(m) => job[m].closed = NoDelta
    BY DEF HandoffLock, MergeStep, DeltasInv, JobInv, ClosedSteps, FreshSteps, HandedOff,
       PublishedSteps
  <2> QED
    BY <1>3, <2>1 DEF MergerNext, HandoffStep, RebuildStep, MergeTryLock, MergeBegin,
       MergeRefused, HandoffLock, RetireInput, RecordInput, ReleaseInput, LockRetired,
       RecordRetired, ReleaseOld, EnterBuilding, Build, EnterPublishing, Publish,
       RetireHandoff, RecordHandoff, ReleaseHandoff, EnterRetired, EnterStable, Advance,
       Account, Sample, MergedRows, MergeReturn, MergeRejected, MergeThrows, columnVars,
       Job
<1> QED
  BY <1>6, <1>7, <1>8, <1>9, <1>10, <1>11

-----------------------------------------------------------------------------
(* All of them *)

LEMMA NextDeltas ==
  ASSUME DeltasInv, [Next]_vars, NEW d \in 1..(1 + MaxMerges)
  PROVE  DeltaStep(d)
<1>1. ASSUME NEW o \in Observers, ObserverNext(o) PROVE DeltaStep(d)
  BY <1>1, ObserverFrame, PrefixesKept, SameDelta
  DEF observerFrame, columnVars, mergerVars
<1>2. UNCHANGED vars => DeltaStep(d)
  BY PrefixesKept, SameDelta DEF vars, columnVars, mergerVars
<1> QED
  BY <1>1, <1>2, WriterDelta, ReaderDelta, MergerDelta, ThreadsAssumption DEF Next

LEMMA InitDeltas ==
  ASSUME Init, NEW d \in 1..(1 + MaxMerges)
  PROVE  Delta(d)!DeltaInit
<1>1. /\ DOMAIN deltas = {1} /\ deltas[1].rows = << >> /\ deltas[1].closed = FALSE
  BY DEF Init
<1>2. DeltaRows(d) = << >> /\ DeltaClosed(d) = FALSE
  BY <1>1 DEF DeltaRows, DeltaClosed
<1>3. ASSUME NEW t \in Readers \cup Mergers PROVE PrefixOf(t, d) = None
  <2>1. t \in Readers => rpc[t] = "idle"
    BY DEF Init
  <2>2. t \in Mergers => job[t].closed = NoDelta
    BY DEF Init, NoJob
  <2> QED
    BY <2>1, <2>2 DEF PrefixOf
<1> QED
  BY <1>2, <1>3 DEF Delta!DeltaInit, DeltaPrefixes

\* Every delta of the column is an atomic one: the column uses ConcurrentDelta as it
\* may be used, and gets from it what it needs.
THEOREM DeltasAtomic == Spec => DeltasAreAtomic
<1>1. Init => JobInv
  BY DEF Init, JobInv, NoJob
<1>2. IInv => TypeInv /\ LockInv /\ Inv
  BY DEF IInv, Inv, CoreInv
<1>3. TypeInv /\ LockInv /\ JobInv /\ [Next]_vars => JobInv'
  BY JobKept
<1>4. Inv /\ JobInv /\ [Next]_vars
        => \A d \in 1..(1 + MaxMerges) : [Delta(d)!DeltaNext]_(Delta(d)!deltaVars)
  BY NextDeltas DEF DeltasInv, DeltaStep
<1>5. Init => \A d \in 1..(1 + MaxMerges) : Delta(d)!DeltaInit
  BY InitDeltas
<1>6. Spec => []IInv
  BY InductiveInvariant
<1> QED
  BY <1>1, <1>2, <1>3, <1>4, <1>5, <1>6, PTL DEF Spec, DeltasAreAtomic

-----------------------------------------------------------------------------
(* After a failed merge *)

\* No step of a merger leaves the wedged state.
LEMMA WedgedStays ==
  ASSUME TypeInv, Wedged, [Next]_vars
  PROVE  Wedged' /\ phase' = phase /\ current' = current /\ states' = states
<1>1. ASSUME NEW m \in Mergers, MergerNext(m)
      PROVE  Wedged' /\ phase' = phase /\ current' = current /\ states' = states
  <2>1. mpc[m] \in {"idle", "entered"} /\ phase # "Stable"
    BY DEF Wedged
  <2>2. MergeTryLock(m) \/ MergeRefused(m)
    BY <1>1, <2>1 DEF MergerNext, HandoffStep, RebuildStep, MergeBegin,
       Lifecycle!Succeeds, HandoffLock, Freeze, FreezeSnapshot, InstallHandoff,
       RetireInput, RecordInput, ReleaseInput, LockRetired, RecordRetired, ReleaseOld,
       EnterBuilding, Build, EnterPublishing, Publish, RetireHandoff, RecordHandoff,
       ReleaseHandoff, EnterRetired, EnterStable, Advance, Account, Sample, MergeReturn,
       MergeRejected, MergeThrows, MergeStep
  <2>3. /\ UNCHANGED <<columnVars, phase>>
        /\ mpc' = [mpc EXCEPT ![m] = "entered"] \/ mpc' = [mpc EXCEPT ![m] = "idle"]
    BY <2>2 DEF MergeTryLock, MergeRefused, LeaveMerge, MergeStep
  <2> QED
    BY <2>3 DEF Wedged, columnVars, TypeInv, TypeOK, MergerType
<1>2. ASSUME UNCHANGED <<states, current, phase, mpc>>
      PROVE  Wedged' /\ phase' = phase /\ current' = current /\ states' = states
  BY <1>2 DEF Wedged
<1>3. ASSUME NEW w \in Writers, WriterNext(w) PROVE UNCHANGED <<states, current, phase, mpc>>
  BY <1>3, WriterFrame DEF writerFrame, mergerVars
<1>4. ASSUME NEW r \in Readers, ReaderNext(r) PROVE UNCHANGED <<states, current, phase, mpc>>
  BY <1>4, ReaderFrame DEF readerFrame, mergerVars, columnVars
<1>5. ASSUME NEW o \in Observers, ObserverNext(o)
      PROVE  UNCHANGED <<states, current, phase, mpc>>
  BY <1>5, ObserverFrame DEF observerFrame, mergerVars, columnVars
<1>6. UNCHANGED vars => UNCHANGED <<states, current, phase, mpc>>
  BY DEF vars, mergerVars, columnVars
<1> QED
  BY <1>1, <1>2, <1>3, <1>4, <1>5, <1>6 DEF Next

\* After a merge threw before it was back at Stable no further merge ever starts, for any
\* number of threads.  The one throw that comes later, of a timing sample that cannot be
\* stored, leaves the phase at Stable and is not such a failure.
THEOREM FailureEndsMerging == Spec => FailedMergeEndsMerging
<1>1. TypeInv /\ [Next]_vars => [Wedged => Wedged' /\ phase' = phase /\ current' = current]_vars
  BY WedgedStays
<1>2. Spec => []TypeInv
  BY InitType, NextKeepsType, PTL DEF Spec
<1> QED
  BY <1>1, <1>2, PTL DEF Spec, FailedMergeEndsMerging

-----------------------------------------------------------------------------
(* The counters *)

CountVars == <<states, current, phase, mpc, job, merges, rowsMerged>>

LEMMA CountSame ==
  ASSUME CountInv, UNCHANGED CountVars
  PROVE  CountInv'
BY DEF CountInv, CountVars, Settled, MergedNow

\* The part of CountInv that matters while a merger is at work.
CountAt(m) ==
  /\ states[current].generation \in {merges, merges + 1}
  /\ mpc[m] \in AfterPublish =>
       /\ states[current].generation = merges + 1
       /\ MergedNow = rowsMerged + Len(job[m].closed.rows)
  /\ (phase = "Stable" /\ mpc[m] # "account") \/ mpc[m] \in BeforePublish =>
       states[current].generation = merges /\ MergedNow = rowsMerged

LEMMA CountOfMerger ==
  ASSUME NEW m \in Mergers, \A n \in Mergers \ {m} : mpc[n] = "idle"
  PROVE  CountInv <=> CountAt(m)
BY DEF CountInv, CountAt, Settled, AfterPublish, BeforePublish, InHandoff

\* Most steps of a merge move neither the published column nor the counters.
LEMMA QuietCount ==
  ASSUME NEW m \in Mergers, CountAt(m), UNCHANGED <<states, current, merges, rowsMerged>>,
         mpc'[m] \in AfterPublish => mpc[m] \in AfterPublish /\ job'[m].closed = job[m].closed,
         (phase' = "Stable" /\ mpc'[m] # "account") \/ mpc'[m] \in BeforePublish =>
           (phase = "Stable" /\ mpc[m] # "account") \/ mpc[m] \in BeforePublish
  PROVE  CountAt(m)'
BY DEF CountAt, MergedNow

LEMMA MergerCount ==
  ASSUME TypeInv, LockInv, CoreInv, NEW m \in Mergers, MergerNext(m), CountAt(m)
  PROVE  CountAt(m)'
<1>1. /\ mpc \in [Mergers -> {"idle", "entered", "handoff", "freeze", "snapshot",
                          "install", "retireInput", "recordInput", "releaseInput",
                          "handedOff", "build", "built", "publish", "retireHandoff",
                          "recordHandoff", "releaseHandoff", "published", "retired",
                          "account", "sample", "return"}]
      /\ job \in [Mergers -> Job]
  BY DEF TypeInv, TypeOK, MergerType
<1>2. PhaseFits(m) /\ MergeKnows(m)
  BY DEF CoreInv, MergeInv
<1> USE DEF MergeStep, AfterPublish, BeforePublish, InHandoff, columnVars, countVars
<1>3. CASE MergeTryLock(m) \/ MergeBegin(m) \/ MergeRefused(m) \/ HandoffLock(m)
  BY <1>1, <1>3, QuietCount DEF MergeTryLock, MergeBegin, MergeRefused, HandoffLock,
     LeaveMerge, Lifecycle!Succeeds
<1>4. CASE Freeze(m) \/ FreezeSnapshot(m)
  BY <1>1, <1>4, QuietCount DEF Freeze, FreezeSnapshot
<1>5. CASE EnterBuilding(m) \/ Build(m) \/ EnterPublishing(m)
  BY <1>1, <1>2, <1>5, QuietCount DEF EnterBuilding, Build, EnterPublishing, Advance,
     PhaseFits, PhaseOf
<1>6. CASE EnterRetired(m) \/ EnterStable(m) \/ Sample(m) \/ MergeReturn(m)
  BY <1>1, <1>2, <1>6, QuietCount DEF EnterRetired, EnterStable, Advance, Sample,
     MergeReturn, LeaveMerge, PhaseFits, PhaseOf, Lifecycle!Transition, Lifecycle!Succeeds,
     Lifecycle!ValidMergeTransition, Job
<1>7. CASE MergeRejected(m) \/ MergeThrows(m)
  BY <1>1, <1>2, <1>7, QuietCount DEF MergeRejected, MergeThrows, LeaveMerge, PhaseFits,
     PhaseOf
<1>8. CASE InstallHandoff(m)
  <2>1. states'[current'] = HandoffState(m, Len(deltas) + 1)
    BY <1>8, InstallHandoffHeap
  <2>2. job[m].input = current /\ mpc[m] = "install" /\ mpc'[m] = "retireInput"
    BY <1>1, <1>2, <1>8 DEF InstallHandoff, MergeKnows
  <2>3. /\ states'[current'].generation = states[current].generation
        /\ states'[current'].main = states[current].main
    BY <2>1, <2>2 DEF HandoffState
  <2>4. UNCHANGED countVars
    BY <1>8 DEF InstallHandoff
  <2> QED
    BY <2>2, <2>3, <2>4 DEF CountAt, MergedNow
<1>9. CASE Publish(m)
  <2>1. states'[current'] = PublishedState(m)
    BY <1>9, PublishHeap
  <2>2. /\ mpc[m] = "publish" /\ mpc'[m] = "retireHandoff" /\ UNCHANGED <<phase, countVars>>
        /\ job'[m].closed = job[m].closed
    BY <1>1, <1>9 DEF Publish, Job
  <2>3. /\ states[current] = HandoffState(m, job[m].fresh)
        /\ job[m].built = MainColumn(RawRows(m))
    BY <1>2, <2>2 DEF MergeKnows, HandedOff, BuiltSteps
  <2>4. /\ states'[current'].generation = states[current].generation + 1
        /\ states'[current'].main = job[m].built
        /\ states[current].main = states[job[m].input].main
    BY <2>1, <2>3 DEF PublishedState, HandoffState
  <2>5. Len(job[m].built) = Len(states[current].main) + Len(job[m].closed.rows)
    <3>1. mpc[m] \in ClosedSteps
      BY <2>2 DEF ClosedSteps, FreshSteps, HandedOff
    <3> QED
      BY <2>3, <2>4, <3>1, RawRowsType, MainColumnType
  <2>6. /\ Len(states[current].main) \in Nat /\ Len(Initial) \in Nat
        /\ Len(job[m].closed.rows) \in Nat /\ merges \in Nat /\ rowsMerged \in Nat
    <3>1. current \in 1..Len(states)
      BY DEF TypeInv, TypeOK, HeapType
    <3>2. job[m].closed.rows \in Seq(Row)
      <4>1. job[m].closed # NoDelta
        BY <2>2 DEF TypeInv, MergerLocals, ClosedSteps, FreshSteps, HandedOff
      <4>2. job[m].closed \in ClosedDelta \cup {NoDelta}
        BY <1>1 DEF Job
      <4> QED
        BY <4>1, <4>2 DEF ClosedDelta
    <3> QED
      BY <3>1, <3>2, HeapFacts, InitialAssumption DEF TypeInv, TypeOK, RetireType
  <2>7. phase' = "Publishing"
    BY <1>2, <2>2 DEF PhaseFits, PhaseOf
  <2>8. states[current].generation = merges /\ MergedNow = rowsMerged
    BY <2>2 DEF CountAt
  <2>9. /\ states'[current'].generation = merges' + 1
        /\ MergedNow' = rowsMerged' + Len(job'[m].closed.rows)
    <3>1. states'[current'].generation = merges' + 1
      BY <2>2, <2>4, <2>8
    <3>2. MergedNow' = Len(job[m].built) - Len(Initial)
      BY <2>4 DEF MergedNow
    <3>3. MergedNow = Len(states[current].main) - Len(Initial)
      BY DEF MergedNow
    <3>4. MergedNow' = MergedNow + Len(job[m].closed.rows)
      BY <2>5, <2>6, <3>2, <3>3
    <3> QED
      BY <2>2, <2>8, <3>1, <3>4
  <2>10. states'[current'].generation \in {merges', merges' + 1}
    BY <2>9
  <2> QED
    BY <2>2, <2>7, <2>9, <2>10 DEF CountAt
<1>10. CASE Account(m)
  <2>1. /\ mpc[m] = "account" /\ mpc'[m] = "sample" /\ UNCHANGED <<states, current>>
        /\ merges' = merges + 1 /\ rowsMerged' = rowsMerged + Len(job[m].closed.rows)
    BY <1>1, <1>10 DEF Account, MergedRows
  <2> QED
    BY <2>1 DEF CountAt, MergedNow
<1>11. CASE RetireStep(m)
  <2>1. /\ UNCHANGED <<states, current, phase, merges, rowsMerged>>
        /\ job'[m].closed = job[m].closed
    BY <1>1, <1>11, RetireStepFacts DEF Job
  <2>2. \/ mpc[m] \in InHandoff /\ mpc'[m] \in InHandoff \cup {"handedOff"}
        \/ /\ mpc[m] \in HandoffRetirement
           /\ mpc'[m] \in {"recordHandoff", "releaseHandoff", "published"}
    BY <1>1, <1>11, RetireStepFacts DEF HandoffRetirement
  <2>3. mpc[m] \in HandoffRetirement => phase = "Publishing"
    BY <1>2 DEF PhaseFits, PhaseOf, HandoffRetirement
  <2> QED
    BY <2>1, <2>2, <2>3, QuietCount DEF HandoffRetirement
<1> QED
  BY <1>3, <1>4, <1>5, <1>6, <1>7, <1>8, <1>9, <1>10, <1>11
  DEF MergerNext, HandoffStep, RebuildStep, RetireStep

LEMMA NextKeepsCount ==
  ASSUME TypeInv, LockInv, CoreInv, CountInv, [Next]_vars
  PROVE  CountInv'
<1>1. ASSUME NEW m \in Mergers, MergerNext(m) PROVE CountInv'
  <2>1. \A n \in Mergers \ {m} : mpc[n] = "idle" /\ mpc'[n] = "idle"
    BY <1>1, SoleMerger
  <2>2. CountAt(m)
    BY <2>1, CountOfMerger
  <2>3. CountAt(m)'
    BY <1>1, <2>2, MergerCount
  <2> QED
    BY <2>1, <2>3 DEF CountInv, CountAt, Settled, AfterPublish, BeforePublish, InHandoff
<1> USE DEF CountVars, columnVars, mergerVars, countVars
<1>2. ASSUME NEW w \in Writers, WriterNext(w) PROVE UNCHANGED CountVars
  BY <1>2, WriterFrame DEF writerFrame
<1>3. ASSUME NEW r \in Readers, ReaderNext(r) PROVE UNCHANGED CountVars
  BY <1>3, ReaderFrame DEF readerFrame
<1>4. ASSUME NEW o \in Observers, ObserverNext(o) PROVE UNCHANGED CountVars
  BY <1>4, ObserverFrame DEF observerFrame
<1>5. UNCHANGED vars => UNCHANGED CountVars
  BY DEF vars
<1> QED
  BY <1>1, <1>2, <1>3, <1>4, <1>5, CountSame DEF Next

-----------------------------------------------------------------------------
(* The order of the states *)

\* A step that installs a state puts it behind the others.
LEMMA StatesGrow ==
  ASSUME TypeInv, CoreInv, OrderInv, [Next]_vars
  PROVE  \/ UNCHANGED <<states, current>>
         \/ /\ \E m \in Mergers : InstallHandoff(m) \/ Publish(m)
            /\ Len(states') = Len(states) + 1 /\ current' = Len(states) + 1
            /\ \A i \in 1..Len(states) : states'[i] = states[i]
            /\ states[current].generation <= states'[current'].generation
            /\ states'[current'].generation \in Nat
<1>1. ASSUME NEW m \in Mergers, InstallHandoff(m)
      PROVE  /\ Len(states') = Len(states) + 1 /\ current' = Len(states) + 1
             /\ \A i \in 1..Len(states) : states'[i] = states[i]
             /\ states[current].generation <= states'[current'].generation
             /\ states'[current'].generation \in Nat
  <2>1. job[m].input = current
    BY <1>1 DEF InstallHandoff, MergeStep, CoreInv, MergeInv, MergeKnows
  <2>2. states'[current'].generation = states[current].generation
    <3>1. states'[current'] = HandoffState(m, Len(deltas) + 1)
      BY <1>1, InstallHandoffHeap
    <3> QED
      BY <2>1, <3>1 DEF HandoffState
  <2>3. states[current].generation \in Nat
    BY HeapFacts DEF TypeInv, TypeOK, HeapType
  <2> QED
    BY <1>1, <2>2, <2>3, InstallHandoffHeap
<1>2. ASSUME NEW m \in Mergers, Publish(m)
      PROVE  /\ Len(states') = Len(states) + 1 /\ current' = Len(states) + 1
             /\ \A i \in 1..Len(states) : states'[i] = states[i]
             /\ states[current].generation <= states'[current'].generation
             /\ states'[current'].generation \in Nat
  <2>1. states[current].generation = states[job[m].input].generation
    <3>1. states[current] = HandoffState(m, job[m].fresh)
      BY <1>2 DEF Publish, MergeStep, CoreInv, MergeInv, MergeKnows, HandedOff
    <3> QED
      BY <3>1 DEF HandoffState
  <2>2. states'[current'].generation = states[current].generation + 1
    <3>1. states'[current'] = PublishedState(m)
      BY <1>2, PublishHeap
    <3> QED
      BY <2>1, <3>1 DEF PublishedState
  <2>3. states[current].generation \in Nat
    BY HeapFacts DEF TypeInv, TypeOK, HeapType
  <2> QED
    BY <1>2, <2>2, <2>3, PublishHeap
<1>3. ASSUME NEW m \in Mergers, MergerNext(m), ~InstallHandoff(m), ~Publish(m)
      PROVE  UNCHANGED <<states, current>>
  BY <1>3 DEF MergerNext, HandoffStep, RebuildStep, MergeTryLock, MergeBegin,
     MergeRefused, HandoffLock, Freeze, FreezeSnapshot, RetireInput, RecordInput,
     ReleaseInput, LockRetired, RecordRetired, ReleaseOld, EnterBuilding, Build,
     EnterPublishing, RetireHandoff, RecordHandoff, ReleaseHandoff, EnterRetired,
     EnterStable, Advance, Account, Sample, MergeReturn, MergeRejected, MergeThrows,
     columnVars
<1>4. ASSUME NEW w \in Writers, WriterNext(w) PROVE UNCHANGED <<states, current>>
  BY <1>4, WriterFrame DEF writerFrame
<1>5. ASSUME NEW r \in Readers, ReaderNext(r) PROVE UNCHANGED <<states, current>>
  BY <1>5, ReaderFrame DEF readerFrame, columnVars
<1>6. ASSUME NEW o \in Observers, ObserverNext(o) PROVE UNCHANGED <<states, current>>
  BY <1>6, ObserverFrame DEF observerFrame, columnVars
<1>7. UNCHANGED vars => UNCHANGED <<states, current>>
  BY DEF vars, columnVars
<1> QED
  BY <1>1, <1>2, <1>3, <1>4, <1>5, <1>6, <1>7 DEF Next

LEMMA NextKeepsOrder ==
  ASSUME TypeInv, CoreInv, OrderInv, [Next]_vars
  PROVE  OrderInv'
<1>1. CASE UNCHANGED <<states, current>>
  BY <1>1 DEF OrderInv
<1>2. CASE /\ Len(states') = Len(states) + 1 /\ current' = Len(states) + 1
           /\ \A i \in 1..Len(states) : states'[i] = states[i]
           /\ states[current].generation <= states'[current'].generation
           /\ states'[current'].generation \in Nat
  <2>1. /\ Len(states) \in Nat /\ current \in 1..Len(states)
        /\ \A i \in 1..Len(states) : states[i].generation \in Nat
    BY HeapFacts DEF TypeInv, TypeOK, HeapType
  <2>2. ASSUME NEW i \in 1..Len(states'), NEW j \in 1..Len(states'), i <= j
        PROVE  states'[i].generation <= states'[j].generation
    <3>1. CASE j \in 1..Len(states)
      BY <1>2, <2>1, <2>2, <3>1 DEF OrderInv
    <3>2. CASE j = Len(states) + 1 /\ i \in 1..Len(states)
      <4>1. states[i].generation <= states[current].generation
        BY <2>1, <3>2 DEF OrderInv
      <4> QED
        BY <1>2, <2>1, <3>2, <4>1
    <3>3. CASE j = Len(states) + 1 /\ i = j
      BY <1>2, <3>3
    <3> QED
      BY <1>2, <2>1, <2>2, <3>1, <3>2, <3>3
  <2> QED
    BY <1>2, <2>2 DEF OrderInv
<1> QED
  BY <1>1, <1>2, StatesGrow

-----------------------------------------------------------------------------
(* Which states are on record *)

\* Steps that retire nothing but expired entries, and use no state but the current one.
LEMMA RecordSame ==
  ASSUME RecordInv, UNCHANGED <<states, current, phase, mpc, job>>,
         InUse' \subseteq InUse \cup {0, current},
         retired' \subseteq retired, InUse \cap retired \subseteq retired',
         \A m \in Mergers : job[m].old \in retired => job[m].old \in retired',
         current \notin retired
  PROVE  RecordInv'
<1>1. Retiring' = Retiring /\ Wedged' = Wedged
  BY DEF Retiring, Wedged
<1>2. \A i \in InUse' :
        i \in {0, current} \cup retired' \cup Retiring \/ (Wedged /\ i = current - 1)
  BY DEF RecordInv
<1> QED
  BY <1>1, <1>2 DEF RecordInv

\* An entry that is erased is not in use.
LEMMA UsedIsHeld ==
  /\ InUse \cap retired \subseteq Unexpired /\ Unexpired \subseteq retired
  /\ \A m \in Mergers : job[m].old \in retired => job[m].old \in Unexpired
BY DEF InUse, Unexpired, Held

LEMMA ReaderRecord ==
  ASSUME TypeInv, RecordInv, NEW r \in Readers, ReaderNext(r)
  PROVE  RecordInv'
<1>1. UNCHANGED readerFrame /\ rst \in [Readers -> Ref] /\ current \in Nat
  BY ReaderFrame DEF TypeInv, TypeOK, ReaderType, HeapType
<1>2. rst' = rst \/ rst' = [rst EXCEPT ![r] = current] \/ rst' = [rst EXCEPT ![r] = 0]
  BY DEF ReaderNext, ReadCall, ReadLoad, ReadPrefix, ReadReturn, ReadThrows, DropView, LeaveRead
<1>3. InUse' \subseteq InUse \cup {0, current}
  BY <1>1, <1>2 DEF InUse, readerFrame, observerVars, writerVars
<1>4. current \notin retired
  BY <1>1 DEF RecordInv
<1> QED
  BY <1>1, <1>3, <1>4, RecordSame DEF readerFrame, columnVars, mergerVars, retireVars

LEMMA WriterRecord ==
  ASSUME TypeInv, RecordInv, NEW w \in Writers, WriterNext(w)
  PROVE  RecordInv'
<1>1. UNCHANGED writerFrame /\ wst \in [Writers -> Ref] /\ current \in Nat
  BY WriterFrame DEF TypeInv, TypeOK, WriterType, HeapType
<1>2. wst' = wst \/ wst' = [wst EXCEPT ![w] = current] \/ wst' = [wst EXCEPT ![w] = 0]
  BY DEF WriterNext, AppendStep, AppendCall, AppendLock, AppendLoad, AppendCheck,
     AppendThrows, AppendPublish, AppendReturn, LeaveAppend
<1>3. InUse' \subseteq InUse \cup {0, current}
  BY <1>1, <1>2 DEF InUse, writerFrame, observerVars, readerVars
<1>4. current \notin retired
  BY <1>1 DEF RecordInv
<1> QED
  BY <1>1, <1>3, <1>4, RecordSame DEF writerFrame, mergerVars, retireVars

LEMMA ObserverRecord ==
  ASSUME TypeInv, RecordInv, NEW o \in Observers, ObserverNext(o)
  PROVE  RecordInv'
<1>1. UNCHANGED observerFrame /\ ost \in [Observers -> Ref] /\ current \in Nat
  BY ObserverFrame DEF TypeInv, TypeOK, ObserverType, HeapType
<1>2. ost' = ost \/ ost' = [ost EXCEPT ![o] = current] \/ ost' = [ost EXCEPT ![o] = 0]
  BY DEF ObserverNext, ObserveLoad, ObserveCleanup, ObserveRead, ObserveReturn,
     ObserveThrows, ObserveRelease, LeaveObserve
<1>3. retired' = retired \/ retired' = Unexpired
  BY DEF ObserverNext, ObserveLoad, ObserveCleanup, CleanupRetired, ObserveRead, ObserveReturn,
     ObserveThrows, ObserveRelease, LeaveObserve
<1>4. InUse' \subseteq InUse \cup {0, current}
  BY <1>1, <1>2 DEF InUse, observerFrame, writerVars, readerVars
<1>5. current \notin retired
  BY <1>1 DEF RecordInv
<1> QED
  BY <1>1, <1>3, <1>4, <1>5, UsedIsHeld, RecordSame
  DEF observerFrame, columnVars, mergerVars

\* The part of RecordInv that matters while a merger is at work.
RecordAt(m) ==
  /\ retired \subseteq 1..(current - 1)
  /\ IF mpc[m] \in OldSteps THEN job[m].old = current - 1 ELSE job[m].old = 0
  /\ mpc[m] \in UnrecordedSteps => job[m].old \notin retired
  /\ mpc[m] \in RecordedSteps => job[m].old \in retired
  /\ \A i \in InUse :
       \/ i \in {0, current, job[m].old} \cup retired
       \/ phase # "Stable" /\ mpc[m] \in {"idle", "entered"} /\ i = current - 1

LEMMA RecordOfMerger ==
  ASSUME NEW m \in Mergers, \A n \in Mergers \ {m} : mpc[n] = "idle", RecordInv
  PROVE  RecordAt(m) /\ \A n \in Mergers \ {m} : job[n].old = 0
<1>1. \A n \in Mergers \ {m} : job[n].old = 0
  BY DEF RecordInv, OldSteps
<1>2. Retiring \subseteq {0, job[m].old}
  BY <1>1 DEF Retiring
<1>3. Wedged => phase # "Stable" /\ mpc[m] \in {"idle", "entered"}
  BY DEF Wedged
<1> QED
  BY <1>1, <1>2, <1>3 DEF RecordInv, RecordAt

\* Most steps of a merge replace and retire nothing.
LEMMA QuietRecord ==
  ASSUME NEW m \in Mergers, RecordAt(m), UNCHANGED <<current, retired, InUse>>,
         mpc[m] \notin OldSteps, mpc'[m] \notin OldSteps, job'[m].old = job[m].old,
         phase # "Stable" /\ mpc[m] \in {"idle", "entered"} =>
           phase' # "Stable" /\ mpc'[m] \in {"idle", "entered"}
  PROVE  RecordAt(m)'
BY DEF RecordAt, OldSteps, UnrecordedSteps, RecordedSteps

\* The replaced state is kept for the retired list.
LEMMA ExchangeRecord ==
  ASSUME TypeInv, OrderInv, NEW m \in Mergers, RecordAt(m),
         mpc[m] \in {"install", "publish"}, mpc'[m] \in {"retireInput", "retireHandoff"},
         UNCHANGED <<retired, InUse>>,
         current' = Len(states) + 1, job'[m].old = current
  PROVE  RecordAt(m)'
<1>1. current \in Nat /\ current' = current + 1
  BY DEF OrderInv, TypeInv, TypeOK, HeapType
<1>2. job[m].old = 0
  BY DEF RecordAt, OldSteps
<1>3. current \notin retired /\ retired' \subseteq 1..(current' - 1)
  BY <1>1 DEF RecordAt
<1>4. job'[m].old = current' - 1
  BY <1>1
<1>5. \A i \in InUse : i \in {0, current} \cup retired
  BY <1>2 DEF RecordAt
<1> QED
  BY <1>3, <1>4, <1>5 DEF RecordAt, OldSteps, RecordedSteps

\* What a state on its way to the record is.
LEMMA OldRecord ==
  ASSUME NEW m \in Mergers, RecordAt(m), mpc[m] \in OldSteps
  PROVE  /\ job[m].old = current - 1 /\ retired \subseteq 1..(current - 1)
         /\ \A i \in InUse : i \in {0, current, current - 1} \cup retired
BY DEF RecordAt, OldSteps

\* retire_state takes the mutex and cleans up.
LEMMA CleanRecord ==
  ASSUME NEW m \in Mergers, RecordAt(m), UNCHANGED <<current, InUse>>,
         mpc[m] \in {"retireInput", "retireHandoff"},
         mpc'[m] \in {"recordInput", "recordHandoff"},
         job'[m].old = job[m].old, retired' = Unexpired
  PROVE  RecordAt(m)'
<1>1. mpc[m] \in OldSteps \cap UnrecordedSteps
  BY DEF OldSteps, UnrecordedSteps
<1>2. /\ Unexpired \subseteq 1..(current - 1) /\ job[m].old \notin Unexpired
      /\ \A i \in InUse : i \in {0, current, current - 1} \cup Unexpired
  BY <1>1, OldRecord, UsedIsHeld DEF RecordAt
<1> QED
  BY <1>1, <1>2, OldRecord DEF RecordAt, OldSteps, RecordedSteps

\* retire_state puts the state on record.
LEMMA RecordedRecord ==
  ASSUME NEW m \in Mergers, RecordAt(m), UNCHANGED <<current, InUse>>,
         mpc[m] \in {"recordInput", "recordHandoff"}, mpc'[m] \in RecordedSteps,
         job'[m].old = job[m].old, retired' = retired \cup {job[m].old},
         current \in Nat \ {0, 1}
  PROVE  RecordAt(m)'
<1>1. mpc[m] \in OldSteps /\ mpc'[m] \in OldSteps /\ mpc'[m] \notin UnrecordedSteps
  BY DEF OldSteps, RecordedSteps, UnrecordedSteps
<1>2. current - 1 \in 1..(current - 1)
  OBVIOUS
<1> QED
  BY <1>1, <1>2, OldRecord DEF RecordAt

\* retire_state is over, or it could not put the state on record.
LEMMA ReleaseRecord ==
  ASSUME NEW m \in Mergers, RecordAt(m), UNCHANGED <<current, InUse, retired>>,
         mpc[m] \in OldSteps, mpc'[m] \notin OldSteps, job'[m].old = 0,
         mpc[m] \in RecordedSteps \/ (phase' # "Stable" /\ mpc'[m] = "idle")
  PROVE  RecordAt(m)'
<1>1. mpc'[m] \notin UnrecordedSteps \cup RecordedSteps
  BY DEF OldSteps, RecordedSteps, UnrecordedSteps
<1>2. mpc[m] \in RecordedSteps => current - 1 \in retired
  BY OldRecord DEF RecordAt
<1> QED
  BY <1>1, <1>2, OldRecord DEF RecordAt

LEMMA MergerRecord ==
  ASSUME TypeInv, LockInv, CoreInv, OrderInv, NEW m \in Mergers, MergerNext(m), RecordAt(m)
  PROVE  RecordAt(m)'
<1>1. /\ mpc \in [Mergers -> {"idle", "entered", "handoff", "freeze", "snapshot",
                          "install", "retireInput", "recordInput", "releaseInput",
                          "handedOff", "build", "built", "publish", "retireHandoff",
                          "recordHandoff", "releaseHandoff", "published", "retired",
                          "account", "sample", "return"}]
      /\ job \in [Mergers -> Job]
  BY DEF TypeInv, TypeOK, MergerType
<1>2. InUse' = InUse
  BY MergerFrame DEF mergerFrame, readerVars, writerVars, observerVars, InUse
<1>3. PhaseFits(m)
  BY DEF CoreInv, MergeInv
<1>4. mpc[m] \notin OldSteps => job[m].old = 0
  BY DEF RecordAt
<1> USE DEF MergeStep, OldSteps, columnVars, retireVars
<1>5. CASE MergeTryLock(m) \/ MergeBegin(m) \/ MergeRefused(m) \/ HandoffLock(m)
  BY <1>1, <1>2, <1>4, <1>5, QuietRecord DEF MergeTryLock, MergeBegin, MergeRefused,
     HandoffLock, LeaveMerge, NoJob, Lifecycle!Succeeds, Job
<1>6. CASE Freeze(m) \/ FreezeSnapshot(m) \/ EnterBuilding(m) \/ Build(m) \/ EnterPublishing(m)
  <2>1. /\ mpc[m] \notin OldSteps \cup {"idle", "entered"}
        /\ mpc'[m] \notin OldSteps /\ UNCHANGED <<current, retired>>
    BY <1>1, <1>6 DEF Freeze, FreezeSnapshot, EnterBuilding, Build, EnterPublishing, Advance
  <2>2. job'[m].old = job[m].old
    BY <1>1, <1>6 DEF Freeze, FreezeSnapshot, EnterBuilding, Build, EnterPublishing, Advance,
       Job
  <2> QED
    BY <1>2, <2>1, <2>2, QuietRecord
<1>7. CASE EnterRetired(m) \/ EnterStable(m) \/ Account(m) \/ Sample(m) \/ MergeReturn(m)
  BY <1>1, <1>2, <1>3, <1>4, <1>7, QuietRecord DEF EnterRetired, EnterStable, Advance, Account,
     Sample, MergeReturn, LeaveMerge, NoJob
<1>8. CASE MergeRejected(m)
  BY <1>1, <1>2, <1>4, <1>8, QuietRecord DEF MergeRejected, LeaveMerge, NoJob
<1>9. CASE InstallHandoff(m)
  BY <1>1, <1>2, <1>9, ExchangeRecord DEF InstallHandoff, Exchange, Job
<1>10. CASE Publish(m)
  BY <1>1, <1>2, <1>10, ExchangeRecord DEF Publish, Exchange, Job
<1>11. current \in Nat /\ (mpc[m] \in OldSteps => current \in Nat \ {0, 1})
  <2>1. current \in Nat
    BY DEF TypeInv, TypeOK, HeapType
  <2>2. mpc[m] \in OldSteps => job[m].old = current - 1 /\ job[m].old # 0
    BY DEF RecordAt, TypeInv, MergerLocals
  <2>3. mpc[m] \in OldSteps => job[m].old \in Nat
    BY <1>1 DEF Job, Ref
  <2> QED
    BY <2>1, <2>2, <2>3
<1>12. CASE RetireInput(m) \/ RetireHandoff(m)
  BY <1>1, <1>2, <1>12, CleanRecord DEF RetireInput, RetireHandoff, LockRetired, CleanupRetired
<1>13. CASE RecordInput(m) \/ RecordHandoff(m)
  BY <1>1, <1>2, <1>11, <1>13, RecordedRecord DEF RecordInput, RecordHandoff, RecordRetired,
     RecordedSteps
<1>14. CASE ReleaseInput(m) \/ ReleaseHandoff(m)
  BY <1>1, <1>2, <1>14, ReleaseRecord DEF ReleaseInput, ReleaseHandoff, ReleaseOld,
     RecordedSteps, Job
<1>15. CASE MergeThrows(m) /\ mpc[m] \in OldSteps
  <2>1. /\ phase' # "Stable" /\ mpc'[m] = "idle" /\ job'[m].old = 0
        /\ UNCHANGED <<current, retired>>
    BY <1>1, <1>3, <1>15 DEF MergeThrows, LeaveMerge, NoJob, PhaseFits, PhaseOf, InHandoff
  <2> QED
    BY <1>2, <1>15, <2>1, ReleaseRecord
<1>16. CASE MergeThrows(m) /\ mpc[m] \notin OldSteps
  BY <1>1, <1>2, <1>4, <1>16, QuietRecord DEF MergeThrows, LeaveMerge, NoJob
<1> QED
  BY <1>5, <1>6, <1>7, <1>8, <1>9, <1>10, <1>12, <1>13, <1>14, <1>15, <1>16
  DEF MergerNext, HandoffStep, RebuildStep

LEMMA NextKeepsRecord ==
  ASSUME TypeInv, LockInv, CoreInv, OrderInv, RecordInv, [Next]_vars
  PROVE  RecordInv'
<1>1. ASSUME NEW m \in Mergers, MergerNext(m) PROVE RecordInv'
  <2>1. \A n \in Mergers \ {m} : mpc[n] = "idle" /\ mpc'[n] = "idle"
    BY <1>1, SoleMerger
  <2>2. RecordAt(m) /\ \A n \in Mergers \ {m} : job[n].old = 0
    BY <2>1, RecordOfMerger
  <2>3. RecordAt(m)'
    BY <1>1, <2>2, MergerRecord
  <2>4. \A n \in Mergers \ {m} : job'[n] = job[n]
    BY <1>1 DEF MergerNext, HandoffStep, RebuildStep, MergeTryLock, MergeBegin,
       MergeRefused, HandoffLock, Freeze, FreezeSnapshot, FreshBase, InstallHandoff,
       NextActive, RetireInput, RecordInput, ReleaseInput, LockRetired, RecordRetired,
       ReleaseOld, EnterBuilding, Build, EnterPublishing, Publish, RetireHandoff,
       RecordHandoff, ReleaseHandoff, EnterRetired, EnterStable, Advance, Account,
       Sample, MergedRows, MergeReturn, MergeRejected, MergeThrows, LeaveMerge,
       MergeStep, TypeInv, TypeOK, MergerType
  <2>5. ({0} \cup retired \cup Retiring)' = {0, job'[m].old} \cup retired'
    BY <2>2, <2>4 DEF Retiring
  <2>6. phase' # "Stable" /\ mpc'[m] \in {"idle", "entered"} => Wedged'
    BY <2>1 DEF Wedged
  <2> QED
    BY <2>1, <2>2, <2>3, <2>4, <2>5, <2>6 DEF RecordInv, RecordAt, OldSteps,
       UnrecordedSteps, RecordedSteps
<1>2. ASSUME UNCHANGED vars PROVE RecordInv'
  <2>1. /\ UNCHANGED <<states, current, phase, mpc, job, retired>> /\ InUse' = InUse
    BY <1>2 DEF vars, columnVars, mergerVars, retireVars, readerVars, writerVars, observerVars,
       InUse
  <2>2. current \notin retired
    BY DEF RecordInv, TypeInv, TypeOK, HeapType
  <2> QED
    BY <2>1, <2>2, RecordSame
<1> QED
  BY <1>1, <1>2, ReaderRecord, WriterRecord, ObserverRecord DEF Next

-----------------------------------------------------------------------------
(* Which states appends and merges use *)

LEMMA UseSame ==
  ASSUME UseInv, UNCHANGED <<current, wpc, wst, mpc, job>>
  PROVE  UseInv'
BY DEF UseInv

LEMMA WriterUse ==
  ASSUME TypeInv, UseInv, NEW w \in Writers, WriterNext(w)
  PROVE  UseInv'
<1>1. UNCHANGED <<current, mpc, job>>
  BY WriterFrame DEF writerFrame, mergerVars
<1>2. /\ wpc \in [Writers -> {"idle", "calling", "locked", "loaded", "open", "published"}]
      /\ wst \in [Writers -> Ref]
  BY DEF TypeInv, TypeOK, WriterType
<1>3. /\ \A x \in Writers \ {w} : wpc'[x] = wpc[x] /\ wst'[x] = wst[x]
      /\ wst'[w] \in {0, current} \/ wst'[w] = wst[w]
      /\ wst'[w] # 0 => wpc'[w] \in StateSteps
  BY <1>2 DEF WriterNext, AppendStep, AppendCall, AppendLock, AppendLoad, AppendCheck,
     AppendThrows, AppendPublish, AppendReturn, LeaveAppend, StateSteps, UseInv
<1>4. \A x \in Writers : wst'[x] # 0 => wpc'[x] \in StateSteps
  BY <1>3 DEF UseInv
<1>5. \A x \in Writers, m \in Mergers :
        /\ mpc[m] \in HandedOff => wst'[x] \in {0, current}
        /\ mpc[m] \in HandoffRetirement => wst'[x] \in {0, current - 1, current}
  BY <1>3 DEF UseInv
<1> QED
  BY <1>1, <1>4, <1>5 DEF UseInv

LEMMA MergerUse ==
  ASSUME TypeInv, LockInv, OrderInv, UseInv, NEW m \in Mergers, MergerNext(m)
  PROVE  UseInv'
<1>1. /\ mpc \in [Mergers -> {"idle", "entered", "handoff", "freeze", "snapshot",
                          "install", "retireInput", "recordInput", "releaseInput",
                          "handedOff", "build", "built", "publish", "retireHandoff",
                          "recordHandoff", "releaseHandoff", "published", "retired",
                          "account", "sample", "return"}]
      /\ job \in [Mergers -> Job]
  BY DEF TypeInv, TypeOK, MergerType
<1>2. UNCHANGED <<wpc, wst>>
  BY MergerFrame DEF mergerFrame, writerVars
<1>3. \A n \in Mergers \ {m} : mpc[n] = "idle" /\ mpc'[n] = "idle"
  BY SoleMerger
<1> USE DEF MergeStep
<1>4. \A n \in Mergers : mpc'[n] = "idle" => job'[n].input = 0
  BY <1>1, <1>3 DEF UseInv, MergerNext, HandoffStep, RebuildStep, MergeTryLock,
     MergeBegin, MergeRefused, HandoffLock, Freeze, FreezeSnapshot, FreshBase,
     InstallHandoff, NextActive, RetireInput, RecordInput, ReleaseInput, LockRetired,
     RecordRetired, ReleaseOld, EnterBuilding, Build, EnterPublishing, Publish,
     RetireHandoff, RecordHandoff, ReleaseHandoff, EnterRetired, EnterStable, Advance,
     Account, Sample, MergedRows, MergeReturn, MergeRejected, MergeThrows, LeaveMerge,
     NoJob, Job
<1>5. /\ \A w \in Writers : wst[w] # 0 => wpc[w] \in StateSteps
      /\ \A w \in Writers :
           /\ mpc[m] \in HandedOff => wst[w] \in {0, current}
           /\ mpc[m] \in HandoffRetirement => wst[w] \in {0, current - 1, current}
  BY DEF UseInv
<1>6. CASE InstallHandoff(m)
  <2>1. mpc[m] = "install" /\ mpc'[m] = "retireInput"
    BY <1>1, <1>6 DEF InstallHandoff
  <2>2. \A w \in Writers : wst[w] = 0
    BY <1>5, <2>1, Exclusion DEF InHandoff, LockSteps
  <2> QED
    BY <1>2, <1>3, <1>4, <2>1, <2>2 DEF UseInv, HandedOff, HandoffRetirement
<1>7. CASE Publish(m)
  <2>1. mpc[m] = "publish" /\ mpc'[m] = "retireHandoff"
    BY <1>1, <1>7 DEF Publish
  <2>2. current = current' - 1
    <3>1. current' = Len(states) + 1 /\ current = Len(states) /\ current \in Nat
      BY <1>7, PublishHeap DEF OrderInv, TypeInv, TypeOK, HeapType
    <3> QED
      BY <3>1
  <2>3. \A w \in Writers : wst[w] \in {0, current}
    BY <1>5, <2>1 DEF HandedOff
  <2> QED
    BY <1>2, <1>3, <1>4, <1>5, <2>1, <2>2, <2>3 DEF UseInv, HandedOff, HandoffRetirement
<1>8. CASE /\ current' = current /\ (mpc'[m] \in HandedOff => mpc[m] \in HandedOff)
           /\ mpc'[m] \in HandoffRetirement => mpc[m] \in HandoffRetirement
  <2>1. \A w \in Writers : wst'[w] # 0 => wpc'[w] \in StateSteps
    BY <1>2, <1>5
  <2>2. \A n \in Mergers, w \in Writers :
          /\ mpc'[n] \in HandedOff => wst'[w] \in {0, current'}
          /\ mpc'[n] \in HandoffRetirement => wst'[w] \in {0, current' - 1, current'}
    <3> SUFFICES ASSUME NEW n \in Mergers, NEW w \in Writers
                 PROVE  /\ mpc'[n] \in HandedOff => wst'[w] \in {0, current'}
                        /\ mpc'[n] \in HandoffRetirement =>
                             wst'[w] \in {0, current' - 1, current'}
      OBVIOUS
    <3>1. CASE n = m
      BY <1>2, <1>5, <1>8, <3>1
    <3>2. CASE n # m
      BY <1>3, <3>2 DEF HandedOff, HandoffRetirement
    <3> QED
      BY <3>1, <3>2
  <2> QED
    BY <1>4, <2>1, <2>2 DEF UseInv
<1>9. \/ InstallHandoff(m) \/ Publish(m)
      \/ /\ current' = current /\ (mpc'[m] \in HandedOff => mpc[m] \in HandedOff)
         /\ mpc'[m] \in HandoffRetirement => mpc[m] \in HandoffRetirement
  BY <1>1 DEF MergerNext, HandoffStep, RebuildStep, MergeTryLock, MergeBegin,
     MergeRefused, HandoffLock, Freeze, FreezeSnapshot, RetireInput, RecordInput,
     ReleaseInput, LockRetired, RecordRetired, ReleaseOld, EnterBuilding, Build,
     EnterPublishing, RetireHandoff, RecordHandoff, ReleaseHandoff, EnterRetired,
     EnterStable, Advance, Account, Sample, MergeReturn, MergeRejected, MergeThrows,
     LeaveMerge, columnVars, HandedOff,
     HandoffRetirement
<1> QED
  BY <1>6, <1>7, <1>8, <1>9

LEMMA NextKeepsUse ==
  ASSUME TypeInv, LockInv, OrderInv, UseInv, [Next]_vars
  PROVE  UseInv'
<1> USE DEF columnVars, mergerVars, writerVars
<1>1. ASSUME NEW r \in Readers, ReaderNext(r) PROVE UseInv'
  BY <1>1, ReaderFrame, UseSame DEF readerFrame
<1>2. ASSUME NEW o \in Observers, ObserverNext(o) PROVE UseInv'
  BY <1>2, ObserverFrame, UseSame DEF observerFrame
<1>3. UNCHANGED vars => UseInv'
  BY UseSame DEF vars
<1> QED
  BY <1>1, <1>2, <1>3, WriterUse, MergerUse DEF Next

-----------------------------------------------------------------------------
(* Every replaced state is counted once *)

Counted == reclaimed + Cardinality(retired)

\* Erased entries move from one count to the other.
LEMMA CleanedCount ==
  ASSUME TypeInv, CountReclaimed
  PROVE  /\ Counted \in Nat /\ IsFiniteSet(Unexpired)
         /\ reclaimed' + Cardinality(Unexpired) = Counted
<1>1. IsFiniteSet(retired) /\ IsFiniteSet(Unexpired)
  BY RetiredFinite DEF TypeInv, TypeOK, RetireType
<1>2. Cardinality(retired \ Unexpired) = Cardinality(retired) - Cardinality(retired \cap Unexpired)
  BY <1>1, FS_Difference
<1>3. retired \cap Unexpired = Unexpired
  BY UsedIsHeld
<1>4. Cardinality(retired) \in Nat /\ Cardinality(Unexpired) \in Nat /\ reclaimed \in Nat
  BY <1>1, FS_CardinalityType DEF TypeInv, TypeOK, RetireType
<1>5. reclaimed' = reclaimed + (Cardinality(retired) - Cardinality(Unexpired))
  BY <1>2, <1>3 DEF CountReclaimed
<1>6. Counted = reclaimed + Cardinality(retired)
  BY DEF Counted
<1> HIDE DEF Counted
<1> QED
  BY <1>1, <1>4, <1>5, <1>6

\* The number of states on their way to the record.
Out(old, recorded) == IF old \in {0} \cup recorded THEN 0 ELSE 1

LEMMA OutCount ==
  ASSUME NEW S, NEW old, NEW recorded, S = {old} \ ({0} \cup recorded)
  PROVE  Cardinality(S) = Out(old, recorded)
<1>1. S = IF old \in {0} \cup recorded THEN {} ELSE {old}
  OBVIOUS
<1> QED
  BY <1>1, FS_EmptySet, FS_Singleton DEF Out

\* The part of RetirementAccounted that matters while a merger is at work.
AccountAt(m) ==
  \/ Len(states) = Counted + Out(job[m].old, retired) + 1
  \/ /\ phase # "Stable" /\ mpc[m] \in {"idle", "entered"}
     /\ Len(states) = Counted + Out(job[m].old, retired) + 2

\* The same number, before and after the arithmetic of RetirementAccounted.
LEMMA Balance ==
  ASSUME NEW n \in Nat, NEW c \in Nat, NEW o \in Nat
  PROVE  /\ n - 1 - (c + o) = 0 <=> n = c + o + 1
         /\ n - 1 - (c + o) = 1 <=> n = c + o + 2
OBVIOUS

LEMMA CountedType ==
  ASSUME TypeInv
  PROVE  Counted \in Nat /\ Len(states) \in Nat
<1>1. IsFiniteSet(retired) /\ Len(states) \in Nat
  BY RetiredFinite, HeapFacts DEF TypeInv, TypeOK, RetireType
<1> QED
  BY <1>1, FS_CardinalityType DEF Counted, TypeInv, TypeOK, RetireType

LEMMA AccountSame ==
  ASSUME RetirementAccounted, UNCHANGED <<states, phase, mpc>>, Retiring' = Retiring,
         Counted' = Counted
  PROVE  RetirementAccounted'
BY DEF RetirementAccounted, Counted, Untracked, Wedged

LEMMA ObserverAccounts ==
  ASSUME TypeInv, RetirementAccounted, NEW o \in Observers, ObserverNext(o)
  PROVE  RetirementAccounted'
<1>1. UNCHANGED <<states, phase, mpc, job>>
  BY ObserverFrame DEF observerFrame, columnVars, mergerVars
<1>2. \/ UNCHANGED <<retired, reclaimed>>
      \/ retired' = Unexpired /\ CountReclaimed
  BY DEF ObserverNext, ObserveLoad, ObserveCleanup, CleanupRetired, ObserveRead, ObserveReturn,
     ObserveThrows, ObserveRelease, LeaveObserve
<1>3. Counted' = Counted
  BY <1>2, CleanedCount DEF Counted
<1>4. \A m \in Mergers : job[m].old \in retired <=> job[m].old \in retired'
  BY <1>2, UsedIsHeld
<1>5. Retiring' = Retiring
  BY <1>1, <1>4 DEF Retiring
<1> QED
  BY <1>1, <1>3, <1>5, AccountSame

\* Cleaning up moves entries from one count to the other.
LEMMA CleanAccounts ==
  ASSUME TypeInv, NEW m \in Mergers, AccountAt(m), mpc[m] \notin {"idle", "entered"},
         CountReclaimed, retired' = Unexpired, UNCHANGED states, job'[m].old = job[m].old
  PROVE  AccountAt(m)'
<1>1. Counted' = Counted
  BY CleanedCount DEF Counted
<1>2. Out(job'[m].old, retired') = Out(job[m].old, retired)
  BY UsedIsHeld DEF Out
<1> HIDE DEF Counted, Out
<1> QED
  BY <1>1, <1>2 DEF AccountAt

\* The state that was on its way is on record.
LEMMA RecordedAccounts ==
  ASSUME TypeInv, NEW m \in Mergers, AccountAt(m), mpc[m] \notin {"idle", "entered"},
         job[m].old \notin {0} \cup retired, retired' = retired \cup {job[m].old},
         UNCHANGED <<states, reclaimed>>, job'[m].old = job[m].old
  PROVE  AccountAt(m)'
<1>1. Out(job[m].old, retired) = 1 /\ Out(job'[m].old, retired') = 0
  BY DEF Out
<1>2. IsFiniteSet(retired) /\ Cardinality(retired) \in Nat /\ reclaimed \in Nat
  BY RetiredFinite, FS_CardinalityType DEF TypeInv, TypeOK, RetireType
<1>3. Cardinality(retired') = Cardinality(retired) + 1
  BY <1>2, FS_AddElement
<1>4. Counted' = Counted + 1
  BY <1>2, <1>3 DEF Counted
<1> HIDE DEF Counted, Out
<1> QED
  BY <1>1, <1>4, CountedType DEF AccountAt

\* retire_state is over: the state was on record, or it is lost.
LEMMA ReleaseAccounts ==
  ASSUME TypeInv, NEW m \in Mergers, AccountAt(m), mpc[m] \notin {"idle", "entered"},
         job'[m].old = 0, UNCHANGED <<states, retired, reclaimed>>,
         job[m].old \in retired \/ (phase' # "Stable" /\ mpc'[m] = "idle")
  PROVE  AccountAt(m)'
<1>1. Counted' = Counted /\ Counted \in Nat /\ Len(states) \in Nat
  BY CountedType DEF Counted
<1>2. Len(states) = Counted + Out(job[m].old, retired) + 1
  BY DEF AccountAt
<1>3. Out(job'[m].old, retired') = 0 /\ Out(job[m].old, retired) \in {0, 1}
  BY DEF Out
<1>4. job[m].old \in retired => Out(job[m].old, retired) = 0
  BY DEF Out
<1> HIDE DEF Counted, Out
<1> QED
  BY <1>1, <1>2, <1>3, <1>4 DEF AccountAt

\* The replaced state is on its way.
LEMMA ExchangeAccounts ==
  ASSUME TypeInv, NEW m \in Mergers, RecordAt(m), AccountAt(m),
         mpc[m] \in {"install", "publish"}, UNCHANGED <<retired, reclaimed>>,
         Len(states') = Len(states) + 1, job'[m].old = current
  PROVE  AccountAt(m)'
<1>1. Out(job[m].old, retired) = 0 /\ Out(job'[m].old, retired') = 1
  BY DEF RecordAt, OldSteps, Out, TypeInv, TypeOK, HeapType
<1>2. Counted' = Counted /\ Counted \in Nat
  BY CountedType DEF Counted
<1>3. Len(states) = Counted + Out(job[m].old, retired) + 1
  BY DEF AccountAt
<1>4. Len(states') = Counted' + Out(job'[m].old, retired') + 1
  <2> HIDE DEF Counted
  <2> QED
    BY <1>1, <1>2, <1>3
<1> QED
  BY <1>4 DEF AccountAt

\* Most steps of a merge neither replace nor retire a state.
LEMMA QuietAccount ==
  ASSUME NEW m \in Mergers, AccountAt(m), UNCHANGED <<states, retired, reclaimed>>,
         job'[m].old = job[m].old,
         phase # "Stable" /\ mpc[m] \in {"idle", "entered"} =>
           phase' # "Stable" /\ mpc'[m] \in {"idle", "entered"}
  PROVE  AccountAt(m)'
BY DEF AccountAt, Counted

LEMMA MergerAccounts ==
  ASSUME TypeInv, LockInv, CoreInv, NEW m \in Mergers, MergerNext(m), RecordAt(m), AccountAt(m)
  PROVE  AccountAt(m)'
<1>1. /\ mpc \in [Mergers -> {"idle", "entered", "handoff", "freeze", "snapshot",
                          "install", "retireInput", "recordInput", "releaseInput",
                          "handedOff", "build", "built", "publish", "retireHandoff",
                          "recordHandoff", "releaseHandoff", "published", "retired",
                          "account", "sample", "return"}]
      /\ job \in [Mergers -> Job]
  BY DEF TypeInv, TypeOK, MergerType
<1>2. PhaseFits(m)
  BY DEF CoreInv, MergeInv
<1>3. /\ mpc[m] \notin OldSteps => job[m].old = 0
      /\ mpc[m] \in OldSteps => job[m].old # 0
  BY DEF RecordAt, TypeInv, MergerLocals
<1> USE DEF MergeStep, columnVars, retireVars
<1>4. CASE MergeTryLock(m) \/ MergeBegin(m) \/ MergeRefused(m) \/ HandoffLock(m)
  BY <1>1, <1>3, <1>4, QuietAccount DEF MergeTryLock, MergeBegin, MergeRefused,
     HandoffLock, LeaveMerge, NoJob, Lifecycle!Succeeds, Job, OldSteps
<1>5. CASE Freeze(m) \/ FreezeSnapshot(m) \/ EnterBuilding(m) \/ Build(m) \/ EnterPublishing(m)
  <2>1. mpc[m] \notin {"idle", "entered"} /\ UNCHANGED <<states, retired, reclaimed>>
    BY <1>1, <1>5 DEF Freeze, FreezeSnapshot, EnterBuilding, Build, EnterPublishing, Advance
  <2>2. job'[m].old = job[m].old
    BY <1>1, <1>5 DEF Freeze, FreezeSnapshot, EnterBuilding, Build, EnterPublishing, Advance,
       Job
  <2> QED
    BY <2>1, <2>2, QuietAccount
<1>6. CASE EnterRetired(m) \/ EnterStable(m) \/ Account(m) \/ Sample(m) \/ MergeReturn(m)
  BY <1>1, <1>2, <1>3, <1>6, QuietAccount DEF EnterRetired, EnterStable, Advance, Account,
     Sample, MergeReturn, LeaveMerge, NoJob, OldSteps
<1>7. CASE MergeRejected(m)
  BY <1>1, <1>3, <1>7, QuietAccount DEF MergeRejected, LeaveMerge, NoJob, OldSteps
<1>8. CASE InstallHandoff(m)
  <2>1. Len(states') = Len(states) + 1
    BY <1>8, InstallHandoffHeap
  <2> QED
    BY <1>1, <1>8, <2>1, ExchangeAccounts DEF InstallHandoff, Job
<1>9. CASE Publish(m)
  <2>1. Len(states') = Len(states) + 1
    BY <1>9, PublishHeap
  <2> QED
    BY <1>1, <1>9, <2>1, ExchangeAccounts DEF Publish, Job
<1>10. CASE RetireInput(m) \/ RetireHandoff(m)
  BY <1>1, <1>10, CleanAccounts DEF RetireInput, RetireHandoff, LockRetired, CleanupRetired
<1>11. CASE RecordInput(m) \/ RecordHandoff(m)
  <2>1. /\ mpc[m] \in {"recordInput", "recordHandoff"} /\ job[m].old \notin {0} \cup retired
        /\ retired' = retired \cup {job[m].old} /\ UNCHANGED <<states, reclaimed, job>>
    BY <1>3, <1>11 DEF RecordInput, RecordHandoff, RecordRetired, RecordAt, UnrecordedSteps,
       OldSteps
  <2> QED
    BY <2>1, RecordedAccounts
<1>12. CASE ReleaseInput(m) \/ ReleaseHandoff(m)
  <2>1. mpc[m] \in RecordedSteps /\ job'[m].old = 0 /\ UNCHANGED <<states, retired, reclaimed>>
    BY <1>1, <1>12 DEF ReleaseInput, ReleaseHandoff, ReleaseOld, RecordedSteps, Job
  <2>2. job[m].old \in retired /\ mpc[m] \notin {"idle", "entered"}
    BY <2>1 DEF RecordAt, RecordedSteps
  <2> QED
    BY <2>1, <2>2, ReleaseAccounts
<1>13. CASE MergeThrows(m) /\ mpc[m] \in OldSteps
  <2>1. /\ phase' # "Stable" /\ mpc'[m] = "idle" /\ job'[m].old = 0
        /\ UNCHANGED <<states, retired, reclaimed>> /\ mpc[m] \notin {"idle", "entered"}
    BY <1>1, <1>2, <1>13 DEF MergeThrows, LeaveMerge, NoJob, PhaseFits, PhaseOf, InHandoff,
       OldSteps
  <2> QED
    BY <2>1, ReleaseAccounts
<1>14. CASE MergeThrows(m) /\ mpc[m] \notin OldSteps
  BY <1>1, <1>3, <1>14, QuietAccount DEF MergeThrows, LeaveMerge, NoJob, OldSteps
<1> QED
  BY <1>4, <1>5, <1>6, <1>7, <1>8, <1>9, <1>10, <1>11, <1>12, <1>13, <1>14
  DEF MergerNext, HandoffStep, RebuildStep

\* RetirementAccounted, said of the only merger at work.
LEMMA AccountOfMerger ==
  ASSUME TypeInv, NEW m \in Mergers, RetirementAccounted,
         \A n \in Mergers \ {m} : mpc[n] = "idle" /\ job[n].old = 0
  PROVE  AccountAt(m)
<1>1. Cardinality(Retiring) = Out(job[m].old, retired)
  <2>1. Retiring = {job[m].old} \ ({0} \cup retired)
    BY DEF Retiring
  <2> QED
    BY <2>1, OutCount
<1>2. Wedged => phase # "Stable" /\ mpc[m] \in {"idle", "entered"}
  BY DEF Wedged
<1>3. Len(states) - 1 - (Counted + Out(job[m].old, retired)) \in Untracked
  BY <1>1 DEF RetirementAccounted, Counted
<1>4. Out(job[m].old, retired) \in Nat
  BY DEF Out
<1>5. \/ Len(states) - 1 - (Counted + Out(job[m].old, retired)) = 0
      \/ Wedged /\ Len(states) - 1 - (Counted + Out(job[m].old, retired)) = 1
  BY <1>3 DEF Untracked
<1> HIDE DEF Counted, Out
<1> QED
  BY <1>2, <1>4, <1>5, CountedType, Balance DEF AccountAt

LEMMA NextKeepsAccount ==
  ASSUME TypeInv, TypeInv', LockInv, CoreInv, OrderInv, RecordInv, RetirementAccounted,
         [Next]_vars
  PROVE  RetirementAccounted'
<1>1. ASSUME NEW m \in Mergers, MergerNext(m) PROVE RetirementAccounted'
  <2>1. \A n \in Mergers \ {m} : mpc[n] = "idle" /\ mpc'[n] = "idle"
    BY <1>1, SoleMerger
  <2>2. RecordInv'
    BY NextKeepsRecord
  <2>3. \A n \in Mergers \ {m} : job[n].old = 0 /\ job'[n].old = 0
    BY <2>1, <2>2 DEF RecordInv, OldSteps
  <2>4. AccountAt(m)'
    BY <1>1, <2>1, <2>3, AccountOfMerger, RecordOfMerger, MergerAccounts
  <2>5. Cardinality(Retiring') = Out(job'[m].old, retired')
    <3>1. Retiring' = {job'[m].old} \ ({0} \cup retired')
      BY <2>3 DEF Retiring
    <3> QED
      BY <3>1, OutCount
  <2>6. phase' # "Stable" /\ mpc'[m] \in {"idle", "entered"} => Wedged'
    BY <2>1 DEF Wedged
  <2>7. Out(job'[m].old, retired') \in Nat
    BY DEF Out
  <2>8. Counted' \in Nat /\ Len(states') \in Nat
    <3>1. (TypeInv => Counted \in Nat /\ Len(states) \in Nat)'
      BY CountedType, PTL
    <3> QED
      BY <3>1
  <2>9. \/ Len(states') - 1 - (Counted' + Out(job'[m].old, retired')) = 0
        \/ Wedged' /\ Len(states') - 1 - (Counted' + Out(job'[m].old, retired')) = 1
    <3>1. \/ Len(states') = Counted' + Out(job'[m].old, retired') + 1
          \/ Wedged' /\ Len(states') = Counted' + Out(job'[m].old, retired') + 2
      BY <2>4, <2>6 DEF AccountAt
    <3> HIDE DEF Counted, Out
    <3> QED
      BY <2>7, <2>8, <3>1, Balance
  <2> QED
    BY <2>5, <2>9 DEF RetirementAccounted, Counted, Untracked
<1> USE DEF columnVars, mergerVars, retireVars
<1>2. ASSUME UNCHANGED <<states, phase, mpc, job, retired, reclaimed>>
      PROVE  RetirementAccounted'
  BY <1>2, AccountSame DEF Counted, Retiring
<1>3. ASSUME NEW w \in Writers, WriterNext(w) PROVE RetirementAccounted'
  BY <1>2, <1>3, WriterFrame DEF writerFrame
<1>4. ASSUME NEW r \in Readers, ReaderNext(r) PROVE RetirementAccounted'
  BY <1>2, <1>4, ReaderFrame DEF readerFrame
<1>5. UNCHANGED vars => RetirementAccounted'
  BY <1>2 DEF vars
<1> QED
  BY <1>1, <1>3, <1>4, <1>5, ObserverAccounts DEF Next

-----------------------------------------------------------------------------
(* Snapshots *)

\* A finite set of naturals has a least element.
LEMMA LeastElement ==
  ASSUME NEW S \in SUBSET Nat, S # {}
  PROVE  \E i \in S : \A j \in S : i <= j
<1>1. \E i \in S : \A j \in S : <<j, i>> \notin OpToRel(<, Nat)
  BY NatLessThanWellFounded, WFMin
<1>2. \A i, j \in Nat : <<j, i>> \notin OpToRel(<, Nat) => i <= j
  BY DEF OpToRel
<1> QED
  BY <1>1, <1>2

\* The oldest generation on record is not above that of any entry in use.
LEMMA OldestIsLeast ==
  ASSUME TypeInv, OrderInv, OldestRetired # None, NEW i \in Unexpired
  PROVE  OldestRetired \in Nat /\ OldestRetired <= states[i].generation
<1> DEFINE G == {states[j].generation : j \in Unexpired}
           P(g) == \A j \in Unexpired : g <= states[j].generation
<1>1. Unexpired \subseteq 1..Len(states) /\ Len(states) \in Nat
  BY HeapFacts DEF Unexpired, TypeInv, TypeOK, RetireType
<1>2. PICK k \in Unexpired : \A j \in Unexpired : k <= j
  <2>1. Unexpired \in SUBSET Nat
    BY <1>1
  <2> QED
    BY <2>1, LeastElement
<1>3. \A j \in Unexpired : states[k].generation <= states[j].generation
  BY <1>1, <1>2 DEF OrderInv
<1>4. \E g \in G : P(g)
  BY <1>3
<1>5. OldestRetired = CHOOSE g \in G : P(g)
  BY DEF OldestRetired
<1>6. OldestRetired \in G /\ P(OldestRetired)
  <2> HIDE DEF G, P
  <2> QED
    BY <1>4, <1>5
<1>7. \A j \in Unexpired : states[j].generation \in Nat
  BY <1>1, HeapFacts DEF TypeInv, TypeOK, HeapType
<1> QED
  BY <1>6, <1>7

\* Some entry in use is no newer than a state that is not current.
LEMMA OldestNotNewer ==
  ASSUME TypeInv, OrderInv, RecordInv, NEW o \in Observers, ost[o] # 0, OldestRetired # None
  PROVE  OldestRetired \in Nat /\ OldestRetired <= states[ost[o]].generation
<1>1. /\ current = Len(states) /\ Len(states) \in Nat /\ ost[o] \in 1..Len(states)
      /\ \A i \in 1..Len(states) : states[i].generation \in Nat
  BY HeapFacts DEF TypeInv, TypeOK, HeapType, ObserverType, Ref, OrderInv
<1>2. Unexpired \subseteq 1..(current - 1) /\ Unexpired # {}
  BY UsedIsHeld DEF RecordInv, OldestRetired
<1>3. ost[o] \in retired => ost[o] \in Unexpired
  BY UsedIsHeld DEF InUse
<1>4. ost[o] \in retired \/ ost[o] \in {current, current - 1}
  BY DEF RecordInv, InUse, Retiring
<1>5. PICK i \in Unexpired : i <= ost[o]
  <2>1. CASE ost[o] \in retired
    BY <1>1, <1>3, <2>1
  <2>2. CASE ost[o] \in {current, current - 1}
    <3>1. PICK j : j \in Unexpired
      BY <1>2
    <3>2. j \in 1..(current - 1)
      BY <1>2, <3>1
    <3>3. j <= ost[o]
      BY <1>1, <2>2, <3>2
    <3> QED
      BY <3>1, <3>3
  <2> QED
    BY <1>4, <2>1, <2>2
<1>6. states[i].generation <= states[ost[o]].generation
  BY <1>1, <1>2, <1>5 DEF OrderInv
<1>7. OldestRetired \in Nat /\ OldestRetired <= states[i].generation
  BY OldestIsLeast
<1>8. i \in 1..Len(states)
  BY <1>1, <1>2
<1> QED
  BY <1>1, <1>6, <1>7, <1>8

LEMMA ObserverSnaps ==
  ASSUME TypeInv, CountInv, OrderInv, RecordInv, SnapInv, NEW o \in Observers, ObserverNext(o)
  PROVE  SnapInv'
<1>1. snap \in [Observers -> Snapshot] /\ None \notin Nat
  BY ThreadsAssumption DEF SnapInv
<1>2. NoSnap \in Snapshot /\ NoSnap.merges = None /\ NoSnap.oldest = None
  BY DEF NoSnap, Snapshot
<1>3. ASSUME NEW s \in Snapshot, snap' = [snap EXCEPT ![o] = s],
             s.merges # None => s.generation <= s.merges + 1,
             s.oldest # None => s.oldest <= s.generation
      PROVE  SnapInv'
  BY <1>1, <1>3 DEF SnapInv, SnapshotLag, SnapshotOldestNotNewer
<1>4. CASE ObserveLoad(o) \/ ObserveThrows(o)
  <2>1. snap' = [snap EXCEPT ![o] = NoSnap]
    BY <1>4 DEF ObserveLoad, ObserveThrows
  <2> QED
    BY <1>2, <1>3, <2>1
<1>5. CASE ObserveCleanup(o)
  BY <1>5 DEF ObserveCleanup, SnapInv, SnapshotLag, SnapshotOldestNotNewer
<1>6. CASE ObserveRead(o)
  <2> DEFINE s == states[ost[o]]
             n == [NoSnap EXCEPT !.oldest = OldestRetired, !.generation = s.generation,
                                 !.phase = phase, !.merges = merges,
                                 !.closedRows = ClosedSize(s)]
  <2>1. snap' = [snap EXCEPT ![o] = n]
    BY <1>6 DEF ObserveRead
  <2>2. ost[o] # 0 /\ ost[o] \in 1..Len(states) /\ current = Len(states) /\ Len(states) \in Nat
    BY <1>6, HeapFacts DEF ObserveRead, ObserveStep, TypeInv, ObserverLocals, TypeOK,
       ObserverType, Ref, HeapType, OrderInv
  <2>3. /\ s.generation \in Nat /\ ClosedSize(s) \in Nat
        /\ merges \in Nat /\ phase \in Lifecycle!MergePhase
    <3>1. s \in GenerationState /\ s.generation \in Nat
      BY <2>2, HeapFacts DEF TypeInv, TypeOK, HeapType
    <3>2. ClosedSize(s) \in Nat
      BY <3>1 DEF GenerationState, ClosedSize, ClosedDelta
    <3> QED
      BY <3>1, <3>2 DEF TypeInv, TypeOK, RetireType, LockType
  <2>4. s.generation <= merges + 1
    <3>1. s.generation <= states[current].generation
      BY <2>2 DEF OrderInv
    <3>2. states[current].generation \in {merges, merges + 1}
      BY DEF CountInv
    <3> QED
      BY <2>3, <3>1, <3>2
  <2>5. OldestRetired # None => OldestRetired \in Nat /\ OldestRetired <= s.generation
    BY <2>2, OldestNotNewer
  <2>6. /\ n.merges = merges /\ n.generation = s.generation /\ n.oldest = OldestRetired
        /\ n.phase = phase /\ n.closedRows = ClosedSize(s)
    BY DEF NoSnap
  <2>7. n \in Snapshot
    BY <2>3, <2>5 DEF NoSnap, Snapshot
  <2> HIDE DEF n
  <2> QED
    BY <1>3, <2>1, <2>4, <2>5, <2>6, <2>7
<1>7. CASE ObserveReturn(o)
  <2> DEFINE rows == Len(ActiveRows(ost[o]))
             n == [snap[o] EXCEPT !.activeRows = rows, !.retiredCount = Cardinality(retired)]
  <2>1. snap' = [snap EXCEPT ![o] = n]
    BY <1>1, <1>7 DEF ObserveReturn, Snapshot
  <2>2. rows \in Nat /\ Cardinality(retired) \in Nat
    <3>1. ost[o] \in 1..Len(states) /\ states[ost[o]].active \in 1..Len(deltas)
      BY <1>7 DEF ObserveReturn, LeaveObserve, ObserveStep, TypeInv, ObserverLocals, TypeOK,
         ObserverType, Ref, HeapType
    <3>2. deltas[states[ost[o]].active].rows \in Seq(Row)
      BY <3>1, HeapFacts DEF TypeInv, TypeOK, HeapType
    <3> QED
      BY <3>2, RetiredFinite, FS_CardinalityType DEF ActiveRows, TypeInv, TypeOK, RetireType
  <2>3. snap[o] \in Snapshot
    BY <1>1
  <2>4. /\ n \in Snapshot /\ n.merges = snap[o].merges
        /\ n.generation = snap[o].generation /\ n.oldest = snap[o].oldest
    <3> HIDE DEF rows
    <3> QED
      BY <2>2, <2>3 DEF Snapshot
  <2> HIDE DEF n
  <2> QED
    BY <1>3, <2>1, <2>4 DEF SnapInv, SnapshotLag, SnapshotOldestNotNewer
<1>8. CASE ObserveRelease(o)
  BY <1>8 DEF ObserveRelease, SnapInv, SnapshotLag, SnapshotOldestNotNewer
<1> QED
  BY <1>4, <1>5, <1>6, <1>7, <1>8 DEF ObserverNext

-----------------------------------------------------------------------------
(* The retired list *)

\* What a merge that retires a state leaves on record is in use by a reader, an observer or
\* the merge itself.
LEMMA OnRecord ==
  ASSUME TypeInv, LockInv, RecordInv, UseInv, NEW m \in Mergers,
         mpc[m] \in {"retireInput", "retireHandoff"}
  PROVE  Unexpired \cup {job[m].old} \subseteq
           {rst[r] : r \in Readers} \cup {ost[o] : o \in Observers}
             \cup {job[m].input, job[m].old}
<1>1. /\ job[m].old = current - 1 /\ current \notin retired /\ 0 \notin retired
      /\ current \in Nat
  BY DEF RecordInv, TypeInv, TypeOK, HeapType, OldSteps
<1>2. \A n \in Mergers \ {m} : job[n].input = 0 /\ job[n].old = 0
  BY Exclusion DEF OldSteps, UseInv, RecordInv
<1>3. \A w \in Writers : wst[w] \in {0, current, job[m].old}
  <2>1. CASE mpc[m] = "retireInput"
    BY <2>1 DEF UseInv, HandedOff
  <2>2. CASE mpc[m] = "retireHandoff"
    BY <1>1, <2>2 DEF UseInv, HandoffRetirement
  <2> QED
    BY <2>1, <2>2
<1>4. ASSUME NEW i \in Unexpired
      PROVE  i \in {rst[r] : r \in Readers} \cup {ost[o] : o \in Observers}
                     \cup {job[m].input, job[m].old}
  <2>1. i \in retired /\ Held(i) /\ i # 0 /\ i # current
    BY <1>1 DEF Unexpired
  <2> QED
    BY <1>2, <1>3, <2>1 DEF Held
<1> QED
  BY <1>4

\* The references of a finite set of threads.
LEMMA ReferencesBounded ==
  ASSUME NEW T, IsFiniteSet(T), NEW S, NEW f \in [T -> S]
  PROVE  /\ IsFiniteSet({f[t] : t \in T})
         /\ Cardinality({f[t] : t \in T}) <= Cardinality(T)
<1>1. f \in Surjection(T, {f[t] : t \in T})
  BY DEF Surjection
<1> QED
  BY <1>1, FS_Surjection

LEMMA PairBounded ==
  ASSUME NEW a, NEW b
  PROVE  IsFiniteSet({a, b}) /\ Cardinality({a, b}) <= 2
<1>1. {a, b} = {a} \cup {b}
  OBVIOUS
<1>2. IsFiniteSet({a}) /\ Cardinality({a}) = 1
  BY FS_Singleton
<1>3. /\ IsFiniteSet({a} \cup {b})
      /\ Cardinality({a} \cup {b}) \in {Cardinality({a}), Cardinality({a}) + 1}
  BY <1>2, FS_AddElement
<1>4. Cardinality({a, b}) \in {1, 2}
  BY <1>1, <1>2, <1>3
<1> QED
  BY <1>1, <1>3, <1>4

LEMMA UnionBounded ==
  ASSUME NEW S, IsFiniteSet(S), NEW T, IsFiniteSet(T)
  PROVE  /\ IsFiniteSet(S \cup T)
         /\ Cardinality(S \cup T) <= Cardinality(S) + Cardinality(T)
         /\ Cardinality(S) \in Nat /\ Cardinality(T) \in Nat /\ Cardinality(S \cup T) \in Nat
<1>1. IsFiniteSet(S \cup T) /\ IsFiniteSet(S \cap T)
  BY FS_Union, FS_Intersection
<1>2. Cardinality(S \cup T) = Cardinality(S) + Cardinality(T) - Cardinality(S \cap T)
  BY FS_Union
<1>3. /\ Cardinality(S) \in Nat /\ Cardinality(T) \in Nat
      /\ Cardinality(S \cup T) \in Nat /\ Cardinality(S \cap T) \in Nat
  BY <1>1, FS_CardinalityType
<1> QED
  BY <1>1, <1>2, <1>3

LEMMA RecordBounded ==
  ASSUME TypeInv, LockInv, RecordInv, UseInv, NEW m \in Mergers,
         mpc[m] \in {"retireInput", "retireHandoff"}, IsFiniteSet(Readers), IsFiniteSet(Observers)
  PROVE  Cardinality(Unexpired \cup {job[m].old})
           <= Cardinality(Readers) + Cardinality(Observers) + 2
<1> DEFINE R == {rst[r] : r \in Readers}
           O == {ost[o] : o \in Observers}
           J == {job[m].input, job[m].old}
           U == Unexpired \cup {job[m].old}
<1>1. rst \in [Readers -> Ref] /\ ost \in [Observers -> Ref]
  BY DEF TypeInv, TypeOK, ReaderType, ObserverType
<1>2. IsFiniteSet(R) /\ Cardinality(R) <= Cardinality(Readers)
  BY <1>1, ReferencesBounded
<1>3. IsFiniteSet(O) /\ Cardinality(O) <= Cardinality(Observers)
  BY <1>1, ReferencesBounded
<1>4. IsFiniteSet(J) /\ Cardinality(J) <= 2
  BY PairBounded
<1>5. U \in SUBSET ((R \cup O) \cup J)
  BY OnRecord
<1>6. Cardinality(Readers) \in Nat /\ Cardinality(Observers) \in Nat
  BY FS_CardinalityType
<1> HIDE DEF R, O, J, U
<1>7. /\ IsFiniteSet(R \cup O) /\ Cardinality(R \cup O) \in Nat
      /\ Cardinality(R \cup O) <= Cardinality(R) + Cardinality(O)
      /\ Cardinality(R) \in Nat /\ Cardinality(O) \in Nat
  BY <1>2, <1>3, UnionBounded
<1>8. /\ IsFiniteSet((R \cup O) \cup J) /\ Cardinality((R \cup O) \cup J) \in Nat
      /\ Cardinality((R \cup O) \cup J) <= Cardinality(R \cup O) + Cardinality(J)
      /\ Cardinality(J) \in Nat
  BY <1>4, <1>7, UnionBounded
<1>9. Cardinality(U) <= Cardinality((R \cup O) \cup J) /\ Cardinality(U) \in Nat
  BY <1>5, <1>8, FS_Subset, FS_CardinalityType
<1>10. Cardinality(U) <= Cardinality(Readers) + Cardinality(Observers) + 2
  BY <1>2, <1>3, <1>4, <1>6, <1>7, <1>8, <1>9
<1> QED
  BY <1>10 DEF U

\* What retire_state is about to put on record is within the bound when its clean-up is over,
\* and nobody else touches the list until it is done.
RecordWithin ==
  \A m \in Mergers : mpc[m] \in {"recordInput", "recordHandoff"} =>
    Cardinality(retired \cup {job[m].old}) <= Cardinality(Readers) + Cardinality(Observers) + 2

LEMMA MergerKeepsBound ==
  ASSUME TypeInv, LockInv, RecordInv, UseInv, RetiredBounded, RecordWithin,
         NEW m \in Mergers, MergerNext(m), IsFiniteSet(Readers), IsFiniteSet(Observers)
  PROVE  RetiredBounded' /\ RecordWithin'
<1>1. /\ \A n \in Mergers \ {m} : mpc[n] = "idle" /\ mpc'[n] = "idle"
      /\ mpc \in [Mergers -> {"idle", "entered", "handoff", "freeze", "snapshot",
                          "install", "retireInput", "recordInput", "releaseInput",
                          "handedOff", "build", "built", "publish", "retireHandoff",
                          "recordHandoff", "releaseHandoff", "published", "retired",
                          "account", "sample", "return"}]
  BY SoleMerger DEF TypeInv, TypeOK, MergerType
<1>2. ASSUME mpc'[m] \in {"recordInput", "recordHandoff"} =>
               Cardinality(retired' \cup {job'[m].old})
                 <= Cardinality(Readers) + Cardinality(Observers) + 2
      PROVE  RecordWithin'
  BY <1>1, <1>2 DEF RecordWithin
<1>3. CASE RetireInput(m) \/ RetireHandoff(m)
  <2>1. /\ mpc[m] \in {"retireInput", "retireHandoff"} /\ retired' = Unexpired
        /\ UNCHANGED <<job, peakRetired>>
    BY <1>3 DEF RetireInput, RetireHandoff, LockRetired, CleanupRetired, MergeStep
  <2> QED
    BY <1>2, <2>1, RecordBounded DEF RetiredBounded
<1>4. CASE RecordInput(m) \/ RecordHandoff(m)
  <2>1. /\ mpc[m] \in {"recordInput", "recordHandoff"}
        /\ mpc'[m] \notin {"recordInput", "recordHandoff"}
        /\ peakRetired' \in {peakRetired, Cardinality(retired \cup {job[m].old})}
    BY <1>1, <1>4 DEF RecordInput, RecordHandoff, RecordRetired, MergeStep
  <2> QED
    BY <1>2, <2>1 DEF RetiredBounded, RecordWithin
<1>5. \/ RetireInput(m) \/ RetireHandoff(m) \/ RecordInput(m) \/ RecordHandoff(m)
      \/ UNCHANGED peakRetired /\ mpc'[m] \notin {"recordInput", "recordHandoff"}
  BY <1>1 DEF MergerNext, HandoffStep, RebuildStep, MergeTryLock, MergeBegin, MergeRefused,
     HandoffLock, Freeze, FreezeSnapshot, InstallHandoff, ReleaseInput, ReleaseHandoff,
     ReleaseOld, EnterBuilding, Build, EnterPublishing, Publish, EnterRetired, EnterStable,
     Advance, Account, Sample, MergeReturn, MergeRejected, MergeThrows, LeaveMerge, MergeStep,
     retireVars
<1> QED
  BY <1>2, <1>3, <1>4, <1>5 DEF RetiredBounded

LEMMA NextKeepsBound ==
  ASSUME TypeInv, LockInv, RecordInv, UseInv, RetiredBounded, RecordWithin, [Next]_vars,
         IsFiniteSet(Readers), IsFiniteSet(Observers)
  PROVE  RetiredBounded' /\ RecordWithin'
<1>1. ASSUME UNCHANGED <<peakRetired, retired, mpc, job>>
      PROVE  RetiredBounded' /\ RecordWithin'
  BY <1>1 DEF RetiredBounded, RecordWithin
<1> USE DEF retireVars, mergerVars
<1>2. ASSUME NEW w \in Writers, WriterNext(w) PROVE UNCHANGED <<peakRetired, retired, mpc, job>>
  BY <1>2, WriterFrame DEF writerFrame
<1>3. ASSUME NEW r \in Readers, ReaderNext(r) PROVE UNCHANGED <<peakRetired, retired, mpc, job>>
  BY <1>3, ReaderFrame DEF readerFrame
<1>4. ASSUME NEW o \in Observers, ObserverNext(o) PROVE RetiredBounded' /\ RecordWithin'
  <2>1. UNCHANGED <<peakRetired, mpc, job>>
    BY <1>4, ObserverFrame DEF observerFrame
  <2>2. CASE UNCHANGED retired
    BY <1>1, <2>1, <2>2
  <2>3. CASE ObserveCleanup(o)
    <3>1. \A m \in Mergers : mpc[m] \notin {"recordInput", "recordHandoff"}
      BY <2>3, ThreadsAssumption DEF ObserveCleanup, LockInv, InTelemetry
    <3> QED
      BY <2>1, <3>1 DEF RetiredBounded, RecordWithin
  <2> QED
    BY <1>4, <2>2, <2>3 DEF ObserverNext, ObserveLoad, ObserveRead, ObserveReturn,
       ObserveThrows, ObserveRelease, LeaveObserve
<1>5. UNCHANGED vars => UNCHANGED <<peakRetired, retired, mpc, job>>
  BY DEF vars
<1> QED
  BY <1>1, <1>2, <1>3, <1>4, <1>5, MergerKeepsBound DEF Next

-----------------------------------------------------------------------------
(* The invariant *)

LEMMA NextKeepsSnaps ==
  ASSUME TypeInv, CountInv, OrderInv, RecordInv, SnapInv, [Next]_vars
  PROVE  SnapInv'
<1>1. ASSUME UNCHANGED snap PROVE SnapInv'
  BY <1>1 DEF SnapInv, SnapshotLag, SnapshotOldestNotNewer
<1> USE DEF observerVars
<1>2. ASSUME NEW w \in Writers, WriterNext(w) PROVE UNCHANGED snap
  BY <1>2, WriterFrame DEF writerFrame
<1>3. ASSUME NEW r \in Readers, ReaderNext(r) PROVE UNCHANGED snap
  BY <1>3, ReaderFrame DEF readerFrame
<1>4. ASSUME NEW m \in Mergers, MergerNext(m) PROVE UNCHANGED snap
  BY <1>4, MergerFrame DEF mergerFrame
<1>5. UNCHANGED vars => UNCHANGED snap
  BY DEF vars
<1> QED
  BY <1>1, <1>2, <1>3, <1>4, <1>5, ObserverSnaps DEF Next

LEMMA InitRetire == Init => RetireInv
<1> SUFFICES ASSUME Init PROVE RetireInv
  OBVIOUS
<1> USE DEF Init, Lifecycle!InitLifecycle
<1>1. /\ Len(states) = 1 /\ current = 1 /\ states[1].generation = 0
      /\ states[1].main = MainColumn(Initial)
  OBVIOUS
<1>2. \A m \in Mergers : mpc[m] = "idle" /\ job[m].old = 0 /\ job[m].input = 0
  BY DEF NoJob
<1>3. CountInv
  <2>1. Len(MainColumn(Initial)) = Len(Initial) /\ Len(Initial) \in Nat
    BY MainColumnType, InitialAssumption
  <2>2. MergedNow = 0
    BY <1>1, <2>1 DEF MergedNow
  <2> QED
    BY <1>1, <1>2, <2>2 DEF CountInv, AfterPublish
<1>4. OrderInv
  BY <1>1 DEF OrderInv
<1>5. InUse \subseteq {0}
  BY DEF InUse
<1>6. RecordInv
  BY <1>1, <1>2, <1>5 DEF RecordInv, OldSteps, UnrecordedSteps, RecordedSteps
<1>7. UseInv
  BY <1>2 DEF UseInv, HandedOff, HandoffRetirement
<1>8. RetirementAccounted
  <2>1. Retiring = {}
    BY <1>2 DEF Retiring
  <2>2. reclaimed = 0 /\ Cardinality(retired) = 0 /\ Cardinality(Retiring) = 0
    BY <2>1, FS_EmptySet
  <2> QED
    BY <1>1, <2>2 DEF RetirementAccounted, Untracked
<1>9. SnapInv
  BY DEF SnapInv, Snapshot, NoSnap, SnapshotLag, SnapshotOldestNotNewer
<1> QED
  BY <1>3, <1>4, <1>6, <1>7, <1>8, <1>9 DEF RetireInv

LEMMA NextKeepsRetire ==
  ASSUME TypeInv, TypeInv', LockInv, CoreInv, RetireInv, [Next]_vars
  PROVE  RetireInv'
BY NextKeepsCount, NextKeepsOrder, NextKeepsRecord, NextKeepsUse, NextKeepsAccount,
   NextKeepsSnaps DEF RetireInv

\* What the counters, the retired list and the snapshots say, step by step.
THEOREM RetirementInvariant == Spec => []RetireInv
<1>1. IInv /\ IInv' /\ RetireInv /\ [Next]_vars => RetireInv'
  BY NextKeepsRetire DEF IInv, CoreInv
<1> QED
  BY <1>1, InitRetire, InductiveInvariant, PTL DEF Spec

\* At rest the counters are the generation and the growth of the published main.
THEOREM CountersAreRight == Spec => []CountersMatchMain
<1>1. IInv /\ RetireInv => CountersMatchMain
  <2> SUFFICES ASSUME IInv, RetireInv, mergeLock = NoThread, phase = "Stable"
               PROVE  Settled
    BY DEF CountersMatchMain, RetireInv, CountInv, MergedNow
  <2>1. \A m \in Mergers : mpc[m] = "idle"
    BY ThreadsAssumption DEF IInv, LockInv
  <2> QED
    BY <2>1 DEF Settled
<1> QED
  BY <1>1, InductiveInvariant, RetirementInvariant, PTL

\* Every replaced state in use is on record, but for the last one of a failed merge.
THEOREM HeldStatesAreTracked == Spec => []HeldStatesTracked
<1>1. RetireInv => HeldStatesTracked
  <2> DEFINE Lost == InUse \ ({0, current} \cup retired \cup Retiring)
  <2> SUFFICES ASSUME RetireInv PROVE Cardinality(Lost) \in Untracked
    BY DEF HeldStatesTracked, InUse
  <2>1. CASE Lost = {}
    BY <2>1, FS_EmptySet DEF Untracked
  <2>2. CASE Lost # {}
    <3>1. \A i \in Lost : Wedged /\ i = current - 1
      BY DEF RetireInv, RecordInv
    <3>2. Lost = {current - 1} /\ Wedged
      BY <2>2, <3>1
    <3>3. Cardinality(Lost) = 1
      BY <3>2, FS_Singleton
    <3> QED
      BY <3>2, <3>3 DEF Untracked
  <2> QED
    BY <2>1, <2>2
<1> QED
  BY <1>1, RetirementInvariant, PTL

\* Every replaced state is counted once, or was lost by the merge that threw.
THEOREM RetirementAddsUp == Spec => []RetirementAccounted
<1>1. RetireInv => RetirementAccounted
  BY DEF RetireInv
<1> QED
  BY <1>1, RetirementInvariant, PTL

\* A snapshot shows a generation at most one publication ahead of its count.
THEOREM SnapshotsLagByOne == Spec => []SnapshotLag
<1>1. RetireInv => SnapshotLag
  BY DEF RetireInv, SnapInv
<1> QED
  BY <1>1, RetirementInvariant, PTL

\* A snapshot reports no retired generation above the one it calls current.
THEOREM OldestIsNotNewer == Spec => []SnapshotOldestNotNewer
<1>1. RetireInv => SnapshotOldestNotNewer
  BY DEF RetireInv, SnapInv
<1> QED
  BY <1>1, RetirementInvariant, PTL

\* However many merges run, the retired list stays within two of the number of
\* readers and observers.
THEOREM RetiredListBounded ==
  ASSUME IsFiniteSet(Readers), IsFiniteSet(Observers)
  PROVE  Spec => []RetiredBounded
<1>1. Init => RetiredBounded /\ RecordWithin
  BY FS_CardinalityType DEF Init, RetiredBounded, RecordWithin
<1>2. IInv /\ RetireInv /\ RetiredBounded /\ RecordWithin /\ [Next]_vars
        => RetiredBounded' /\ RecordWithin'
  BY NextKeepsBound DEF IInv, RetireInv
<1> QED
  BY <1>1, <1>2, InductiveInvariant, RetirementInvariant, PTL DEF Spec

-----------------------------------------------------------------------------
(* Queries: the rows of a state, as they are stored *)

ClosedRows(s) == IF s.closed = NoDelta THEN << >> ELSE s.closed.rows

\* Main, closed delta and a prefix of the active delta, one after the other.
Stored(s, prefix) == (s.main \o ClosedRows(s)) \o prefix

LEMMA StoredParts ==
  ASSUME NEW s \in GenerationState, Covers(s)
  PROVE  /\ s.main \in Seq(Row) /\ ClosedRows(s) \in Seq(Row) /\ s.base \in Nat
         /\ Len(s.main) \in Nat /\ Len(ClosedRows(s)) \in Nat
         /\ s.base = Len(s.main) + Len(ClosedRows(s))
         /\ s.closed # NoDelta => s.closed.base = Len(s.main)
         /\ s.main \o ClosedRows(s) \in Seq(Row)
         /\ Len(s.main \o ClosedRows(s)) = s.base
<1>1. /\ s.base \in Nat /\ s.main \in Seq(Row) /\ s.closed \in ClosedDelta \cup {NoDelta}
  BY DEF GenerationState
<1>2. << >> \in Seq(Row) /\ Len(<< >>) = 0
  BY EmptySeq
<1>3. ClosedRows(s) \in Seq(Row) /\ Len(ClosedRows(s)) = ClosedSize(s)
  BY <1>1, <1>2 DEF ClosedRows, ClosedDelta, ClosedSize
<1>4. Len(s.main) \in Nat /\ Len(ClosedRows(s)) \in Nat
  BY <1>1, <1>3, LenProperties
<1>5. /\ s.main \o ClosedRows(s) \in Seq(Row)
      /\ Len(s.main \o ClosedRows(s)) = Len(s.main) + Len(ClosedRows(s))
  BY <1>1, <1>3, ConcatProperties
<1> QED
  BY <1>1, <1>3, <1>4, <1>5 DEF Covers

\* Two stores joined answer with one or the other.
LEMMA JoinedAt ==
  ASSUME NEW u \in Seq(Row), NEW v \in Seq(Row), NEW i \in Nat, i < Len(u) + Len(v)
  PROVE  (u \o v)[i + 1] = IF i < Len(u) THEN u[i + 1] ELSE v[i - Len(u) + 1]
<1>1. Len(u) \in Nat /\ Len(v) \in Nat
  BY LenProperties
<1>2. i + 1 \in 1..(Len(u) + Len(v)) /\ (i + 1 <= Len(u) <=> i < Len(u))
      /\ i + 1 - Len(u) = i - Len(u) + 1
  BY <1>1
<1>3. (u \o v)[i + 1] = IF i + 1 <= Len(u) THEN u[i + 1] ELSE v[i + 1 - Len(u)]
  BY <1>2, ConcatProperties
<1> QED
  BY <1>2, <1>3

\* The stores hold the rows of the row space, in its order.
LEMMA StoredRows ==
  ASSUME NEW s \in GenerationState, Covers(s), NEW p \in Seq(Row)
  PROVE  /\ Stored(s, p) \in Seq(Row) /\ Len(Stored(s, p)) = s.base + Len(p)
         /\ \A i \in 0..(s.base + Len(p) - 1) : Stored(s, p)[i + 1] = RowAt(s, p, i)
<1> DEFINE main == s.main
           closed == ClosedRows(s)
           base == s.base
<1>1. /\ main \in Seq(Row) /\ closed \in Seq(Row) /\ main \o closed \in Seq(Row)
      /\ base \in Nat /\ Len(main) \in Nat /\ Len(closed) \in Nat /\ Len(p) \in Nat
      /\ base = Len(main) + Len(closed) /\ Len(main \o closed) = base
  BY StoredParts, LenProperties
<1>2. Stored(s, p) = (main \o closed) \o p
  BY DEF Stored
<1>3. Len(closed) > 0 => closed = s.closed.rows
  BY EmptySeq DEF ClosedRows
<1>4. \A i : RowAt(s, p, i) = IF i < Len(main) THEN main[i + 1]
                              ELSE IF i < base THEN s.closed.rows[i - Len(main) + 1]
                              ELSE p[i - base + 1]
  BY DEF RowAt
<1> HIDE DEF main, closed, base
<1>5. /\ Stored(s, p) \in Seq(Row) /\ Len(Stored(s, p)) = base + Len(p)
  BY <1>1, <1>2, ConcatProperties
<1>6. ASSUME NEW i \in 0..(base + Len(p) - 1) PROVE Stored(s, p)[i + 1] = RowAt(s, p, i)
  <2>1. i \in Nat /\ i < base + Len(p)
    BY <1>1
  <2>2. Stored(s, p)[i + 1]
          = IF i < base THEN (main \o closed)[i + 1] ELSE p[i - base + 1]
    BY <1>1, <1>2, <2>1, JoinedAt
  <2>3. i < base => (main \o closed)[i + 1]
          = IF i < Len(main) THEN main[i + 1] ELSE closed[i - Len(main) + 1]
    BY <1>1, <2>1, JoinedAt
  <2>4. i < base /\ ~(i < Len(main)) => closed = s.closed.rows
    BY <1>1, <1>3
  <2>5. i < Len(main) => i < base
    BY <1>1, <2>1
  <2> QED
    BY <1>4, <2>2, <2>3, <2>4, <2>5
<1> QED
  BY <1>5, <1>6 DEF base

\* A view of a state is what is stored in it, up to ==.
LEMMA ViewIsStored ==
  ASSUME NEW s \in GenerationState, Covers(s), NEW p \in Seq(Row), NEW n \in Nat, n <= Len(p)
  PROVE  LET rows == LogicalRows(s, p, n)
             stored == Stored(s, SubSeq(p, 1, n))
         IN  /\ SubSeq(p, 1, n) \in Seq(Row)
             /\ rows \in Seq(Row) /\ stored \in Seq(Row) /\ Len(rows) = Len(stored)
             /\ \A k \in 1..Len(rows) : Canonical(rows[k]) = Canonical(stored[k])
<1> DEFINE q == SubSeq(p, 1, n)
           base == s.base
<1>1. q \in Seq(Row) /\ Len(q) = n /\ \A k \in 1..n : q[k] = p[k]
  <2>1. \A k \in 1..n : p[k] \in Row
    <3>1. Len(p) \in Nat
      BY LenProperties
    <3>2. ASSUME NEW k \in 1..n PROVE p[k] \in Row
      <4>1. k \in 1..Len(p)
        BY <3>1
      <4> QED
        BY <4>1, ElementOfSeq
    <3> QED
      BY <3>2
  <2> QED
    BY <2>1, SubSeqProperties
<1>2. base \in Nat /\ Len(s.main) \in Nat /\ Len(s.main) <= base
  BY MainBelowBase
<1>3. LogicalRows(s, p, n) = [k \in 1..(base + n) |-> Canonical(RowAt(s, p, k - 1))]
  BY DEF LogicalRows, LogicalSize
<1>4. LogicalRows(s, p, n) \in Seq(Row) /\ Len(LogicalRows(s, p, n)) = base + n
  BY ViewType
<1> HIDE DEF q
<1>5. /\ Stored(s, q) \in Seq(Row) /\ Len(Stored(s, q)) = base + n
      /\ \A i \in 0..(base + n - 1) : Stored(s, q)[i + 1] = RowAt(s, q, i)
  BY <1>1, StoredRows
<1>6. ASSUME NEW k \in 1..(base + n) PROVE RowAt(s, p, k - 1) = RowAt(s, q, k - 1)
  <2>1. CASE k - 1 < base
    BY <2>1 DEF RowAt
  <2>2. CASE ~(k - 1 < base)
    <3>1. k - 1 - base + 1 \in 1..n /\ ~(k - 1 < Len(s.main))
      BY <1>2, <2>2
    <3> QED
      BY <1>1, <2>2, <3>1 DEF RowAt
  <2> QED
    BY <2>1, <2>2
<1>7. ASSUME NEW k \in 1..(base + n)
      PROVE  Canonical(LogicalRows(s, p, n)[k]) = Canonical(Stored(s, q)[k])
  <2>1. k - 1 \in 0..(base + n - 1) /\ k - 1 + 1 = k
    BY <1>2
  <2>2. Stored(s, q)[k] = RowAt(s, q, k - 1)
    BY <1>5, <2>1
  <2>3. LogicalRows(s, p, n)[k] = Canonical(RowAt(s, p, k - 1))
    BY <1>3
  <2> QED
    BY <1>6, <2>2, <2>3, CanonicalIdempotent
<1> QED
  BY <1>1, <1>4, <1>5, <1>7 DEF q

-----------------------------------------------------------------------------
(* Queries: what a state answers *)

\* generation_equal and generation_range over a state that partitions its row space and
\* whose main can be encoded return what a scan of the rows of the view returns: the codes
\* of the main, the closed delta and the prefix are searched each in its own way, and the
\* RowIds found join up.  A range query with an unsupported target throws.
THEOREM StateAnswers ==
  ASSUME NEW s \in GenerationState, Covers(s), Encodable(s.main), Fits(s.main),
         NEW p \in Seq(Row), NEW n \in Nat, n <= Len(p), NEW op \in Ops, NEW target \in Values
  PROVE  GenerationQuery(s, SubSeq(p, 1, n), op, target)
           = QueryOf(LogicalRows(s, p, n), op, target)
<1> DEFINE q == SubSeq(p, 1, n)
           main == s.main
           closed == ClosedRows(s)
           inMain == MainMatches(BuildEncoded(main), op, target)
           inClosed == RawMatches(closed, Len(main), op, target)
           inPrefix == RawMatches(q, s.base, op, target)
<1>1. /\ q \in Seq(Row) /\ main \in Seq(Row) /\ closed \in Seq(Row)
      /\ Len(main) \in Nat /\ s.base = Len(main) + Len(closed)
      /\ s.closed # NoDelta => s.closed.base = Len(main)
  BY ViewIsStored, StoredParts
<1>2. QueryOf(LogicalRows(s, p, n), op, target) = QueryOf(Stored(s, q), op, target)
  BY ViewIsStored, QueryAlike
<1>3. inMain = QueryOf(main, op, target)
  BY <1>1, MainAnswers
<1>4. GenerationQuery(s, q, op, target)
        = IF inMain = Thrown THEN Thrown ELSE inMain \o inClosed \o inPrefix
  <2>1. CASE s.closed = NoDelta
    <3>1. inClosed = << >>
      BY <1>1, <2>1, RawNone DEF ClosedRows
    <3> QED
      BY <2>1, <3>1 DEF GenerationQuery
  <2>2. CASE s.closed # NoDelta
    BY <1>1, <2>2 DEF GenerationQuery, ClosedRows
  <2> QED
    BY <2>1, <2>2
<1>5. RawMatches(Stored(s, q), 0, op, target)
        = (RawMatches(main, 0, op, target) \o inClosed) \o inPrefix
  <2>1. Stored(s, q) = (main \o closed) \o q
    BY DEF Stored
  <2>2. inPrefix = RawMatches(q, Len(main) + Len(closed), op, target)
    BY <1>1, Zenon
  <2> HIDE DEF main, closed, q, inPrefix
  <2>3. main \in Seq(Row) /\ closed \in Seq(Row) /\ q \in Seq(Row)
    BY <1>1
  <2>4. ScanInParts(main, closed, q, op, target)
    BY <2>3, PartsOfScan
  <2> QED
    BY <2>1, <2>2, <2>4 DEF ScanInParts
<1>6. CASE op \in RangeOps /\ ~IsSupported(target)
  BY <1>2, <1>3, <1>4, <1>6 DEF QueryOf
<1>7. CASE ~(op \in RangeOps /\ ~IsSupported(target))
  <2>1. inMain = RawMatches(main, 0, op, target) /\ inMain # Thrown
    BY <1>1, <1>3, <1>7, QueryFacts
  <2>2. QueryOf(Stored(s, q), op, target) = RawMatches(Stored(s, q), 0, op, target)
    BY <1>7 DEF QueryOf
  <2> HIDE DEF inMain, inClosed, inPrefix, q, main
  <2> QED
    BY <1>2, <1>4, <1>5, <2>1, <2>2 DEF q
<1> QED
  BY <1>6, <1>7

-----------------------------------------------------------------------------
(* Queries: what dictionaries accepted, and the bound on rows *)

\* Canonical rows can be encoded if the rows can.
LEMMA MainEncodable ==
  ASSUME NEW rows \in Seq(Row), Encodable(rows)
  PROVE  Encodable(MainColumn(rows))
<1>1. DOMAIN MainColumn(rows) = DOMAIN rows
  BY DEF MainColumn
<1>2. ASSUME NEW i \in DOMAIN rows PROVE MainColumn(rows)[i] \notin Unsupported
  <2>1. MainColumn(rows)[i] = Canonical(rows[i]) /\ rows[i] \notin Unsupported
    BY <1>2 DEF MainColumn, Encodable
  <2> QED
    BY <2>1, ValuesAssumption DEF Canonical
<1> QED
  BY <1>1, <1>2 DEF Encodable

\* What a merge builds from stays as it is, once a dictionary has accepted it.
LEMMA BuiltFrom ==
  ASSUME TypeInv, CoreInv, [Next]_vars, NEW m \in Mergers, mpc'[m] \in BuiltSteps
  PROVE  Build(m) \/ (mpc[m] \in BuiltSteps /\ RawRows(m)' = RawRows(m))
<1>1. ASSUME mpc[m] \in BuiltSteps, job'[m] = job[m] PROVE RawRows(m)' = RawRows(m)
  <2>1. job[m].input \in 1..Len(states)
    BY <1>1, HeapFacts DEF TypeInv, TypeOK, MergerType, Job, MergerLocals, InputSteps,
       ClosedSteps, FreshSteps, HandedOff, BuiltSteps
  <2>2. states'[job[m].input] = states[job[m].input]
    BY <2>1, HeapGrows
  <2> QED
    BY <1>1, <2>2 DEF RawRows
<1>2. ASSUME MergerNext(m) PROVE Build(m) \/ (mpc[m] \in BuiltSteps /\ job'[m] = job[m])
  BY <1>2 DEF MergerNext, HandoffStep, RebuildStep, MergeTryLock, MergeBegin,
     MergeRefused, HandoffLock, Freeze, FreezeSnapshot, InstallHandoff, RetireInput,
     RecordInput, ReleaseInput, LockRetired, RecordRetired, ReleaseOld, EnterBuilding,
     EnterPublishing, Publish, RetireHandoff, RecordHandoff, ReleaseHandoff,
     EnterRetired, EnterStable, Advance, Account, Sample, MergeReturn, MergeRejected,
     MergeThrows, LeaveMerge, MergeStep, BuiltSteps, TypeInv, TypeOK, MergerType
<1>3. ASSUME NEW n \in Mergers, MergerNext(n), n # m
      PROVE  mpc[m] \in BuiltSteps /\ job'[m] = job[m]
  BY <1>3, MergerStepsAlone
<1>4. UNCHANGED mergerVars => mpc[m] \in BuiltSteps /\ job'[m] = job[m]
  BY DEF mergerVars
<1>5. ASSUME NEW w \in Writers, WriterNext(w) PROVE UNCHANGED mergerVars
  BY <1>5, WriterFrame DEF writerFrame
<1>6. ASSUME NEW r \in Readers, ReaderNext(r) PROVE UNCHANGED mergerVars
  BY <1>6, ReaderFrame DEF readerFrame
<1>7. ASSUME NEW o \in Observers, ObserverNext(o) PROVE UNCHANGED mergerVars
  BY <1>7, ObserverFrame DEF observerFrame
<1>8. UNCHANGED vars => UNCHANGED mergerVars
  BY DEF vars
<1> QED
  BY <1>1, <1>2, <1>3, <1>4, <1>5, <1>6, <1>7, <1>8 DEF Next

\* A handoff carries the main over; a publication installs the one that was built.
LEMMA NextKeepsMains ==
  ASSUME TypeInv, LockInv, CoreInv, MainInv, [Next]_vars
  PROVE  MainInv'
<1>1. Len(states) \in Nat
  BY HeapFacts DEF TypeInv, TypeOK
<1>2. ASSUME NEW i \in 1..Len(states') PROVE Encodable(states'[i].main)
  <2>1. CASE UNCHANGED states
    BY <2>1 DEF MainInv
  <2>2. ASSUME NEW m \in Mergers, InstallHandoff(m) PROVE Encodable(states'[i].main)
    <3>1. /\ Len(states') = Len(states) + 1
          /\ states'[Len(states) + 1] = HandoffState(m, Len(deltas) + 1)
          /\ \A k \in 1..Len(states) : states'[k] = states[k]
      BY <2>2, InstallHandoffHeap
    <3>2. job[m].input \in 1..Len(states)
      BY <2>2, HeapFacts DEF InstallHandoff, MergeStep, TypeInv, TypeOK, MergerType, Job,
         MergerLocals, InputSteps, ClosedSteps
    <3>3. Encodable(HandoffState(m, Len(deltas) + 1).main)
      BY <3>2 DEF HandoffState, MainInv
    <3> QED
      BY <1>1, <3>1, <3>3 DEF MainInv
  <2>3. ASSUME NEW m \in Mergers, Publish(m) PROVE Encodable(states'[i].main)
    <3>1. /\ Len(states') = Len(states) + 1
          /\ states'[Len(states) + 1] = PublishedState(m)
          /\ \A k \in 1..Len(states) : states'[k] = states[k]
      BY <2>3, PublishHeap
    <3>2. mpc[m] \in BuiltSteps /\ mpc[m] \in ClosedSteps
      BY <2>3 DEF Publish, MergeStep, BuiltSteps, ClosedSteps, FreshSteps, HandedOff
    <3>3. RawRows(m) \in Seq(Row) /\ Encodable(RawRows(m))
      BY <3>2, RawRowsType DEF MainInv
    <3>4. job[m].built = MainColumn(RawRows(m))
      BY <3>2 DEF CoreInv, MergeInv, MergeKnows
    <3>5. Encodable(PublishedState(m).main)
      BY <3>3, <3>4, MainEncodable DEF PublishedState
    <3> QED
      BY <1>1, <3>1, <3>5 DEF MainInv
  <2>4. \A w \in Writers : AppendPublish(w) => UNCHANGED states
    BY DEF AppendPublish, writerFrame
  <2>5. \A m \in Mergers : Freeze(m) => UNCHANGED states
    BY DEF Freeze
  <2> QED
    BY <2>1, <2>2, <2>3, <2>4, <2>5, ColumnSteps DEF columnVars
<1>3. ASSUME NEW m \in Mergers, mpc'[m] \in BuiltSteps PROVE Encodable(RawRows(m)')
  <2>1. CASE Build(m)
    <3>1. Encodable(RawRows(m)) /\ UNCHANGED columnVars
      BY <2>1 DEF Build
    <3>2. job'[m].input = job[m].input /\ job'[m].closed = job[m].closed
      BY <2>1 DEF Build, TypeInv, TypeOK, MergerType, Job
    <3> QED
      BY <3>1, <3>2 DEF RawRows, columnVars
  <2>2. CASE mpc[m] \in BuiltSteps /\ RawRows(m)' = RawRows(m)
    BY <2>2 DEF MainInv
  <2> QED
    BY <1>3, <2>1, <2>2, BuiltFrom
<1> QED
  BY <1>2, <1>3 DEF MainInv, Encodable

\* Only the publication of an append makes the row space longer.
LEMMA LengthKept ==
  ASSUME TypeInv, LockInv, CoreInv, [Next]_vars, \A w \in Writers : ~AppendPublish(w)
  PROVE  LogicalLen' = LogicalLen
<1>1. CASE UNCHANGED columnVars
  BY <1>1 DEF columnVars, LogicalLen, ActiveRows
<1>2. CASE \E m \in Mergers : Freeze(m) \/ InstallHandoff(m) \/ Publish(m)
  BY <1>2, FreezeKeepsRows, HandoffKeepsRows, PublishKeepsRows
<1> QED
  BY <1>1, <1>2, ColumnSteps

\* A row enters the row space when its append leaves the ones that wait.
LEMMA WriterKeepsSize ==
  ASSUME IsFiniteSet(Writers), TypeInv, LockInv, CoreInv, SizeInv, NEW w \in Writers,
         WriterNext(w)
  PROVE  SizeInv'
<1>1. Appending \in SUBSET Writers /\ IsFiniteSet(Appending) /\ LogicalLen \in Nat
  BY FS_Subset, CurrentState DEF Appending, CoreInv
<1>2. Cardinality(Appending) \in Nat /\ MaxRows \in Nat
  BY <1>1, FS_CardinalityType, BoundsAssumption
<1>3. \A x \in Writers \ {w} : wpc'[x] = wpc[x]
  BY DEF WriterNext, AppendStep, AppendCall, AppendLock, AppendLoad, AppendCheck,
     AppendThrows, AppendPublish, AppendReturn, LeaveAppend, TypeInv, TypeOK, WriterType
<1>4. CASE \E row \in Row : AppendCall(w, row)
  <2>1. /\ wpc[w] = "idle" /\ wpc'[w] = "calling"
        /\ LogicalLen + Cardinality({x \in Writers : wpc[x] # "idle"}) < MaxRows
        /\ UNCHANGED columnVars
    BY <1>4 DEF AppendCall, writerFrame, columnVars, TypeInv, TypeOK, WriterType
  <2>2. Appending' = Appending \cup {w} /\ w \notin Appending
    BY <1>3, <2>1 DEF Appending
  <2>3. /\ Appending \subseteq {x \in Writers : wpc[x] # "idle"}
        /\ IsFiniteSet({x \in Writers : wpc[x] # "idle"})
    BY FS_Subset DEF Appending
  <2>4. /\ Cardinality(Appending) <= Cardinality({x \in Writers : wpc[x] # "idle"})
        /\ Cardinality({x \in Writers : wpc[x] # "idle"}) \in Nat
    BY <2>3, FS_Subset, FS_CardinalityType
  <2>5. Cardinality(Appending') = Cardinality(Appending) + 1
    BY <1>1, <2>2, FS_AddElement
  <2>6. LogicalLen' = LogicalLen
    BY <2>1 DEF columnVars, LogicalLen, ActiveRows
  <2> QED
    BY <1>1, <1>2, <2>1, <2>4, <2>5, <2>6 DEF SizeInv
<1>5. CASE AppendPublish(w)
  <2>1. wpc[w] = "open" /\ wpc'[w] = "published"
    BY <1>5 DEF AppendPublish, TypeInv, TypeOK, WriterType
  <2>2. Appending' = Appending \ {w} /\ w \in Appending
    BY <1>3, <2>1 DEF Appending
  <2>3. Cardinality(Appending') = Cardinality(Appending) - 1
    BY <1>1, <2>2, FS_RemoveElement
  <2>4. LogicalLen' = LogicalLen + 1
    BY <1>5, PublishedRowKept
  <2> QED
    BY <1>1, <1>2, <2>3, <2>4 DEF SizeInv
<1>6. CASE ~(\E row \in Row : AppendCall(w, row)) /\ ~AppendPublish(w)
  <2>1. wpc'[w] \in {"calling", "locked", "loaded", "open"} => w \in Appending
    BY <1>6 DEF WriterNext, AppendStep, AppendLock, AppendLoad, AppendCheck, AppendThrows,
       AppendReturn, LeaveAppend, Appending, TypeInv, TypeOK, WriterType
  <2>2. Appending' \subseteq Appending
    BY <1>3, <2>1 DEF Appending
  <2>3. Cardinality(Appending') <= Cardinality(Appending) /\ Cardinality(Appending') \in Nat
    BY <1>1, <2>2, FS_Subset, FS_CardinalityType
  <2>4. LogicalLen' = LogicalLen
    <3>1. UNCHANGED columnVars
      BY <1>6, WriterFrame DEF writerFrame, columnVars
    <3> QED
      BY <3>1 DEF columnVars, LogicalLen, ActiveRows
  <2> QED
    BY <1>1, <1>2, <2>3, <2>4 DEF SizeInv
<1> QED
  BY <1>4, <1>5, <1>6

LEMMA NextKeepsSize ==
  ASSUME IsFiniteSet(Writers), TypeInv, LockInv, CoreInv, SizeInv, [Next]_vars
  PROVE  SizeInv'
<1>1. ASSUME UNCHANGED writerVars PROVE SizeInv'
  <2>1. \A w \in Writers : ~AppendPublish(w)
    BY <1>1 DEF AppendPublish, writerVars, TypeInv, TypeOK, WriterType
  <2>2. LogicalLen' = LogicalLen
    BY <2>1, LengthKept
  <2> QED
    BY <1>1, <2>2 DEF SizeInv, Appending, writerVars
<1>2. ASSUME NEW m \in Mergers, MergerNext(m) PROVE UNCHANGED writerVars
  BY <1>2, MergerFrame DEF mergerFrame
<1>3. ASSUME NEW r \in Readers, ReaderNext(r) PROVE UNCHANGED writerVars
  BY <1>3, ReaderFrame DEF readerFrame
<1>4. ASSUME NEW o \in Observers, ObserverNext(o) PROVE UNCHANGED writerVars
  BY <1>4, ObserverFrame DEF observerFrame
<1>5. UNCHANGED vars => UNCHANGED writerVars
  BY DEF vars
<1> QED
  BY <1>1, <1>2, <1>3, <1>4, <1>5, WriterKeepsSize DEF Next

-----------------------------------------------------------------------------
(* Queries: the log after a view was acquired *)

\* All the rows of a state, as a sequence.
LEMMA RowsOfType ==
  ASSUME Inv, NEW i \in 1..Len(states)
  PROVE  /\ states[i] \in GenerationState /\ Covers(states[i]) /\ states[i].base \in Nat
         /\ ActiveRows(i) \in Seq(Row) /\ Len(ActiveRows(i)) \in Nat
         /\ RowsOf(i) \in Seq(Row) /\ Len(RowsOf(i)) = states[i].base + Len(ActiveRows(i))
<1>1. /\ states[i] \in GenerationState /\ Covers(states[i]) /\ ActiveRows(i) \in Seq(Row)
      /\ states[i].base \in Nat
  BY HeapFacts DEF Inv, CoreInv, HeapInv, TypeInv, TypeOK, ActiveRows, GenerationState
<1>2. Len(ActiveRows(i)) \in Nat /\ Len(ActiveRows(i)) <= Len(ActiveRows(i))
  BY <1>1, LenProperties
<1> QED
  BY <1>1, <1>2, ViewType DEF RowsOf

\* What starts the log goes on starting it.
LEMMA StartStays ==
  ASSUME Inv, [Next]_vars, NEW rows \in Seq(Row), StartsLog(rows)
  PROVE  StartsLog(rows)'
<1>1. LogNow \in Seq(Row) /\ Len(LogNow) \in Nat /\ Len(rows) \in Nat
  BY LogType, LenProperties
<1>2. CASE LogNow' = LogNow
  BY <1>2 DEF StartsLog
<1>3. ASSUME NEW w \in Writers, AppendPublish(w) PROVE StartsLog(rows)'
  <2> DEFINE x == Canonical(wrow[w])
  <2>1. x \in Row
    BY <1>3, CanonicalType, AppendPublishHeap DEF Inv, CoreInv
  <2>2. LogNow' = Append(LogNow, x)
    BY <1>3, LogGrows
  <2> HIDE DEF x
  <2>3. /\ Len(Append(LogNow, x)) = Len(LogNow) + 1
        /\ \A k \in 1..Len(LogNow) : Append(LogNow, x)[k] = LogNow[k]
    BY <1>1, <2>1, AppendProperties
  <2>4. \A k \in 1..Len(rows) : k \in 1..Len(LogNow)
    BY <1>1 DEF StartsLog
  <2> QED
    BY <1>1, <2>2, <2>3, <2>4 DEF StartsLog
<1> QED
  BY <1>2, <1>3, LogKept

\* A state that is replaced leaves all its rows in the log.
LEMMA NextKeepsGrown ==
  ASSUME Inv, GrownInv, [Next]_vars
  PROVE  GrownInv'
<1> SUFFICES ASSUME NEW i \in 1..Len(states'), states'[i].active # states'[current'].active
             PROVE  StartsLog(RowsOf(i))'
  BY DEF GrownInv
<1>1. /\ Len(states) \in Nat /\ current \in 1..Len(states)
      /\ \A k \in 1..Len(states) : states[k].active \in 1..Len(deltas)
  BY LoadedState, HeapFacts DEF Inv, TypeInv, TypeOK
<1>2. i \in 1..Len(states) /\ states'[i] = states[i]
  <2>1. CASE Len(states') = Len(states)
    BY <2>1, HeapGrows DEF Inv
  <2>2. CASE Len(states') = Len(states) + 1 /\ current' = Len(states) + 1
    <3>1. i \in 1..Len(states)
      BY <1>1, <2>2
    <3> QED
      BY <3>1, HeapGrows DEF Inv
  <2>3. \A m \in Mergers : InstallHandoff(m) \/ Publish(m) =>
          Len(states') = Len(states) + 1 /\ current' = Len(states) + 1
    BY InstallHandoffHeap, PublishHeap DEF Inv
  <2>4. \A w \in Writers : AppendPublish(w) => UNCHANGED states
    BY DEF AppendPublish, writerFrame
  <2>5. \A m \in Mergers : Freeze(m) => UNCHANGED states
    BY DEF Freeze
  <2> QED
    BY <2>1, <2>2, <2>3, <2>4, <2>5, ColumnSteps DEF columnVars
<1>3. RowsOf(i) \in Seq(Row)
  BY <1>2, RowsOfType
<1>4. ASSUME deltas'[states[i].active].rows = deltas[states[i].active].rows
      PROVE  RowsOf(i)' = RowsOf(i)
  BY <1>2, <1>4 DEF RowsOf, ActiveRows
<1>5. CASE states[i].active # states[current].active
  <2>1. deltas[states[i].active].closed
    BY <1>2, <1>5 DEF Inv, LogInv, FrozenInv
  <2>2. RowsOf(i)' = RowsOf(i)
    BY <1>1, <1>2, <1>4, <2>1, ClosedLasts
  <2>3. StartsLog(RowsOf(i))
    BY <1>2, <1>5 DEF GrownInv
  <2> QED
    BY <1>3, <2>2, <2>3, StartStays DEF StartsLog
<1>6. CASE states[i].active = states[current].active
  <2>1. ASSUME NEW w \in Writers, AppendPublish(w) PROVE FALSE
    BY <1>2, <1>6, <2>1 DEF AppendPublish, writerFrame
  <2>2. deltas'[states[i].active].rows = deltas[states[i].active].rows
    BY <1>1, <1>2, <2>1, HeapGrows DEF Inv
  <2>3. RowsOf(i) = LogNow
    BY <1>2, <1>6, SharedView DEF RowsOf
  <2>4. StartsLog(RowsOf(i))
    <3>1. Len(LogNow) \in Nat
      BY LogType
    <3> QED
      BY <2>3, <3>1 DEF StartsLog
  <2> QED
    BY <1>3, <1>4, <2>2, <2>4, StartStays DEF StartsLog
<1> QED
  BY <1>5, <1>6

LEMMA InitQuery ==
  ASSUME Len(Initial) <= MaxRows
  PROVE  Init => QueryInv
<1> SUFFICES ASSUME Init PROVE QueryInv
  OBVIOUS
<1>1. /\ Len(states) = 1 /\ current = 1 /\ states[1].main = MainColumn(Initial)
      /\ states[1].base = Len(Initial) /\ deltas[states[1].active].rows = << >>
  BY DEF Init
<1>2. MainInv
  <2>1. Encodable(MainColumn(Initial))
    BY InitialAssumption, MainEncodable
  <2>2. \A m \in Mergers : mpc[m] \notin BuiltSteps
    BY DEF Init, BuiltSteps
  <2> QED
    BY <1>1, <2>1, <2>2 DEF MainInv
<1>3. SizeInv
  <2>1. Appending = {}
    BY DEF Init, Appending
  <2>2. LogicalLen = Len(Initial) + 0
    BY <1>1 DEF LogicalLen, LogicalSize, ActiveRows
  <2>3. Len(Initial) \in Nat
    BY InitialAssumption, LenProperties
  <2> QED
    BY <2>1, <2>2, <2>3, FS_EmptySet, BoundsAssumption DEF SizeInv
<1>4. GrownInv
  BY <1>1 DEF GrownInv
<1> QED
  BY <1>2, <1>3, <1>4 DEF QueryInv

\* What queries rely on holds for any number of threads, rows and merges.
THEOREM QueryInvariant ==
  ASSUME IsFiniteSet(Writers), Len(Initial) <= MaxRows
  PROVE  Spec => []QueryInv
<1>1. Init => QueryInv
  BY InitQuery
<1>2. IInv /\ QueryInv /\ [Next]_vars => QueryInv'
  <2> SUFFICES ASSUME IInv, QueryInv, [Next]_vars PROVE QueryInv'
    OBVIOUS
  <2>1. Inv /\ TypeInv /\ LockInv /\ CoreInv
    BY DEF IInv, Inv, CoreInv
  <2> QED
    BY <2>1, NextKeepsMains, NextKeepsSize, NextKeepsGrown DEF QueryInv
<1> QED
  BY <1>1, <1>2, InductiveInvariant, PTL DEF Spec

-----------------------------------------------------------------------------
(* Queries: the theorems *)

\* The log, and so every state's rows and main, stays within the bound.
LEMMA LogBounded ==
  ASSUME IsFiniteSet(Writers), Inv, SizeInv
  PROVE  LogicalLen <= MaxRows /\ Len(LogNow) <= MaxRows
<1>1. IsFiniteSet(Appending) /\ LogicalLen \in Nat /\ Len(LogNow) = LogicalLen
  BY FS_Subset, LogType DEF Appending
<1>2. Cardinality(Appending) \in Nat /\ MaxRows \in Nat
  BY <1>1, FS_CardinalityType, BoundsAssumption
<1> QED
  BY <1>1, <1>2 DEF SizeInv

LEMMA StateStartsLog ==
  ASSUME Inv, GrownInv, NEW i \in 1..Len(states)
  PROVE  StartsLog(RowsOf(i))
<1>1. CASE states[i].active = states[current].active
  <2>1. RowsOf(i) = LogNow /\ Len(LogNow) \in Nat
    BY <1>1, SharedView, LogType DEF RowsOf
  <2> QED
    BY <2>1 DEF StartsLog
<1> QED
  BY <1>1 DEF GrownInv

\* The ids of a dictionary are enough for every main there ever is.
LEMMA MainsFit ==
  ASSUME IsFiniteSet(Writers), MaxRows <= MaxId, Inv, QueryInv, NEW i \in 1..Len(states)
  PROVE  Encodable(states[i].main) /\ Fits(states[i].main)
<1>1. /\ states[i].main \in Seq(Row) /\ Len(states[i].main) \in Nat
      /\ Len(states[i].main) <= states[i].base /\ states[i].base \in Nat
      /\ Len(ActiveRows(i)) \in Nat /\ Len(RowsOf(i)) = states[i].base + Len(ActiveRows(i))
  BY RowsOfType, MainBelowBase
<1>2. Len(RowsOf(i)) <= Len(LogNow) /\ Len(LogNow) <= MaxRows /\ Len(LogNow) \in Nat
  BY StateStartsLog, LogBounded, LogType DEF QueryInv, StartsLog
<1>3. Len(states[i].main) <= MaxId
  BY <1>1, <1>2, BoundsAssumption, IdAssumption
<1>4. Encodable(states[i].main)
  BY DEF QueryInv, MainInv
<1> QED
  BY <1>1, <1>3, <1>4, ShortFits

\* What a reader queries, and what the column would answer now.
LEMMA ViewFacts ==
  ASSUME IsFiniteSet(Writers), MaxRows <= MaxId, Inv, QueryInv, NEW r \in Readers,
         rpc[r] = "view", NEW op \in Ops, NEW target \in Values
  PROVE  /\ ViewQuery(r, op, target) = QueryOf(ViewRows(r, rlen[r]), op, target)
         /\ QueryNow(op, target) = QueryOf(LogNow, op, target)
         /\ ViewRows(r, rlen[r]) \in Seq(Row) /\ StartsLog(ViewRows(r, rlen[r]))
<1> DEFINE i == rst[r]
           n == rlen[r]
           p == ActiveRows(i)
           now == ActiveRows(current)
<1>1. i \in 1..Len(states) /\ current \in 1..Len(states)
  BY LoadedState DEF Inv
<1>2. n \in Nat /\ n <= Len(p)
  BY DEF Inv, LogInv, PrefixInv, TypeInv, TypeOK, ReaderType
<1>3. /\ \A k \in 1..Len(states) :
           /\ states[k] \in GenerationState /\ Covers(states[k]) /\ states[k].base \in Nat
           /\ ActiveRows(k) \in Seq(Row) /\ Len(ActiveRows(k)) \in Nat
           /\ Encodable(states[k].main) /\ Fits(states[k].main)
  BY RowsOfType, MainsFit
<1>4. GenerationQuery(states[i], SubSeq(p, 1, n), op, target)
        = QueryOf(LogicalRows(states[i], p, n), op, target)
  BY <1>1, <1>2, <1>3, StateAnswers
<1>5. GenerationQuery(states[current], now, op, target)
        = QueryOf(LogicalRows(states[current], now, Len(now)), op, target)
  <2>1. now \in Seq(Row) /\ Len(now) \in Nat /\ Len(now) <= Len(now)
    BY <1>1, <1>3
  <2>2. SubSeq(now, 1, Len(now)) = now
    BY <2>1, SubSeqFull
  <2>3. GenerationQuery(states[current], SubSeq(now, 1, Len(now)), op, target)
          = QueryOf(LogicalRows(states[current], now, Len(now)), op, target)
    BY <1>1, <1>3, <2>1, StateAnswers
  <2> QED
    BY <2>2, <2>3
<1>6. /\ LogicalRows(states[i], p, n) \in Seq(Row)
      /\ Len(LogicalRows(states[i], p, n)) = states[i].base + n
  BY <1>1, <1>2, <1>3, ViewType
<1>7. StartsLog(LogicalRows(states[i], p, n))
  <2>1. StartsLog(RowsOf(i)) /\ Len(RowsOf(i)) = states[i].base + Len(p)
    BY <1>1, RowsOfType, StateStartsLog DEF QueryInv
  <2>2. /\ RowsOf(i) = [k \in 1..(states[i].base + Len(p)) |->
                          Canonical(RowAt(states[i], p, k - 1))]
        /\ LogicalRows(states[i], p, n) = [k \in 1..(states[i].base + n) |->
                                             Canonical(RowAt(states[i], p, k - 1))]
    BY DEF RowsOf, LogicalRows, LogicalSize
  <2> DEFINE base == states[i].base
             m == Len(p)
  <2>3. base \in Nat /\ m \in Nat /\ n \in Nat /\ n <= m /\ Len(LogNow) \in Nat
    BY <1>1, <1>2, <1>3, LogType
  <2> HIDE DEF base, m, p
  <2>4. \A k \in 1..(base + n) : k \in 1..(base + m)
    BY <2>3
  <2>5. base + n <= base + m
    BY <2>3
  <2>6. \A k \in 1..(base + n) : LogicalRows(states[i], p, n)[k] = RowsOf(i)[k]
    BY <2>2, <2>4 DEF base, m
  <2> QED
    BY <1>6, <2>1, <2>3, <2>4, <2>5, <2>6 DEF StartsLog, base, m
<1> QED
  BY <1>4, <1>5, <1>6, <1>7 DEF ViewQuery, QueryNow, ViewRows, LogNow

\* A query over a view, whatever merge it was acquired in the middle of, returns what a
\* scan of the rows of the view returns.
THEOREM ViewQueriesAreScans ==
  ASSUME IsFiniteSet(Writers), Len(Initial) <= MaxRows, MaxRows <= MaxId
  PROVE  Spec => []ViewQueriesMatch
<1>1. IInv /\ QueryInv => ViewQueriesMatch
  BY ViewFacts DEF ViewQueriesMatch, IInv, Inv, CoreInv
<1> QED
  BY <1>1, InductiveInvariant, QueryInvariant, PTL

\* The answer over a view starts the answer of the column, however many rows were appended
\* and however many mains were rebuilt since the view was acquired.
THEOREM AnswersOnlyGrow ==
  ASSUME IsFiniteSet(Writers), Len(Initial) <= MaxRows, MaxRows <= MaxId
  PROVE  Spec => []ViewAnswersGrow
<1>1. IInv /\ QueryInv => ViewAnswersGrow
  <2> SUFFICES ASSUME Inv, QueryInv, NEW r \in Readers, rpc[r] = "view",
                      NEW op \in Ops, NEW target \in Values,
                      ViewQuery(r, op, target) # Thrown
               PROVE  LET before == ViewQuery(r, op, target)
                          now == QueryNow(op, target)
                      IN  /\ Len(before) <= Len(now)
                          /\ \A k \in DOMAIN before : now[k] = before[k]
    BY DEF ViewAnswersGrow, IInv, Inv, CoreInv
  <2> DEFINE rows == ViewRows(r, rlen[r])
  <2>1. /\ ViewQuery(r, op, target) = QueryOf(rows, op, target)
        /\ QueryNow(op, target) = QueryOf(LogNow, op, target)
        /\ rows \in Seq(Row) /\ StartsLog(rows) /\ LogNow \in Seq(Row)
    BY ViewFacts, LogType
  <2> HIDE DEF rows
  <2>2. Len(rows) <= Len(LogNow) /\ \A k \in 1..Len(rows) : LogNow[k] = rows[k]
    BY <2>1 DEF StartsLog
  <2> QED
    BY <2>1, <2>2, AnswersGrow
<1> QED
  BY <1>1, InductiveInvariant, QueryInvariant, PTL

\* The main that build_main encodes decodes to the rows it was built from, -0.0 as +0.0,
\* in every merge of every run: what GenerationalColumn takes MainColumn to do.
THEOREM MainsDecode ==
  ASSUME IsFiniteSet(Writers), Len(Initial) <= MaxRows, MaxRows <= MaxId
  PROVE  Spec => []BuiltMainDecodes
<1>1. IInv /\ QueryInv => BuiltMainDecodes
  <2> SUFFICES ASSUME Inv, QueryInv, NEW m \in Mergers, mpc[m] \in BuiltSteps
               PROVE  LET encoded == BuildEncoded(RawRows(m))
                      IN  job[m].built = [k \in 1..ColumnSize(encoded) |->
                                            DecodedRow(encoded, k - 1)]
    BY DEF BuiltMainDecodes, BuiltSteps, IInv, Inv, CoreInv
  <2> DEFINE rows == RawRows(m)
             encoded == BuildEncoded(rows)
  <2>1. mpc[m] \in ClosedSteps /\ mpc[m] \in HandedOff
    BY DEF BuiltSteps, ClosedSteps, FreshSteps, HandedOff
  <2>2. rows \in Seq(Row) /\ Encodable(rows) /\ Len(rows) = job[m].base /\ Len(rows) \in Nat
    BY <2>1, RawRowsType, HandoffCovers, LenProperties DEF QueryInv, MainInv, Inv
  <2>3. job[m].built = MainColumn(rows) /\ states[current].base = job[m].base
    <3>1. MergeKnows(m)
      BY DEF Inv, CoreInv, MergeInv
    <3>2. states[current] = HandoffState(m, job[m].fresh)
      BY <2>1, <3>1 DEF MergeKnows
    <3>3. job[m].built = MainColumn(RawRows(m))
      BY <3>1 DEF MergeKnows, BuiltSteps
    <3> QED
      BY <3>2, <3>3 DEF HandoffState
  <2>4. Len(rows) <= MaxId
    <3>1. /\ LogicalLen = states[current].base + Len(ActiveRows(current))
          /\ Len(ActiveRows(current)) \in Nat /\ states[current].base \in Nat
      BY CurrentState DEF Inv, CoreInv, ActiveRows
    <3>2. LogicalLen <= MaxRows
      BY LogBounded DEF QueryInv
    <3> QED
      BY <2>2, <2>3, <3>1, <3>2, BoundsAssumption, IdAssumption
  <2>5. Fits(rows)
    BY <2>2, <2>4, ShortFits
  <2>6. /\ ColumnSize(encoded) = Len(rows)
        /\ \A i \in 0..(Len(rows) - 1) :
             /\ ColumnIsNull(encoded, i) <=> rows[i + 1] = Null
             /\ rows[i + 1] # Null =>
                  encoded.dictionary[encoded.codes[i + 1] + 1] = Canonical(rows[i + 1])
    BY <2>2, <2>5, EncodedRows
  <2>7. MainColumn(rows) = [k \in 1..Len(rows) |-> Canonical(rows[k])]
    BY <2>2, LenProperties DEF MainColumn
  <2> HIDE DEF rows, encoded
  <2>8. ASSUME NEW k \in 1..Len(rows) PROVE DecodedRow(encoded, k - 1) = Canonical(rows[k])
    <3>1. k - 1 \in 0..(Len(rows) - 1) /\ k - 1 + 1 = k
      BY <2>2
    <3>2. /\ ColumnIsNull(encoded, k - 1) <=> rows[k] = Null
          /\ rows[k] # Null => ColumnValue(encoded, k - 1) = Canonical(rows[k])
      BY <2>6, <3>1 DEF ColumnValue
    <3>3. Canonical(Null) = Null
      BY ValuesAssumption DEF Canonical
    <3> QED
      BY <3>2, <3>3 DEF DecodedRow
  <2> QED
    BY <2>3, <2>6, <2>7, <2>8 DEF rows, encoded
<1> QED
  BY <1>1, InductiveInvariant, QueryInvariant, PTL
=============================================================================
