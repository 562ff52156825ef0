------------------------- MODULE DeltaMemoryProofs --------------------------
(***************************************************************************)
(* Proofs about DeltaMemory, for any threads, rows and chunk sizes: under  *)
(* the memory orders of the code a prefix shows whole rows, writers are in *)
(* step, and no thread loses a row it knows of.                            *)
(***************************************************************************)
EXTENDS DeltaMemory, DeltaChunksProofs, FiniteSetTheorems, SequenceTheorems

-----------------------------------------------------------------------------
(* The inductive invariant *)

View == [Location -> Nat]
Val == Nat \cup BOOLEAN \cup Values \cup {Placeholder} \cup SUBSET Bits
Msg == [val : Val, view : View]

Late == {"slot", "valued", "written"}
Indexed == {"indexed"} \cup Late
Open == {"open"} \cup Indexed
Appending == {"entered"} \cup Open

TypeOK ==
  /\ mem \in [Location -> Seq(Msg)] /\ seen \in [Threads -> View]
  /\ chunkCount \in Nat /\ chunksSeen \in View
  /\ callerLock \in Threads \cup {NoThread} /\ callerSeen \in View
  /\ wpc \in [Writers -> {"idle"} \cup Appending]
  /\ wrow \in [Writers -> Row \cup {None}] /\ windex \in [Writers -> Nat]
  /\ spc \in [Snapshotters -> {"idle", "freezing", "calling", "sized", "prefix"}]
  /\ ssize \in [Snapshotters -> Nat] /\ known \in [Snapshotters -> Nat]
  /\ rows \in Seq(Row) /\ answered \in [Writers -> Nat]
  /\ \A w \in Writers : wpc[w] # "idle" => wrow[w] \in Row

\* Who is in the caller's mutex.
CallerInv ==
  /\ \A w \in Writers : callerLock = w <=> wpc[w] # "idle"
  /\ \A t \in Closers : callerLock = t <=> spc[t] \in {"freezing", "calling", "sized"}
  /\ \A t \in Readers : callerLock # t /\ spc[t] # "freezing"

\* How far the append under way is.
HasSlot == \E w \in Writers : wpc[w] \in Late
HasValue == \E w \in Writers : wpc[w] \in {"valued", "written"}
HasBit == \E w \in Writers : wpc[w] = "written"

CountWith(underWay) == Len(rows) + (IF underWay THEN 1 ELSE 0)

\* There are the chunks that the rows need, and what is in them is known to who enters.
ChunkInv ==
  /\ Len(rows) <= MaxRows
  /\ chunkCount = NeededChunks(CountWith(HasSlot)) /\ chunkCount <= NeededChunks(MaxRows)
  /\ \A c \in 1..chunkCount, l \in Location : l \in ChunkLocations(c) => chunksSeen[l] >= 1
  /\ \A c \in Nat, l \in Location : c > chunkCount /\ l \in ChunkLocations(c) => mem[l] = << >>

\* A slot is written once after its chunk was filled, and the bits of a word in order.
SlotInv ==
  \A o \in Nat : ChunkOf(o) <= chunkCount =>
    Newest(Slot(o)) = IF o < CountWith(HasValue) THEN 2 ELSE 1

WordInv ==
  /\ \A o \in Nat : ChunkOf(o) <= chunkCount =>
       /\ Newest(Word(o)) >= 1
       /\ o < CountWith(HasBit) => Newest(Word(o)) >= BitOf(o) + 2
       /\ o >= CountWith(HasBit) => Newest(Word(o)) <= BitOf(o) + 1
       /\ \A i \in 1..Newest(Word(o)) : mem[Word(o)][i].val \in SUBSET Bits

\* The value of a row, and its bit in every message from the one that wrote it.
SlotHolds(o, row) == mem[Slot(o)][2].val = IF row = Null THEN Placeholder ELSE row
WordHolds(o, row) ==
  \A i \in (BitOf(o) + 2)..Newest(Word(o)) : BitOf(o) \in mem[Word(o)][i].val <=> row # Null

RowsInv == \A o \in 0..(Len(rows) - 1) : SlotHolds(o, rows[o + 1]) /\ WordHolds(o, rows[o + 1])

\* Who has a view of n rows has seen the writes of each.
Covers(view, n) ==
  \A o \in 0..(n - 1) : view[Slot(o)] >= 2 /\ view[Word(o)] >= BitOf(o) + 2

SizeInv ==
  /\ Newest(visible_size) = Len(rows) + 1
  /\ \A i \in 1..Newest(visible_size) :
       mem[visible_size][i].val = i - 1 /\ Covers(mem[visible_size][i].view, i - 1)

ClosedInv ==
  /\ Newest(closed) >= 1
  /\ \A i \in 1..Newest(closed) : mem[closed][i].val = IF i = 1 THEN FALSE ELSE TRUE

\* Nobody has seen what was not written.
Within(view) == \A l \in Location : view[l] <= Newest(l)

BoundedInv ==
  /\ Within(chunksSeen) /\ Within(callerSeen) /\ \A t \in Threads : Within(seen[t])
  /\ \A l \in Location : \A i \in 1..Newest(l) : Within(mem[l][i].view)

\* Who is in the caller's mutex has seen everything of the threads before.
Current(view) ==
  /\ \A l \in Atomics : Newest(l) > 1 => view[l] >= Newest(l)
  /\ Covers(view, Len(rows))

CurrentInv ==
  /\ callerLock = NoThread => Current(callerSeen)
  /\ \A t \in Threads : /\ callerLock = t => Current(seen[t])
                        /\ \A l \in Atomics : seen[t][l] >= 1

WriterFine(w) ==
  /\ answered[w] + 1 <= seen[w][visible_size]
  /\ wpc[w] # "idle" => Len(rows) < MaxRows
  /\ wpc[w] \in Open => Newest(closed) = 1
  /\ wpc[w] \in Indexed => windex[w] = Len(rows)
  /\ wpc[w] \in Late => seen[w][Slot(windex[w])] >= Newest(Slot(windex[w]))
  /\ wpc[w] \in {"valued", "written"} => SlotHolds(windex[w], wrow[w])
  /\ wpc[w] = "written" => /\ seen[w][Word(windex[w])] >= BitOf(windex[w]) + 2
                           /\ WordHolds(windex[w], wrow[w])

WriterInv == \A w \in Writers : WriterFine(w)

\* A thread's prefix ends at or after the rows it knows of; freeze's is the last.
SnapFine(t) ==
  /\ known[t] + 1 <= seen[t][visible_size]
  /\ spc[t] \in {"sized", "prefix"} =>
       /\ ssize[t] <= Len(rows) /\ ssize[t] + 1 <= seen[t][visible_size]
       /\ known[t] <= ssize[t] /\ Covers(seen[t], ssize[t])
  /\ spc[t] \notin {"sized", "prefix"} => ssize[t] = 0
  /\ t \in Closers /\ spc[t] \in {"calling", "sized", "prefix"} => Newest(closed) >= 2
  /\ t \in Closers /\ spc[t] \in {"sized", "prefix"} => ssize[t] = Len(rows)

SnapInv == \A t \in Snapshotters : SnapFine(t)

MemoryInv == ChunkInv /\ SlotInv /\ WordInv /\ RowsInv /\ SizeInv

IInv ==
  /\ TypeOK /\ CallerInv /\ MemoryInv /\ ClosedInv /\ BoundedInv /\ CurrentInv
  /\ WriterInv /\ SnapInv

-----------------------------------------------------------------------------
(* Places *)

\* The rows of a word have its bits in their order,
LEMMA WordOrder ==
  ASSUME NEW o \in Nat, NEW p \in Nat, o < p,
         ChunkOf(o) = ChunkOf(p), WordOf(o) = WordOf(p)
  PROVE  BitOf(o) < BitOf(p)
<1>1. /\ ChunkCapacity \in Nat \ {0} /\ WordBits \in Nat \ {0}
  BY GeometryAssumption
<1>2. PICK c \in Nat, l \in 0..(ChunkCapacity - 1) :
        o \div ChunkCapacity = c /\ o % ChunkCapacity = l /\ o = ChunkCapacity * c + l
  BY <1>1, Division
<1>3. PICK d \in Nat, m \in 0..(ChunkCapacity - 1) :
        p \div ChunkCapacity = d /\ p % ChunkCapacity = m /\ p = ChunkCapacity * d + m
  BY <1>1, Division
<1>4. c = d
  BY <1>2, <1>3 DEF ChunkOf
<1>5. l < m /\ l \in Nat /\ m \in Nat
  <2>1. ChunkCapacity * c \in Nat /\ p = ChunkCapacity * c + m
    BY <1>1, <1>3, <1>4
  <2> QED
    BY <1>1, <1>2, <2>1
<1>6. PICK k \in Nat, b \in 0..(WordBits - 1) :
        l \div WordBits = k /\ l % WordBits = b /\ l = WordBits * k + b
  BY <1>1, <1>5, Division
<1>7. PICK j \in Nat, a \in 0..(WordBits - 1) :
        m \div WordBits = j /\ m % WordBits = a /\ m = WordBits * j + a
  BY <1>1, <1>5, Division
<1>8. k = j
  BY <1>2, <1>3, <1>6, <1>7 DEF WordOf, Local
<1>9. WordBits * k \in Nat /\ m = WordBits * k + a
  BY <1>1, <1>7, <1>8
<1> QED
  BY <1>1, <1>2, <1>3, <1>5, <1>6, <1>7, <1>9 DEF BitOf, Local

\* and without gaps.
LEMMA WordPrevious ==
  ASSUME NEW o \in Nat, BitOf(o) > 0
  PROVE  /\ o > 0 /\ ChunkOf(o - 1) = ChunkOf(o) /\ WordOf(o - 1) = WordOf(o)
         /\ BitOf(o - 1) = BitOf(o) - 1
<1>1. ChunkCapacity \in Nat \ {0} /\ WordBits \in Nat \ {0}
  BY GeometryAssumption
<1>2. PICK c \in Nat, l \in 0..(ChunkCapacity - 1) :
        o \div ChunkCapacity = c /\ o % ChunkCapacity = l /\ o = ChunkCapacity * c + l
  BY <1>1, Division
<1>3. l \in Nat
  BY <1>1
<1>4. PICK k \in Nat, b \in 0..(WordBits - 1) :
        l \div WordBits = k /\ l % WordBits = b /\ l = WordBits * k + b
  BY <1>1, <1>3, Division
<1>5. BitOf(o) = b /\ b - 1 \in 0..(WordBits - 1)
  BY <1>1, <1>2, <1>4 DEF BitOf, Local
<1>6. WordBits * k \in Nat /\ ChunkCapacity * c \in Nat
  BY <1>1
<1>7. l - 1 = WordBits * k + (b - 1) /\ l > 0
  BY <1>1, <1>3, <1>4, <1>5, <1>6
<1>8. (l - 1) \div WordBits = k /\ (l - 1) % WordBits = b - 1
  <2>1. PICK e \in 0..(WordBits - 1) : e = b - 1
    BY <1>5
  <2>2. (WordBits * k + e) \div WordBits = k /\ (WordBits * k + e) % WordBits = e
    BY <1>1, DivisionUnique
  <2> QED
    BY <1>7, <2>1, <2>2
<1>9. l - 1 \in 0..(ChunkCapacity - 1) /\ o - 1 = ChunkCapacity * c + (l - 1) /\ o > 0
  BY <1>1, <1>2, <1>6, <1>7
<1>10. (o - 1) \div ChunkCapacity = c /\ (o - 1) % ChunkCapacity = l - 1
  <2>1. PICK e \in 0..(ChunkCapacity - 1) : e = l - 1
    BY <1>9
  <2>2. /\ (ChunkCapacity * c + e) \div ChunkCapacity = c
        /\ (ChunkCapacity * c + e) % ChunkCapacity = e
    BY <1>1, DivisionUnique
  <2> QED
    BY <1>9, <2>1, <2>2
<1> QED
  BY <1>2, <1>4, <1>5, <1>8, <1>9, <1>10 DEF ChunkOf, WordOf, BitOf, Local

\* Locations are what they are called.
LEMMA LocationsApart ==
  /\ visible_size # closed
  /\ \A c, d, i, j : /\ <<"value", c, i>> # visible_size /\ <<"value", c, i>> # closed
                     /\ <<"validity", c, i>> # visible_size /\ <<"validity", c, i>> # closed
                     /\ <<"value", c, i>> # <<"validity", d, j>>
                     /\ <<"value", c, i>> = <<"value", d, j>> => c = d /\ i = j
                     /\ <<"validity", c, i>> = <<"validity", d, j>> => c = d /\ i = j
<1>1. visible_size[1] = "visible_size_" /\ closed[1] = "closed_"
  BY DEF visible_size, closed
<1>2. \A c, i : <<"value", c, i>>[1] = "value" /\ <<"validity", c, i>>[1] = "validity"
  OBVIOUS
<1>3. \A c, d, i, j : /\ <<"value", c, i>> = <<"value", d, j>> => c = d /\ i = j
                      /\ <<"validity", c, i>> = <<"validity", d, j>> => c = d /\ i = j
  OBVIOUS
<1>4. visible_size # closed
  BY <1>1
<1>5. \A c, i : /\ <<"value", c, i>> # visible_size /\ <<"value", c, i>> # closed
                /\ <<"validity", c, i>> # visible_size /\ <<"validity", c, i>> # closed
  BY <1>1, <1>2
<1>6. \A c, d, i, j : <<"value", c, i>> # <<"validity", d, j>>
  BY <1>2
<1> QED
  BY <1>3, <1>4, <1>5, <1>6

\* Two rows never share a slot; what shares a word has the same chunk.
LEMMA PlacesApart ==
  ASSUME NEW o \in Nat, NEW p \in Nat
  PROVE  /\ Slot(o) = Slot(p) => o = p
         /\ Slot(o) # Word(p)
         /\ Word(o) = Word(p) => ChunkOf(o) = ChunkOf(p) /\ WordOf(o) = WordOf(p)
         /\ Slot(o) \notin Atomics /\ Word(o) \notin Atomics
<1>1. Slot(o) = Slot(p) => ChunkOf(o) = ChunkOf(p) /\ Local(o) = Local(p)
  BY LocationsApart DEF Slot
<1>2. Slot(o) = Slot(p) => o = p
  BY <1>1, RowsApart
<1> QED
  BY <1>2, LocationsApart DEF Slot, Word, Atomics

LEMMA PlacesExist ==
  ASSUME NEW o \in Nat, ChunkOf(o) <= NeededChunks(MaxRows)
  PROVE  Slot(o) \in Location /\ Word(o) \in Location
<1>1. ChunkOf(o) \in 1..NeededChunks(MaxRows) /\ Local(o) \in Slots /\ WordOf(o) \in Words
  BY Placement, ThreadsAssumption, ChunksNeeded
<1>2. Slot(o) \in ChunkLocations(ChunkOf(o)) /\ Word(o) \in ChunkLocations(ChunkOf(o))
  BY <1>1 DEF Slot, Word, ChunkLocations
<1> QED
  BY <1>1, <1>2 DEF Location

LEMMA PlacesInChunk ==
  ASSUME NEW o \in Nat, NEW c \in Nat
  PROVE  /\ Slot(o) \in ChunkLocations(c) <=> ChunkOf(o) = c
         /\ Word(o) \in ChunkLocations(c) <=> ChunkOf(o) = c
         /\ \A l \in ChunkLocations(c) : l \notin Atomics
<1>1. Local(o) \in Slots /\ WordOf(o) \in Words
  BY Placement
<1>2. Slot(o) \in ChunkLocations(c) <=> ChunkOf(o) = c
  BY <1>1, LocationsApart DEF Slot, ChunkLocations
<1>3. Word(o) \in ChunkLocations(c) <=> ChunkOf(o) = c
  BY <1>1, LocationsApart DEF Word, ChunkLocations
<1>4. \A l \in ChunkLocations(c) : l \notin Atomics
  BY LocationsApart DEF ChunkLocations, Atomics
<1> QED
  BY <1>2, <1>3, <1>4

\* The rows that the bound admits have places.
LEMMA RowsHavePlaces ==
  ASSUME NEW o \in Nat, o < MaxRows
  PROVE  /\ ChunkOf(o) <= NeededChunks(MaxRows) /\ ChunkOf(o) \in Nat
         /\ Slot(o) \in Location /\ Word(o) \in Location
<1>1. MaxRows \in Nat
  BY ThreadsAssumption
<1>2. o \in 0..(MaxRows - 1)
  BY <1>1
<1>3. ChunkOf(o) <= NeededChunks(MaxRows)
  BY <1>1, <1>2, ChunksNeeded
<1> QED
  BY <1>3, PlacesExist, Placement

-----------------------------------------------------------------------------
(* Views *)

LEMMA JoinFacts ==
  ASSUME NEW u \in View, NEW v \in View
  PROVE  /\ Join(u, v) \in View
         /\ \A l \in Location : /\ u[l] <= Join(u, v)[l] /\ v[l] <= Join(u, v)[l]
                                /\ Join(u, v)[l] = u[l] \/ Join(u, v)[l] = v[l]
BY DEF Join, View

LEMMA JoinWithin ==
  ASSUME NEW u \in View, NEW v \in View, Within(u), Within(v)
  PROVE  Within(Join(u, v))
BY JoinFacts DEF Within

LEMMA CoversGrows ==
  ASSUME NEW u \in View, NEW v \in View, NEW n \in Nat, n <= MaxRows, Covers(u, n),
         \A l \in Location : u[l] <= v[l]
  PROVE  Covers(v, n)
<1> SUFFICES ASSUME NEW o \in 0..(n - 1)
             PROVE  v[Slot(o)] >= 2 /\ v[Word(o)] >= BitOf(o) + 2
  BY DEF Covers
<1>1. o \in Nat /\ o < MaxRows
  BY ThreadsAssumption
<1>2. Slot(o) \in Location /\ Word(o) \in Location /\ BitOf(o) \in Nat
  BY <1>1, RowsHavePlaces, Placement, GeometryAssumption DEF Bits
<1>3. u[Slot(o)] >= 2 /\ u[Word(o)] >= BitOf(o) + 2
  BY DEF Covers
<1>4. /\ u[Slot(o)] \in Nat /\ v[Slot(o)] \in Nat /\ u[Word(o)] \in Nat /\ v[Word(o)] \in Nat
      /\ u[Slot(o)] <= v[Slot(o)] /\ u[Word(o)] <= v[Word(o)]
  BY <1>2 DEF View
<1> QED
  BY <1>2, <1>3, <1>4

LEMMA AtomicLocations ==
  visible_size \in Location /\ closed \in Location /\ Atomics \subseteq Location
BY DEF Location, Atomics

LEMMA MemoryTyped ==
  ASSUME TypeOK, NEW l \in Location
  PROVE  /\ mem[l] \in Seq(Msg) /\ Newest(l) \in Nat
         /\ \A i \in 1..Newest(l) : mem[l][i] \in Msg /\ mem[l][i].view \in View
                                   /\ mem[l][i].val \in Val
<1>1. mem[l] \in Seq(Msg)
  BY DEF TypeOK
<1>2. Newest(l) \in Nat /\ \A i \in 1..Newest(l) : mem[l][i] \in Msg
  BY <1>1, LenProperties, ElementOfSeq DEF Newest
<1>3. \A i \in 1..Newest(l) : mem[l][i].view \in View /\ mem[l][i].val \in Val
  BY <1>2 DEF Msg
<1> QED
  BY <1>1, <1>2, <1>3

\* A thread only sees more.
LEMMA SeenStep ==
  ASSUME TypeOK, BoundedInv, NEW t \in Threads, NEW view \in View, Within(view),
         \A l \in Location : seen[t][l] <= view[l],
         seen' = [seen EXCEPT ![t] = view]
  PROVE  /\ seen' \in [Threads -> View] /\ seen'[t] = view
         /\ \A x \in Threads : x # t => seen'[x] = seen[x]
         /\ \A x \in Threads : Within(seen'[x])
         /\ \A x \in Threads, l \in Location : seen[x][l] <= seen'[x][l]
<1>1. seen \in [Threads -> View]
  BY DEF TypeOK
<1>2. /\ seen' \in [Threads -> View] /\ seen'[t] = view
      /\ \A x \in Threads : x # t => seen'[x] = seen[x]
  BY <1>1
<1>3. ASSUME NEW x \in Threads PROVE Within(seen'[x])
  BY <1>2 DEF BoundedInv
<1>4. ASSUME NEW x \in Threads, NEW l \in Location PROVE seen[x][l] <= seen'[x][l]
  <2>1. seen[x][l] \in Nat
    BY <1>1 DEF View
  <2> QED
    BY <1>2, <2>1
<1> QED
  BY <1>2, <1>3, <1>4

LEMMA JoinStep ==
  ASSUME TypeOK, BoundedInv, NEW t \in Threads, NEW view \in View, Within(view),
         seen' = [seen EXCEPT ![t] = Join(seen[t], view)]
  PROVE  /\ seen' \in [Threads -> View] /\ seen'[t] = Join(seen[t], view)
         /\ \A x \in Threads : x # t => seen'[x] = seen[x]
         /\ \A x \in Threads : Within(seen'[x])
         /\ \A x \in Threads, l \in Location : seen[x][l] <= seen'[x][l]
         /\ \A l \in Location : view[l] <= seen'[t][l]
<1> DEFINE new == Join(seen[t], view)
<1>1. seen[t] \in View /\ Within(seen[t])
  BY DEF TypeOK, BoundedInv
<1>2. /\ new \in View /\ Within(new)
      /\ \A l \in Location : seen[t][l] <= new[l] /\ view[l] <= new[l]
  BY <1>1, JoinFacts, JoinWithin
<1>3. seen' = [seen EXCEPT ![t] = new]
  OBVIOUS
<1> HIDE DEF new
<1>4. /\ seen' \in [Threads -> View] /\ seen'[t] = new
      /\ \A x \in Threads : x # t => seen'[x] = seen[x]
      /\ \A x \in Threads : Within(seen'[x])
      /\ \A x \in Threads, l \in Location : seen[x][l] <= seen'[x][l]
  BY <1>2, <1>3, SeenStep
<1> QED
  BY <1>2, <1>4 DEF new

\* What a load may return, and what it adds.
LEMMA LoadFacts ==
  ASSUME TypeOK, BoundedInv, CurrentInv, NEW t \in Threads, NEW l \in Atomics,
         NEW i \in Visible(t, l)
  PROVE  /\ i \in 1..Newest(l) /\ seen[t][l] <= i
         /\ Relaxed(t, l, i) \in View /\ Within(Relaxed(t, l, i))
         /\ Acquired(t, l, i) \in View /\ Within(Acquired(t, l, i))
         /\ \A k \in Location : /\ seen[t][k] <= Relaxed(t, l, i)[k]
                                /\ seen[t][k] <= Acquired(t, l, i)[k]
                                /\ mem[l][i].view[k] <= Acquired(t, l, i)[k]
         /\ Relaxed(t, l, i)[l] = i /\ Acquired(t, l, i)[l] >= i
<1> DEFINE r == Relaxed(t, l, i)
           v == mem[l][i].view
<1>1. l \in Location /\ seen[t] \in View /\ Within(seen[t]) /\ seen[t][l] >= 1
  BY AtomicLocations DEF TypeOK, BoundedInv, CurrentInv
<1>2. Newest(l) \in Nat /\ seen[t][l] \in Nat
  BY <1>1, MemoryTyped DEF View
<1>3. i \in 1..Newest(l) /\ seen[t][l] <= i /\ i \in Nat
  BY <1>1, <1>2 DEF Visible
<1>4. r = [seen[t] EXCEPT ![l] = i]
  BY DEF Relaxed
<1>5. v \in View /\ Within(v)
  BY <1>1, <1>3, MemoryTyped DEF BoundedInv
<1>6. Acquired(t, l, i) = Join(r, v)
  BY DEF Acquired
<1> HIDE DEF r, v
<1>7. r \in View /\ r[l] = i /\ \A k \in Location : k # l => r[k] = seen[t][k]
  BY <1>1, <1>3, <1>4 DEF View
<1>8. \A k \in Location : seen[t][k] <= r[k]
  <2> SUFFICES ASSUME NEW k \in Location PROVE seen[t][k] <= r[k]
    OBVIOUS
  <2>1. seen[t][k] \in Nat
    BY <1>1 DEF View
  <2> QED
    BY <1>3, <1>7, <2>1
<1>9. Within(r)
  BY <1>1, <1>3, <1>7 DEF Within
<1>10. /\ Join(r, v) \in View /\ Within(Join(r, v))
       /\ \A k \in Location : r[k] <= Join(r, v)[k] /\ v[k] <= Join(r, v)[k]
  BY <1>5, <1>7, <1>9, JoinFacts, JoinWithin
<1>11. \A k \in Location : seen[t][k] <= Join(r, v)[k]
  <2> SUFFICES ASSUME NEW k \in Location PROVE seen[t][k] <= Join(r, v)[k]
    OBVIOUS
  <2>1. seen[t][k] \in Nat /\ r[k] \in Nat /\ Join(r, v)[k] \in Nat
    BY <1>1, <1>7, <1>10 DEF View
  <2> QED
    BY <1>8, <1>10, <2>1
<1>12. Join(r, v)[l] >= i
  BY <1>1, <1>3, <1>7, <1>10 DEF View
<1> QED
  BY <1>3, <1>6, <1>7, <1>8, <1>9, <1>10, <1>11, <1>12 DEF r, v

-----------------------------------------------------------------------------
(* The chunks there are *)

LEMMA RowAllocated ==
  ASSUME TypeOK, ChunkInv, NEW o \in 0..(Len(rows) - 1)
  PROVE  o \in Nat /\ ChunkOf(o) <= chunkCount
<1>1. Len(rows) \in Nat
  BY LenProperties DEF TypeOK
<1>2. CountWith(HasSlot) \in Nat /\ o \in 0..(CountWith(HasSlot) - 1)
  BY <1>1 DEF CountWith
<1> QED
  BY <1>1, <1>2, ChunksNeeded DEF ChunkInv

-----------------------------------------------------------------------------
(* What a step that leaves an invariant alone has to keep *)

\* Threads, and their views, in a step.
SeenGrows == \A t \in Threads, l \in Location : seen[t][l] <= seen'[t][l]

LateUnchanged ==
  \A w \in Writers : wpc[w] \in Late \/ wpc'[w] \in Late =>
    wpc'[w] = wpc[w] /\ wrow'[w] = wrow[w] /\ windex'[w] = windex[w]

\* The caller's mutex passes from thread to thread, and what they have seen with it.
LockStep ==
  \/ UNCHANGED callerVars
  \/ \E t \in Threads : callerLock = t /\ callerLock' = NoThread /\ callerSeen' = seen'[t]
  \/ \E t \in Threads : /\ callerLock = NoThread /\ callerLock' = t /\ callerSeen' = callerSeen
                        /\ \A l \in Location : callerSeen[l] <= seen'[t][l]

LEMMA QuietMemory ==
  ASSUME TypeOK, MemoryInv, UNCHANGED <<rows, chunkCount>>, LateUnchanged,
         mem' \in [Location -> Seq(Msg)], \A l \in Location : l # closed => mem'[l] = mem[l],
         chunksSeen' \in View, \A l \in Location : chunksSeen[l] <= chunksSeen'[l]
  PROVE  MemoryInv'
<1>1. HasSlot' = HasSlot /\ HasValue' = HasValue /\ HasBit' = HasBit
  BY DEF LateUnchanged, HasSlot, HasValue, HasBit, Late
<1>2. /\ CountWith(HasSlot)' = CountWith(HasSlot) /\ CountWith(HasValue)' = CountWith(HasValue)
      /\ CountWith(HasBit)' = CountWith(HasBit)
  BY <1>1 DEF CountWith
<1>3. /\ visible_size \in Location /\ visible_size # closed
      /\ Len(rows) \in Nat /\ Len(rows) <= MaxRows
      /\ chunkCount \in Nat /\ chunkCount <= NeededChunks(MaxRows)
      /\ NeededChunks(MaxRows) \in Nat
  BY LocationsApart, AtomicLocations, LenProperties, ChunksNeeded, ThreadsAssumption
     DEF TypeOK, MemoryInv, ChunkInv
<1>4. ASSUME NEW o \in Nat, ChunkOf(o) <= chunkCount
      PROVE  mem'[Slot(o)] = mem[Slot(o)] /\ mem'[Word(o)] = mem[Word(o)]
  <2>1. ChunkOf(o) <= NeededChunks(MaxRows)
    BY <1>3, <1>4, Placement
  <2>2. Slot(o) # closed /\ Word(o) # closed
    BY PlacesApart DEF Atomics
  <2> QED
    BY <2>1, <2>2, PlacesExist
<1>5. ChunkInv'
  <2>1. \A c \in 1..chunkCount, l \in Location : l \in ChunkLocations(c) => chunksSeen'[l] >= 1
    <3> SUFFICES ASSUME NEW c \in 1..chunkCount, NEW l \in Location, l \in ChunkLocations(c)
                 PROVE  chunksSeen'[l] >= 1
      OBVIOUS
    <3>1. chunksSeen[l] \in Nat /\ chunksSeen'[l] \in Nat /\ chunksSeen[l] <= chunksSeen'[l]
      BY DEF TypeOK, View
    <3>2. chunksSeen[l] >= 1
      BY DEF MemoryInv, ChunkInv
    <3> QED
      BY <3>1, <3>2
  <2>2. \A c \in Nat, l \in Location :
          c > chunkCount /\ l \in ChunkLocations(c) => mem'[l] = << >>
    <3>1. \A c \in Nat : \A l \in ChunkLocations(c) : l # closed
      BY PlacesInChunk DEF Atomics
    <3> QED
      BY <3>1 DEF MemoryInv, ChunkInv
  <2> QED
    BY <1>2, <1>3, <2>1, <2>2 DEF MemoryInv, ChunkInv
<1>6. SlotInv'
  BY <1>2, <1>4 DEF MemoryInv, SlotInv, Newest
<1>7. WordInv'
  BY <1>2, <1>4 DEF MemoryInv, WordInv, Newest
<1>8. RowsInv'
  <2> SUFFICES ASSUME NEW o \in 0..(Len(rows) - 1)
               PROVE  (SlotHolds(o, rows[o + 1]) /\ WordHolds(o, rows[o + 1]))'
    BY DEF RowsInv
  <2>1. o \in Nat /\ ChunkOf(o) <= chunkCount
    BY <1>3, RowAllocated DEF MemoryInv
  <2> QED
    BY <1>4, <2>1 DEF MemoryInv, RowsInv, SlotHolds, WordHolds, Newest
<1>9. SizeInv'
  BY <1>3 DEF MemoryInv, SizeInv, Newest, Covers
<1> QED
  BY <1>5, <1>6, <1>7, <1>8, <1>9 DEF MemoryInv

LEMMA CurrentGrows ==
  ASSUME TypeOK, ChunkInv, NEW u \in View, NEW v \in View, Current(u),
         \A l \in Location : u[l] <= v[l]
  PROVE  Current(v)
<1>1. Len(rows) \in Nat /\ Len(rows) <= MaxRows
  BY LenProperties DEF TypeOK, ChunkInv
<1>2. Covers(v, Len(rows))
  BY <1>1, CoversGrows DEF Current
<1>3. ASSUME NEW l \in Atomics, Newest(l) > 1 PROVE v[l] >= Newest(l)
  <2>1. l \in Location /\ Newest(l) \in Nat
    BY AtomicLocations, MemoryTyped
  <2>2. u[l] \in Nat /\ v[l] \in Nat /\ u[l] <= v[l] /\ u[l] >= Newest(l)
    BY <1>3, <2>1 DEF View, Current
  <2> QED
    BY <2>1, <2>2
<1> QED
  BY <1>2, <1>3 DEF Current

LEMMA QuietViews ==
  ASSUME TypeOK, TypeOK', MemoryInv, BoundedInv, CurrentInv, UNCHANGED <<mem, rows>>,
         SeenGrows, \A t \in Threads : Within(seen'[t]), Within(chunksSeen'), LockStep
  PROVE  BoundedInv' /\ CurrentInv'
<1>1. /\ seen \in [Threads -> View] /\ seen' \in [Threads -> View]
      /\ callerSeen \in View /\ callerSeen' \in View /\ NoThread \notin Threads
      /\ callerLock \in Threads \cup {NoThread} /\ callerLock' \in Threads \cup {NoThread}
  BY ThreadsAssumption DEF TypeOK, Threads, Snapshotters
<1>2. Within(callerSeen')
  BY <1>1 DEF LockStep, BoundedInv, callerVars
<1>3. BoundedInv'
  BY <1>2 DEF BoundedInv, Within, Newest
<1>4. ASSUME NEW t \in Threads, Current(seen[t]) PROVE Current(seen'[t])
  BY <1>1, <1>4, CurrentGrows DEF SeenGrows, MemoryInv
<1>5. ASSUME NEW t \in Threads, Current(callerSeen),
             \A l \in Location : callerSeen[l] <= seen'[t][l]
      PROVE  Current(seen'[t])
  BY <1>1, <1>5, CurrentGrows DEF MemoryInv
<1>6. callerLock' = NoThread => Current(callerSeen')
  BY <1>1, <1>4 DEF LockStep, CurrentInv, callerVars
<1>7. \A t \in Threads : callerLock' = t => Current(seen'[t])
  BY <1>1, <1>4, <1>5 DEF LockStep, CurrentInv, callerVars
<1>8. \A t \in Threads : \A l \in Atomics : seen'[t][l] >= 1
  <2> SUFFICES ASSUME NEW t \in Threads, NEW l \in Atomics PROVE seen'[t][l] >= 1
    OBVIOUS
  <2>1. l \in Location /\ seen[t][l] \in Nat /\ seen'[t][l] \in Nat /\ seen[t][l] <= seen'[t][l]
    BY <1>1, AtomicLocations DEF SeenGrows, View
  <2>2. seen[t][l] >= 1
    BY DEF CurrentInv
  <2> QED
    BY <2>1, <2>2
<1>9. CurrentInv'
  BY <1>6, <1>7, <1>8 DEF CurrentInv, Current, Newest
<1> QED
  BY <1>3, <1>9

LEMMA WriterFineFrame ==
  ASSUME TypeOK, TypeOK', MemoryInv, SeenGrows, NEW w \in Writers, WriterFine(w),
         wpc'[w] = wpc[w], wrow'[w] = wrow[w], windex'[w] = windex[w],
         answered'[w] = answered[w],
         wpc[w] # "idle" => rows' = rows /\ mem' = mem
  PROVE  WriterFine(w)'
<1>1. w \in Threads /\ visible_size \in Location
  BY AtomicLocations DEF Threads
<1>2. /\ seen[w][visible_size] \in Nat /\ seen'[w][visible_size] \in Nat
      /\ seen[w][visible_size] <= seen'[w][visible_size] /\ answered[w] \in Nat
  BY <1>1 DEF TypeOK, SeenGrows, View
<1>3. answered'[w] + 1 <= seen'[w][visible_size]
  BY <1>2 DEF WriterFine
<1>4. CASE wpc[w] = "idle"
  BY <1>3, <1>4 DEF WriterFine, Open, Indexed, Late
<1>5. CASE wpc[w] # "idle"
  <2>1. wpc[w] \in Late => /\ Slot(windex[w]) \in Location /\ Word(windex[w]) \in Location
                           /\ BitOf(windex[w]) \in Nat
    <3>1. wpc[w] \in Late => windex[w] \in Nat /\ windex[w] < MaxRows
      BY <1>5, LenProperties DEF WriterFine, TypeOK, Indexed
    <3> QED
      BY <3>1, RowsHavePlaces, Placement, GeometryAssumption DEF Bits
  <2>2. \A l \in Location : /\ seen[w][l] \in Nat /\ seen'[w][l] \in Nat /\ Newest(l) \in Nat
                            /\ seen[w][l] <= seen'[w][l]
    BY <1>1, MemoryTyped DEF TypeOK, SeenGrows, View
  <2>3. wpc[w] \in Late => seen'[w][Slot(windex[w])] >= Newest(Slot(windex[w]))
    BY <2>1, <2>2 DEF WriterFine
  <2>4. wpc[w] = "written" => seen'[w][Word(windex[w])] >= BitOf(windex[w]) + 2
    BY <2>1, <2>2 DEF WriterFine, Late
  <2> QED
    BY <1>3, <1>5, <2>3, <2>4 DEF WriterFine, SlotHolds, WordHolds, Newest
<1> QED
  BY <1>4, <1>5

LEMMA SnapFineFrame ==
  ASSUME TypeOK, TypeOK', MemoryInv, SeenGrows, NEW t \in Snapshotters, SnapFine(t),
         spc'[t] = spc[t], ssize'[t] = ssize[t], known'[t] = known[t],
         Len(rows) <= Len(rows'), Newest(closed) <= Len(mem'[closed]),
         t \in Closers /\ spc[t] \in {"sized", "prefix"} => rows' = rows
  PROVE  SnapFine(t)'
<1>1. t \in Threads /\ visible_size \in Location /\ closed \in Location
  BY AtomicLocations DEF Threads
<1>2. /\ seen[t] \in View /\ seen'[t] \in View /\ \A l \in Location : seen[t][l] <= seen'[t][l]
      /\ seen[t][visible_size] \in Nat /\ seen'[t][visible_size] \in Nat
      /\ seen[t][visible_size] <= seen'[t][visible_size]
      /\ known[t] \in Nat /\ ssize[t] \in Nat
  BY <1>1 DEF TypeOK, SeenGrows, View
<1>4. Len(rows) \in Nat /\ Len(rows') \in Nat /\ Len(rows) <= MaxRows /\ MaxRows \in Nat
  BY LenProperties, ThreadsAssumption DEF TypeOK, MemoryInv, ChunkInv
<1>5. Newest(closed) \in Nat /\ Len(mem'[closed]) \in Nat
  BY <1>1, LenProperties DEF TypeOK, Newest
<1>3. spc[t] \in {"sized", "prefix"} => Covers(seen'[t], ssize[t])
  BY <1>2, <1>4, CoversGrows DEF SnapFine
<1> QED
  BY <1>1, <1>2, <1>3, <1>4, <1>5 DEF SnapFine, Newest, Covers

-----------------------------------------------------------------------------
(* The start *)

LEMMA InitInv == Init => IInv
<1> SUFFICES ASSUME Init PROVE IInv
  OBVIOUS
<1>1. Nothing \in View /\ \A l \in Location : Nothing[l] = 0
  BY DEF Nothing, View
<1>2. Message(0, Nothing) \in Msg /\ Message(FALSE, Nothing) \in Msg
      /\ Message(0, Nothing).val = 0 /\ Message(0, Nothing).view = Nothing
      /\ Message(FALSE, Nothing).val = FALSE /\ Message(FALSE, Nothing).view = Nothing
  BY <1>1 DEF Message, Msg, Val
<1>3. /\ mem = [l \in Location |->
                  IF l = visible_size THEN << Message(0, Nothing) >>
                  ELSE IF l = closed THEN << Message(FALSE, Nothing) >>
                  ELSE << >>]
      /\ seen = [t \in Threads |-> [l \in Location |-> Newest(l)]]
      /\ chunkCount = 0 /\ chunksSeen = Nothing /\ callerLock = NoThread /\ callerSeen = Nothing
      /\ rows = << >> /\ Len(rows) = 0
  BY EmptySeq DEF Init
<1>4. /\ mem \in [Location -> Seq(Msg)] /\ visible_size # closed
      /\ visible_size \in Location /\ closed \in Location
      /\ mem[visible_size] = << Message(0, Nothing) >>
      /\ mem[closed] = << Message(FALSE, Nothing) >>
      /\ \A l \in Location \ Atomics : mem[l] = << >>
  <2> DEFINE zero == Message(0, Nothing)
             open == Message(FALSE, Nothing)
  <2>1. zero \in Msg /\ open \in Msg
    BY <1>2
  <2>2. /\ mem = [l \in Location |-> IF l = visible_size THEN << zero >>
                                    ELSE IF l = closed THEN << open >> ELSE << >>]
    BY <1>3
  <2> HIDE DEF zero, open
  <2>3. << zero >> \in Seq(Msg) /\ << open >> \in Seq(Msg) /\ << >> \in Seq(Msg)
    BY <2>1
  <2>4. mem \in [Location -> Seq(Msg)]
    BY <2>2, <2>3
  <2>5. visible_size # closed /\ visible_size \in Location /\ closed \in Location
    BY LocationsApart, AtomicLocations
  <2>6. \A l \in Location \ Atomics : mem[l] = << >>
    BY <2>2 DEF Atomics
  <2>7. mem[visible_size] = << zero >> /\ mem[closed] = << open >>
    BY <2>2, <2>5
  <2> QED
    BY <2>4, <2>5, <2>6, <2>7 DEF zero, open
<1>5. /\ Newest(visible_size) = 1 /\ Newest(closed) = 1
      /\ \A l \in Location \ Atomics : Newest(l) = 0
      /\ mem[visible_size][1] = Message(0, Nothing) /\ mem[closed][1] = Message(FALSE, Nothing)
  BY <1>4 DEF Newest
<1>6. \A l \in Location : Newest(l) \in Nat
  BY <1>5 DEF Atomics
<1>7. seen \in [Threads -> View] /\ \A t \in Threads, l \in Location : seen[t][l] = Newest(l)
  BY <1>3, <1>6 DEF View
<1>8. TypeOK
  <2>1. /\ wpc = [w \in Writers |-> "idle"] /\ wrow = [w \in Writers |-> None]
        /\ windex = [w \in Writers |-> 0] /\ answered = [w \in Writers |-> 0]
        /\ spc = [t \in Snapshotters |-> "idle"] /\ ssize = [t \in Snapshotters |-> 0]
        /\ known = [t \in Snapshotters |-> 0] /\ rows \in Seq(Row)
    BY <1>3, EmptySeq DEF Init
  <2>2. /\ wpc \in [Writers -> {"idle"} \cup Appending] /\ wrow \in [Writers -> Row \cup {None}]
        /\ windex \in [Writers -> Nat] /\ answered \in [Writers -> Nat]
        /\ spc \in [Snapshotters -> {"idle", "freezing", "calling", "sized", "prefix"}]
        /\ ssize \in [Snapshotters -> Nat] /\ known \in [Snapshotters -> Nat]
        /\ \A w \in Writers : wpc[w] # "idle" => wrow[w] \in Row
    BY <2>1
  <2>3. /\ mem \in [Location -> Seq(Msg)] /\ seen \in [Threads -> View]
        /\ chunkCount \in Nat /\ chunksSeen \in View
        /\ callerLock \in Threads \cup {NoThread} /\ callerSeen \in View
    BY <1>1, <1>3, <1>4, <1>7
  <2> QED
    BY <2>1, <2>2, <2>3 DEF TypeOK
<1>9. CallerInv
  BY ThreadsAssumption DEF Init, CallerInv, Threads, Snapshotters
<1>10. ~HasSlot /\ ~HasValue /\ ~HasBit
  BY DEF Init, HasSlot, HasValue, HasBit, Late
<1>11. CountWith(HasSlot) = 0 /\ CountWith(HasValue) = 0 /\ CountWith(HasBit) = 0
  BY <1>3, <1>10 DEF CountWith
<1>12. NeededChunks(0) = 0 /\ NeededChunks(MaxRows) \in Nat
  <2>1. 0 \div ChunkCapacity = 0 /\ 0 % ChunkCapacity = 0
    BY GeometryAssumption
  <2> QED
    BY <2>1, ChunksNeeded, ThreadsAssumption DEF NeededChunks
<1>13. ChunkInv
  <2>1. \A c \in Nat : \A l \in ChunkLocations(c) : l \notin Atomics
    BY PlacesInChunk
  <2> QED
    BY <1>3, <1>4, <1>11, <1>12, <2>1, ThreadsAssumption DEF ChunkInv
<1>14. SlotInv /\ WordInv
  <2>1. \A o \in Nat : ~(ChunkOf(o) <= chunkCount)
    BY <1>3, Placement
  <2> QED
    BY <2>1 DEF SlotInv, WordInv
<1>15. RowsInv
  BY <1>3 DEF RowsInv
<1>16. SizeInv /\ ClosedInv
  <2>1. \A i \in 1..1 : i = 1
    OBVIOUS
  <2>2. Covers(Nothing, 0)
    BY DEF Covers
  <2>3. mem[visible_size][1].val = 0 /\ mem[visible_size][1].view = Nothing
        /\ mem[closed][1].val = FALSE
    BY <1>2, <1>5
  <2>4. SizeInv
    BY <1>3, <1>5, <2>1, <2>2, <2>3 DEF SizeInv
  <2>5. ClosedInv
    <3>1. Newest(closed) >= 1 /\ \A i \in 1..Newest(closed) : i = 1
      BY <1>5
    <3>2. \A i \in 1..Newest(closed) : mem[closed][i].val = FALSE
      BY <2>3, <3>1
    <3> QED
      BY <3>1, <3>2 DEF ClosedInv
  <2> QED
    BY <2>4, <2>5
<1>17. BoundedInv
  <2>1. Within(Nothing) /\ \A t \in Threads : Within(seen[t])
    BY <1>1, <1>6, <1>7 DEF Within
  <2>2. \A l \in Location : \A i \in 1..Newest(l) : mem[l][i].view = Nothing
    <3>1. \A i \in 1..1 : i = 1
      OBVIOUS
    <3>2. \A i : i \notin 1..0
      OBVIOUS
    <3>3. mem[visible_size][1].view = Nothing /\ mem[closed][1].view = Nothing
      BY <1>2, <1>5
    <3> QED
      BY <1>5, <3>1, <3>2, <3>3 DEF Atomics
  <2> QED
    BY <1>3, <2>1, <2>2 DEF BoundedInv
<1>18. Current(callerSeen)
  BY <1>3, <1>5 DEF Current, Covers, Atomics
<1>19. CurrentInv
  BY <1>3, <1>4, <1>5, <1>7, <1>18, ThreadsAssumption
     DEF CurrentInv, Atomics, Threads, Snapshotters
<1>20. WriterInv
  BY <1>4, <1>5, <1>7 DEF Init, WriterInv, WriterFine, Open, Indexed, Late, Threads
<1>21. SnapInv
  BY <1>4, <1>5, <1>7 DEF Init, SnapInv, SnapFine, Threads
<1> QED
  BY <1>8, <1>9, <1>13, <1>14, <1>15, <1>16, <1>17, <1>19, <1>20, <1>21 DEF IInv, MemoryInv

-----------------------------------------------------------------------------
(* Steps that write nothing *)

LEMMA Parts ==
  ASSUME IInv
  PROVE  /\ TypeOK /\ CallerInv /\ MemoryInv /\ ClosedInv /\ BoundedInv /\ CurrentInv
         /\ WriterInv /\ SnapInv
         /\ ChunkInv /\ SlotInv /\ WordInv /\ RowsInv /\ SizeInv
BY DEF IInv, MemoryInv

\* A step of a snapshotting thread that only loads.
LEMMA SnapshotQuiet ==
  ASSUME IInv, NEW t \in Snapshotters, UNCHANGED <<mem, rows, chunkCount, writerVars, answered>>,
         \A x \in Snapshotters : x # t =>
           spc'[x] = spc[x] /\ ssize'[x] = ssize[x] /\ known'[x] = known[x],
         TypeOK', CallerInv', SnapFine(t)',
         \A l \in Location : chunksSeen[l] <= chunksSeen'[l], Within(chunksSeen'),
         SeenGrows, \A x \in Threads : Within(seen'[x]), LockStep
  PROVE  IInv'
<1>1. MemoryInv'
  BY Parts, QuietMemory DEF LateUnchanged, writerVars, TypeOK
<1>2. BoundedInv' /\ CurrentInv'
  BY Parts, QuietViews
<1>3. ClosedInv'
  BY Parts DEF ClosedInv, Newest
<1>4. ASSUME NEW w \in Writers PROVE WriterFine(w)'
  <2>1. WriterFine(w)
    BY Parts DEF WriterInv
  <2> QED
    BY Parts, <2>1, WriterFineFrame DEF writerVars
<1>5. ASSUME NEW x \in Snapshotters PROVE SnapFine(x)'
  <2>1. CASE x = t
    BY <2>1
  <2>2. CASE x # t
    <3>1. SnapFine(x)
      BY Parts DEF SnapInv
    <3>2. Len(rows) \in Nat /\ Newest(closed) \in Nat /\ Len(mem'[closed]) = Newest(closed)
          /\ Len(rows') = Len(rows)
      BY Parts, LenProperties, MemoryTyped, AtomicLocations DEF TypeOK, Newest
    <3>3. Len(rows) <= Len(rows') /\ Newest(closed) <= Len(mem'[closed])
      BY <3>2
    <3> QED
      BY Parts, <2>2, <3>1, <3>3, SnapFineFrame
  <2> QED
    BY <2>1, <2>2
<1> QED
  BY <1>1, <1>2, <1>3, <1>4, <1>5 DEF IInv, WriterInv, SnapInv

LEMMA Nobody ==
  /\ NoThread \notin Threads /\ Writers \subseteq Threads /\ Snapshotters \subseteq Threads
  /\ Readers \subseteq Snapshotters /\ Closers \subseteq Snapshotters
  /\ \A w \in Writers : w \notin Snapshotters
  /\ \A t \in Readers : t \notin Closers
  /\ \A t \in Snapshotters : t \in Readers \/ t \in Closers
BY ThreadsAssumption DEF Threads, Snapshotters

\* Views that stay.
LEMMA StayFacts ==
  ASSUME IInv
  PROVE  /\ \A l \in Location : chunksSeen[l] <= chunksSeen[l]
         /\ \A t \in Threads, l \in Location : seen[t][l] <= seen[t][l]
         /\ Within(chunksSeen) /\ Within(callerSeen) /\ \A t \in Threads : Within(seen[t])
         /\ \A t \in Threads : seen[t] \in View
BY Parts DEF TypeOK, BoundedInv, View

LEMMA ReleaseIsLockStep ==
  ASSUME CallerInv, NEW t \in Threads, ReleaseCaller(t)
  PROVE  LockStep
BY DEF ReleaseCaller, LockStep

LEMMA ReleaseTyped ==
  ASSUME TypeOK, NEW t \in Threads, ReleaseCaller(t), seen' \in [Threads -> View]
  PROVE  callerLock' \in Threads \cup {NoThread} /\ callerSeen' \in View
BY DEF ReleaseCaller, TypeOK, callerVars

LEMMA TakeIsLockStep ==
  ASSUME TypeOK, BoundedInv, NEW t \in Threads, TakeCaller(t)
  PROVE  /\ LockStep /\ SeenGrows /\ seen' \in [Threads -> View]
         /\ \A x \in Threads : Within(seen'[x])
         /\ callerLock' = t /\ callerLock = NoThread /\ callerSeen' = callerSeen
<1>1. seen' = [seen EXCEPT ![t] = Join(seen[t], callerSeen)]
  BY DEF TakeCaller
<1>2. callerSeen \in View /\ Within(callerSeen)
  BY DEF TypeOK, BoundedInv
<1>3. /\ seen' \in [Threads -> View]
      /\ \A x \in Threads : Within(seen'[x])
      /\ \A x \in Threads, l \in Location : seen[x][l] <= seen'[x][l]
      /\ \A l \in Location : callerSeen[l] <= seen'[t][l]
  BY <1>1, <1>2, JoinStep
<1> QED
  BY <1>3 DEF TakeCaller, LockStep, SeenGrows

LEMMA BeginSnapshotInv ==
  ASSUME IInv, NEW t \in Readers, BeginSnapshot(t)
  PROVE  IInv'
<1>1. t \in Snapshotters /\ t \notin Closers
  BY Nobody
<1>2. /\ spc[t] = "idle" /\ spc' = [spc EXCEPT ![t] = "calling"]
      /\ UNCHANGED <<memoryVars, callerVars, writerVars, rows, answered, ssize, known>>
  BY DEF BeginSnapshot, SnapshotStep
<1>3. TypeOK'
  BY Parts, <1>1, <1>2 DEF TypeOK, memoryVars, callerVars, writerVars
<1>4. CallerInv'
  BY Parts, Nobody, <1>1, <1>2 DEF TypeOK, CallerInv, callerVars, writerVars
<1>5. SnapFine(t)
  BY Parts, <1>1 DEF SnapInv
<1>6. SnapFine(t)'
  BY Parts, <1>1, <1>2, <1>5 DEF TypeOK, SnapFine, memoryVars
<1> QED
  BY Parts, StayFacts, <1>1, <1>2, <1>3, <1>4, <1>6, SnapshotQuiet
     DEF memoryVars, SeenGrows, LockStep, TypeOK

LEMMA BeginFreezeInv ==
  ASSUME IInv, NEW t \in Closers, BeginFreeze(t)
  PROVE  IInv'
<1>1. t \in Snapshotters /\ t \in Threads
  BY Nobody
<1>2. /\ spc[t] = "idle" /\ spc' = [spc EXCEPT ![t] = "freezing"] /\ TakeCaller(t)
      /\ UNCHANGED <<mem, chunkCount, chunksSeen, writerVars, rows, answered, ssize, known>>
  BY DEF BeginFreeze, SnapshotStep
<1>3. /\ LockStep /\ SeenGrows /\ seen' \in [Threads -> View]
      /\ \A x \in Threads : Within(seen'[x])
      /\ callerLock' = t /\ callerLock = NoThread /\ callerSeen' = callerSeen
  BY Parts, <1>1, <1>2, TakeIsLockStep
<1>4. TypeOK'
  BY Parts, <1>1, <1>2, <1>3 DEF TypeOK, writerVars
<1>5. CallerInv'
  BY Parts, Nobody, <1>1, <1>2, <1>3 DEF TypeOK, CallerInv, writerVars
<1>6. SnapFine(t)
  BY Parts, <1>1 DEF SnapInv
<1>7. known[t] + 1 <= seen'[t][visible_size]
  <2>1. /\ seen[t][visible_size] \in Nat /\ seen'[t][visible_size] \in Nat /\ known[t] \in Nat
        /\ seen[t][visible_size] <= seen'[t][visible_size]
    BY Parts, <1>1, <1>3, AtomicLocations DEF TypeOK, View, SeenGrows
  <2> QED
    BY <1>6, <2>1 DEF SnapFine
<1>8. SnapFine(t)'
  BY Parts, <1>1, <1>2, <1>6, <1>7 DEF TypeOK, SnapFine
<1> QED
  BY Parts, StayFacts, <1>1, <1>2, <1>3, <1>4, <1>5, <1>8, SnapshotQuiet DEF TypeOK

LEMMA LoadSizeInv ==
  ASSUME IInv, NEW t \in Snapshotters, LoadSize(t)
  PROVE  IInv'
<1>1. t \in Threads /\ visible_size \in Atomics /\ visible_size \in Location
  BY Nobody, AtomicLocations DEF Atomics
<1>2. /\ spc[t] = "calling" /\ spc' = [spc EXCEPT ![t] = "sized"]
      /\ UNCHANGED <<mem, chunkCount, chunksSeen, callerVars, writerVars, rows, answered, known>>
  BY DEF LoadSize, SnapshotStep
<1>3. PICK i \in Visible(t, visible_size) :
        /\ seen' = [seen EXCEPT ![t] = Acquired(t, visible_size, i)]
        /\ ssize' = [ssize EXCEPT ![t] = mem[visible_size][i].val]
  BY DEF LoadSize
<1> DEFINE new == Acquired(t, visible_size, i)
           v == mem[visible_size][i].view
<1>4. /\ i \in 1..Newest(visible_size) /\ seen[t][visible_size] <= i
      /\ new \in View /\ Within(new) /\ new[visible_size] >= i
      /\ \A l \in Location : seen[t][l] <= new[l] /\ v[l] <= new[l]
  BY Parts, <1>1, LoadFacts
<1>5. v \in View /\ mem[visible_size][i].val = i - 1 /\ Covers(v, i - 1)
      /\ Newest(visible_size) = Len(rows) + 1
  BY Parts, <1>1, <1>4, MemoryTyped DEF SizeInv
<1>6. seen' = [seen EXCEPT ![t] = new]
  BY <1>3
<1> HIDE DEF new, v
<1>7. /\ seen' \in [Threads -> View] /\ seen'[t] = new /\ SeenGrows
      /\ \A x \in Threads : Within(seen'[x])
  BY Parts, <1>1, <1>4, <1>6, SeenStep DEF SeenGrows
<1>8. Len(rows) \in Nat /\ Len(rows) <= MaxRows /\ MaxRows \in Nat /\ i \in Nat /\ i - 1 \in Nat
      /\ i - 1 <= Len(rows)
  <2>1. Len(rows) \in Nat /\ Len(rows) <= MaxRows
    BY Parts, LenProperties DEF TypeOK, ChunkInv
  <2> QED
    BY <1>4, <1>5, <2>1, ThreadsAssumption
<1>9. ssize' = [ssize EXCEPT ![t] = i - 1]
  BY <1>3, <1>5
<1>10. TypeOK'
  BY Parts, <1>1, <1>2, <1>7, <1>8, <1>9 DEF TypeOK, callerVars, writerVars
<1>11. CallerInv'
  BY Parts, Nobody, <1>2 DEF TypeOK, CallerInv, callerVars, writerVars
<1>12. Covers(seen'[t], i - 1)
  BY <1>4, <1>5, <1>7, <1>8, CoversGrows
<1>13. SnapFine(t)
  BY Parts DEF SnapInv
<1>14. ASSUME t \in Closers PROVE i - 1 = Len(rows) /\ Newest(closed) >= 2
  <2>1. callerLock = t
    BY Parts, <1>2, <1>14 DEF CallerInv
  <2>2. Newest(visible_size) > 1 => seen[t][visible_size] >= Newest(visible_size)
    BY Parts, <1>1, <2>1 DEF CurrentInv, Current
  <2>3. seen[t][visible_size] \in Nat
    BY Parts, <1>1 DEF TypeOK, View
  <2> QED
    BY <1>2, <1>4, <1>5, <1>8, <1>13, <1>14, <2>2, <2>3 DEF SnapFine
<1>15. SnapFine(t)'
  <2>1. known[t] \in Nat /\ known[t] + 1 <= i /\ i <= seen'[t][visible_size]
        /\ seen'[t][visible_size] \in Nat
    <3>1. seen[t][visible_size] \in Nat /\ known[t] \in Nat /\ seen'[t][visible_size] \in Nat
      BY Parts, <1>1, <1>7 DEF TypeOK, View
    <3> QED
      BY <1>4, <1>7, <1>8, <1>13, <3>1 DEF SnapFine
  <2>2. spc'[t] = "sized" /\ ssize'[t] = i - 1 /\ known'[t] = known[t]
    BY Parts, <1>2, <1>9 DEF TypeOK
  <2> QED
    BY <1>2, <1>8, <1>12, <1>14, <2>1, <2>2 DEF SnapFine, Newest, Covers
<1> QED
  BY Parts, StayFacts, <1>2, <1>7, <1>9, <1>10, <1>11, <1>15, SnapshotQuiet DEF TypeOK, LockStep

\* What a release of the caller's mutex, if it is held, does to who holds it.
LEMMA ReleaseFacts ==
  ASSUME TypeOK, NEW t \in Threads, ReleaseCaller(t)
  PROVE  /\ callerLock # t => callerLock' = callerLock
         /\ callerLock = t => callerLock' = NoThread
BY DEF ReleaseCaller, callerVars

LEMMA CopyChunksInv ==
  ASSUME IInv, NEW t \in Snapshotters, CopyChunks(t)
  PROVE  IInv'
<1>1. t \in Threads
  BY Nobody
<1>2. /\ spc[t] = "sized" /\ spc' = [spc EXCEPT ![t] = "prefix"]
      /\ seen' = [seen EXCEPT ![t] = Join(seen[t], chunksSeen)]
      /\ chunksSeen' = seen'[t] /\ ReleaseCaller(t)
      /\ UNCHANGED <<mem, chunkCount, writerVars, rows, answered, known, ssize>>
  BY DEF CopyChunks, SnapshotStep
<1>3. chunksSeen \in View /\ Within(chunksSeen)
  BY Parts DEF TypeOK, BoundedInv
<1>4. /\ seen' \in [Threads -> View] /\ SeenGrows
      /\ \A x \in Threads : Within(seen'[x])
      /\ \A l \in Location : chunksSeen[l] <= seen'[t][l]
  BY Parts, <1>1, <1>2, <1>3, JoinStep DEF SeenGrows
<1>5. LockStep
  BY Parts, <1>1, <1>2, ReleaseIsLockStep
<1>6. TypeOK'
  <2>1. callerLock' \in Threads \cup {NoThread} /\ callerSeen' \in View
    BY Parts, <1>1, <1>2, <1>4, ReleaseTyped
  <2> QED
    BY Parts, <1>1, <1>2, <1>4, <2>1 DEF TypeOK, writerVars
<1>7. CallerInv'
  BY Parts, Nobody, <1>1, <1>2, ReleaseFacts DEF TypeOK, CallerInv, writerVars
<1>8. SnapFine(t)
  BY Parts DEF SnapInv
<1>9. SnapFine(t)'
  <2>1. /\ seen[t] \in View /\ seen'[t] \in View /\ \A l \in Location : seen[t][l] <= seen'[t][l]
        /\ seen[t][visible_size] \in Nat /\ seen'[t][visible_size] \in Nat
        /\ seen[t][visible_size] <= seen'[t][visible_size]
        /\ known[t] \in Nat /\ ssize[t] \in Nat
    BY Parts, <1>1, <1>4, AtomicLocations DEF TypeOK, View, SeenGrows
  <2>2. Len(rows) \in Nat /\ Len(rows) <= MaxRows /\ MaxRows \in Nat
    BY Parts, LenProperties, ThreadsAssumption DEF TypeOK, ChunkInv
  <2>3. ssize[t] <= MaxRows
    BY <1>2, <1>8, <2>1, <2>2 DEF SnapFine
  <2>4. Covers(seen'[t], ssize[t])
    BY <1>2, <1>8, <2>1, <2>3, CoversGrows DEF SnapFine
  <2>5. spc'[t] = "prefix" /\ ssize'[t] = ssize[t] /\ known'[t] = known[t]
    BY Parts, <1>2 DEF TypeOK
  <2> QED
    BY <1>2, <1>8, <2>1, <2>4, <2>5 DEF SnapFine, Newest, Covers
<1>10. /\ UNCHANGED <<mem, rows, chunkCount, writerVars, answered>>
       /\ \A l \in Location : chunksSeen[l] <= chunksSeen'[l]
       /\ Within(chunksSeen')
  BY <1>1, <1>2, <1>4
<1>11. \A x \in Snapshotters : x # t =>
         spc'[x] = spc[x] /\ ssize'[x] = ssize[x] /\ known'[x] = known[x]
  BY Parts, <1>2 DEF TypeOK
<1> QED
  BY <1>4, <1>5, <1>6, <1>7, <1>9, <1>10, <1>11, SnapshotQuiet

LEMMA LeaveSnapshotInv ==
  ASSUME IInv, NEW t \in Snapshotters, NEW from \in {"sized", "prefix"}, LeaveSnapshot(t, from),
         from = "prefix" => t \in Readers
  PROVE  IInv'
<1>1. t \in Threads
  BY Nobody
<1>2. /\ spc[t] = from /\ spc' = [spc EXCEPT ![t] = "idle"]
      /\ known' = [known EXCEPT ![t] = IF @ < ssize[t] THEN ssize[t] ELSE @]
      /\ ssize' = [ssize EXCEPT ![t] = 0] /\ ReleaseCaller(t)
      /\ UNCHANGED <<mem, seen, chunksSeen, chunkCount, writerVars, rows, answered>>
  BY DEF LeaveSnapshot, SnapshotStep, memoryVars
<1>3. LockStep
  BY Parts, <1>1, <1>2, ReleaseIsLockStep
<1>4. TypeOK'
  <2>1. callerLock' \in Threads \cup {NoThread} /\ callerSeen' \in View
    BY Parts, <1>1, <1>2, ReleaseTyped DEF TypeOK
  <2> QED
    BY Parts, <1>1, <1>2, <2>1 DEF TypeOK, writerVars
<1>5. CallerInv'
  BY Parts, Nobody, <1>1, <1>2, ReleaseFacts DEF TypeOK, CallerInv, writerVars
<1>6. SnapFine(t)
  BY Parts DEF SnapInv
<1>7. SnapFine(t)'
  <2>1. known[t] \in Nat /\ ssize[t] \in Nat /\ seen[t][visible_size] \in Nat
    BY Parts, <1>1, AtomicLocations DEF TypeOK, View
  <2>2. spc'[t] = "idle" /\ ssize'[t] = 0 /\ known'[t] \in {known[t], ssize[t]}
    BY Parts, <1>2 DEF TypeOK
  <2> QED
    BY <1>2, <1>6, <2>1, <2>2 DEF SnapFine
<1>8. /\ UNCHANGED <<mem, rows, chunkCount, writerVars, answered>> /\ SeenGrows
      /\ \A l \in Location : chunksSeen[l] <= chunksSeen'[l]
      /\ Within(chunksSeen') /\ \A x \in Threads : Within(seen'[x])
  BY StayFacts, <1>2 DEF SeenGrows
<1>9. \A x \in Snapshotters : x # t =>
        spc'[x] = spc[x] /\ ssize'[x] = ssize[x] /\ known'[x] = known[x]
  BY Parts, <1>2 DEF TypeOK
<1> QED
  BY <1>3, <1>4, <1>5, <1>7, <1>8, <1>9, SnapshotQuiet

LEMMA InformInv ==
  ASSUME IInv, NEW w \in Writers, NEW t \in Readers, Inform(w, t)
  PROVE  IInv'
<1>1. t \in Threads /\ t \in Snapshotters /\ w \in Threads
  BY Nobody
<1>2. /\ spc[t] = "idle" /\ known[t] < answered[w]
      /\ seen' = [seen EXCEPT ![t] = Join(seen[t], seen[w])]
      /\ known' = [known EXCEPT ![t] = answered[w]]
      /\ UNCHANGED <<mem, chunkCount, chunksSeen, callerVars, writerVars, spc, ssize, rows,
                     answered>>
  BY DEF Inform
<1>3. seen[w] \in View /\ Within(seen[w])
  BY Parts, <1>1 DEF TypeOK, BoundedInv
<1>4. /\ seen' \in [Threads -> View] /\ SeenGrows
      /\ \A x \in Threads : Within(seen'[x])
      /\ \A l \in Location : seen[w][l] <= seen'[t][l]
  BY Parts, <1>1, <1>2, <1>3, JoinStep DEF SeenGrows
<1>5. TypeOK'
  BY Parts, <1>1, <1>2, <1>4 DEF TypeOK, callerVars, writerVars
<1>6. CallerInv'
  BY Parts, <1>2 DEF CallerInv, callerVars, writerVars
<1>7. SnapFine(t)'
  <2>1. /\ seen[w][visible_size] \in Nat /\ seen'[t][visible_size] \in Nat
        /\ answered[w] \in Nat /\ seen[w][visible_size] <= seen'[t][visible_size]
    BY Parts, <1>1, <1>3, <1>4, AtomicLocations DEF TypeOK, View
  <2>2. answered[w] + 1 <= seen[w][visible_size]
    BY Parts DEF WriterInv, WriterFine
  <2>3. SnapFine(t)
    BY Parts, <1>1 DEF SnapInv
  <2>4. spc'[t] = "idle" /\ ssize'[t] = ssize[t] /\ known'[t] = answered[w]
    BY Parts, <1>1, <1>2 DEF TypeOK
  <2> QED
    BY <1>2, <2>1, <2>2, <2>3, <2>4 DEF SnapFine
<1>8. /\ UNCHANGED <<mem, rows, chunkCount, writerVars, answered>> /\ LockStep
      /\ \A l \in Location : chunksSeen[l] <= chunksSeen'[l]
      /\ Within(chunksSeen')
  BY StayFacts, <1>2 DEF LockStep
<1>9. \A x \in Snapshotters : x # t =>
        spc'[x] = spc[x] /\ ssize'[x] = ssize[x] /\ known'[x] = known[x]
  BY Parts, <1>2 DEF TypeOK
<1> QED
  BY <1>1, <1>4, <1>5, <1>6, <1>7, <1>8, <1>9, SnapshotQuiet

-----------------------------------------------------------------------------
(* Steps of a writer *)

\* While a writer is at work the others are idle, and no prefix is being frozen.
LEMMA OnlyWriter ==
  ASSUME IInv, NEW w \in Writers, wpc[w] # "idle"
  PROVE  /\ callerLock = w /\ callerLock # NoThread
         /\ \A x \in Writers : x # w => wpc[x] = "idle"
         /\ \A t \in Closers : spc[t] \notin {"freezing", "calling", "sized"}
BY Parts, Nobody DEF CallerInv

\* What its steps keep of the others.
LEMMA WriterOthers ==
  ASSUME IInv, NEW w \in Writers, UNCHANGED snapVars, TypeOK', SeenGrows,
         \A x \in Writers : x # w =>
           /\ wpc[x] = "idle" \/ UNCHANGED <<mem, rows>>
           /\ wpc'[x] = wpc[x] /\ wrow'[x] = wrow[x] /\ windex'[x] = windex[x]
           /\ answered'[x] = answered[x],
         Len(rows) <= Len(rows'), mem'[closed] = mem[closed],
         rows' = rows \/ Newest(closed) = 1,
         WriterFine(w)'
  PROVE  WriterInv' /\ SnapInv'
<1>1. ASSUME NEW x \in Writers PROVE WriterFine(x)'
  <2>1. CASE x = w
    BY <2>1
  <2>2. CASE x # w
    <3>1. WriterFine(x)
      BY Parts DEF WriterInv
    <3> QED
      BY Parts, <2>2, <3>1, WriterFineFrame
  <2> QED
    BY <2>1, <2>2
<1>2. ASSUME NEW t \in Snapshotters PROVE SnapFine(t)'
  <2>1. SnapFine(t)
    BY Parts DEF SnapInv
  <2>2. Newest(closed) \in Nat /\ Len(mem'[closed]) = Newest(closed)
    BY Parts, MemoryTyped, AtomicLocations DEF Newest
  <2>3. t \in Closers /\ spc[t] \in {"sized", "prefix"} => rows' = rows
    BY <2>1, <2>2 DEF SnapFine
  <2>4. Newest(closed) <= Len(mem'[closed])
    BY <2>2
  <2> QED
    BY Parts, <2>1, <2>3, <2>4, SnapFineFrame DEF snapVars
<1> QED
  BY <1>1, <1>2 DEF WriterInv, SnapInv

\* A step of a writer that writes nothing.
LEMMA WriterQuiet ==
  ASSUME IInv, NEW w \in Writers, UNCHANGED <<mem, rows, chunkCount, snapVars, answered>>,
         \A x \in Writers : x # w =>
           wpc'[x] = wpc[x] /\ wrow'[x] = wrow[x] /\ windex'[x] = windex[x],
         wpc[w] \notin Late, wpc'[w] \notin Late,
         TypeOK', CallerInv', WriterFine(w)',
         \A l \in Location : chunksSeen[l] <= chunksSeen'[l], Within(chunksSeen'),
         SeenGrows, \A x \in Threads : Within(seen'[x]), LockStep
  PROVE  IInv'
<1>1. LateUnchanged
  BY DEF LateUnchanged
<1>2. MemoryInv'
  BY Parts, <1>1, QuietMemory DEF TypeOK
<1>3. BoundedInv' /\ CurrentInv'
  BY Parts, QuietViews
<1>4. ClosedInv'
  BY Parts DEF ClosedInv, Newest
<1>5. Len(rows) <= Len(rows')
  BY Parts, LenProperties DEF TypeOK
<1>6. WriterInv' /\ SnapInv'
  BY <1>5, WriterOthers
<1> QED
  BY <1>2, <1>3, <1>4, <1>6 DEF IInv

LEMMA AnsweredKept ==
  ASSUME IInv, NEW w \in Writers, SeenGrows, seen' \in [Threads -> View], answered' = answered
  PROVE  answered'[w] + 1 <= seen'[w][visible_size]
<1>1. /\ seen[w][visible_size] \in Nat /\ seen'[w][visible_size] \in Nat /\ answered[w] \in Nat
      /\ seen[w][visible_size] <= seen'[w][visible_size]
  BY Parts, Nobody, AtomicLocations DEF TypeOK, View, SeenGrows
<1>2. answered[w] + 1 <= seen[w][visible_size]
  BY Parts DEF WriterInv, WriterFine
<1> QED
  BY <1>1, <1>2

\* A writer that leaves gives the mutex back.
LEMMA LeaveFacts ==
  ASSUME IInv, NEW w \in Writers, NEW from \in Appending, Leave(w, from),
         seen' \in [Threads -> View]
  PROVE  /\ LockStep /\ CallerInv' /\ UNCHANGED snapVars
         /\ callerLock' = NoThread /\ callerSeen' = seen'[w] /\ callerSeen' \in View
         /\ wpc[w] = from /\ wpc' = [wpc EXCEPT ![w] = "idle"]
         /\ wrow' = [wrow EXCEPT ![w] = None] /\ windex' = [windex EXCEPT ![w] = 0]
         /\ wpc' \in [Writers -> {"idle"} \cup Appending]
         /\ wrow' \in [Writers -> Row \cup {None}] /\ windex' \in [Writers -> Nat]
         /\ \A x \in Writers : wpc'[x] # "idle" => wrow'[x] \in Row
<1>1. w \in Threads /\ from # "idle"
  BY Nobody DEF Appending, Open, Indexed, Late
<1>2. /\ wpc[w] = from /\ wpc' = [wpc EXCEPT ![w] = "idle"] /\ UNCHANGED snapVars
      /\ ReleaseCaller(w)
      /\ wrow' = [wrow EXCEPT ![w] = None] /\ windex' = [windex EXCEPT ![w] = 0]
  BY DEF Leave, WriterStep
<1>3. callerLock = w
  BY Parts, <1>1, <1>2 DEF CallerInv
<1>4. LockStep /\ callerLock' = NoThread /\ callerSeen' = seen'[w] /\ callerSeen' \in View
  BY <1>1, <1>2, <1>3 DEF ReleaseCaller, LockStep
<1>5. CallerInv'
  BY Parts, Nobody, <1>1, <1>2, <1>3, <1>4 DEF CallerInv, TypeOK, snapVars
<1>6. /\ wpc' \in [Writers -> {"idle"} \cup Appending]
      /\ wrow' \in [Writers -> Row \cup {None}] /\ windex' \in [Writers -> Nat]
      /\ \A x \in Writers : wpc'[x] # "idle" => wrow'[x] \in Row
  BY Parts, <1>2 DEF TypeOK
<1> QED
  BY <1>2, <1>4, <1>5, <1>6

LEMMA EnterInv ==
  ASSUME IInv, NEW w \in Writers, NEW row \in Row, Enter(w, row)
  PROVE  IInv'
<1>1. w \in Threads
  BY Nobody
<1>2. /\ wpc[w] = "idle" /\ wpc' = [wpc EXCEPT ![w] = "entered"] /\ TakeCaller(w)
      /\ Len(rows) + Cardinality({x \in Writers : wpc[x] # "idle"}) < MaxRows
      /\ wrow' = [wrow EXCEPT ![w] = row]
      /\ UNCHANGED <<mem, chunkCount, chunksSeen, windex, rows, answered, snapVars>>
  BY DEF Enter, WriterStep
<1>3. /\ LockStep /\ SeenGrows /\ seen' \in [Threads -> View]
      /\ \A x \in Threads : Within(seen'[x])
      /\ callerLock' = w /\ callerLock = NoThread /\ callerSeen' = callerSeen
  BY Parts, <1>1, <1>2, TakeIsLockStep
<1>4. TypeOK'
  BY Parts, <1>1, <1>2, <1>3 DEF TypeOK, snapVars, Appending
<1>5. CallerInv'
  BY Parts, Nobody, <1>1, <1>2, <1>3 DEF TypeOK, CallerInv, snapVars
<1>6. Len(rows) < MaxRows
  <2> DEFINE active == {x \in Writers : wpc[x] # "idle"}
  <2>1. IsFiniteSet(active)
    BY ThreadsAssumption, FS_Subset
  <2> HIDE DEF active
  <2>2. Cardinality(active) \in Nat /\ Len(rows) \in Nat /\ MaxRows \in Nat
    BY Parts, <2>1, FS_CardinalityType, LenProperties, ThreadsAssumption DEF TypeOK
  <2>3. Len(rows) + Cardinality(active) < MaxRows
    BY <1>2 DEF active
  <2> QED
    BY <2>2, <2>3
<1>7. wpc'[w] = "entered"
  BY Parts, <1>2 DEF TypeOK
<1>8. WriterFine(w)'
  BY <1>2, <1>3, <1>6, <1>7, AnsweredKept DEF WriterFine, Open, Indexed, Late
<1> QED
  BY Parts, StayFacts, <1>2, <1>3, <1>4, <1>5, <1>7, <1>8, WriterQuiet DEF TypeOK, Late

LEMMA CheckInv ==
  ASSUME IInv, NEW w \in Writers, Check(w)
  PROVE  IInv'
<1>1. w \in Threads /\ closed \in Atomics /\ closed \in Location
  BY Nobody, AtomicLocations DEF Atomics
<1>2. PICK i \in Visible(w, closed) :
        /\ seen' = [seen EXCEPT ![w] = Acquired(w, closed, i)]
        /\ UNCHANGED <<mem, chunkCount, chunksSeen, rows, answered>>
        /\ IF mem[closed][i].val THEN Leave(w, "entered")
           ELSE WriterStep(w, "entered", "open") /\ UNCHANGED <<callerVars, wrow, windex>>
  BY DEF Check
<1> DEFINE new == Acquired(w, closed, i)
<1>3. /\ i \in 1..Newest(closed) /\ seen[w][closed] <= i
      /\ new \in View /\ Within(new)
      /\ \A l \in Location : seen[w][l] <= new[l]
  BY Parts, <1>1, LoadFacts
<1>4. seen' = [seen EXCEPT ![w] = new]
  BY <1>2
<1> HIDE DEF new
<1>5. seen' \in [Threads -> View] /\ SeenGrows /\ \A x \in Threads : Within(seen'[x])
  BY Parts, <1>1, <1>3, <1>4, SeenStep DEF SeenGrows
<1>6. wpc[w] = "entered"
  BY <1>2 DEF Leave, WriterStep
<1>7. Len(rows) < MaxRows /\ answered'[w] + 1 <= seen'[w][visible_size]
  BY Parts, <1>2, <1>5, <1>6, AnsweredKept DEF WriterInv, WriterFine
<1>8. CASE mem[closed][i].val
  <2>1. Leave(w, "entered")
    BY <1>2, <1>8
  <2>2. /\ LockStep /\ CallerInv' /\ UNCHANGED snapVars
        /\ callerLock' = NoThread /\ callerSeen' \in View
        /\ wpc' = [wpc EXCEPT ![w] = "idle"]
        /\ wrow' = [wrow EXCEPT ![w] = None] /\ windex' = [windex EXCEPT ![w] = 0]
        /\ wpc' \in [Writers -> {"idle"} \cup Appending]
        /\ wrow' \in [Writers -> Row \cup {None}] /\ windex' \in [Writers -> Nat]
        /\ \A x \in Writers : wpc'[x] # "idle" => wrow'[x] \in Row
    BY <1>5, <2>1, LeaveFacts DEF Appending
  <2>3. TypeOK'
    BY Parts, <1>2, <1>5, <2>2 DEF TypeOK, snapVars
  <2>4. wpc'[w] = "idle"
    BY Parts, <2>2 DEF TypeOK
  <2>5. WriterFine(w)'
    BY <1>7, <2>4 DEF WriterFine, Open, Indexed, Late
  <2> QED
    BY Parts, StayFacts, <1>2, <1>5, <1>6, <2>2, <2>3, <2>4, <2>5, WriterQuiet DEF TypeOK, Late
<1>9. CASE ~mem[closed][i].val
  <2>1. /\ wpc' = [wpc EXCEPT ![w] = "open"] /\ UNCHANGED <<callerVars, wrow, windex, snapVars>>
    BY <1>2, <1>9 DEF WriterStep
  <2>2. TypeOK'
    BY Parts, <1>2, <1>5, <1>6, <2>1 DEF TypeOK, snapVars, callerVars, Appending, Open
  <2>3. CallerInv'
    BY Parts, Nobody, <1>6, <2>1 DEF TypeOK, CallerInv, snapVars, callerVars
  <2>4. wpc'[w] = "open"
    BY Parts, <2>1 DEF TypeOK
  <2>5. i = 1
    BY Parts, <1>3, <1>9 DEF ClosedInv
  <2>6. Newest(closed) = 1
    <3>1. Newest(closed) > 1 => seen[w][closed] >= Newest(closed)
      BY Parts, <1>1, <1>6, OnlyWriter DEF CurrentInv, Current
    <3>2. Newest(closed) \in Nat /\ Newest(closed) >= 1 /\ seen[w][closed] \in Nat
      BY Parts, <1>1, MemoryTyped DEF ClosedInv, TypeOK, View
    <3> QED
      BY <1>3, <2>5, <3>1, <3>2
  <2>7. WriterFine(w)'
    BY <1>2, <1>7, <2>4, <2>6 DEF WriterFine, Open, Indexed, Late, Newest
  <2>8. LockStep
    BY <2>1 DEF LockStep
  <2> QED
    BY Parts, StayFacts, <1>2, <1>5, <1>6, <2>1, <2>2, <2>3, <2>4, <2>7, <2>8, WriterQuiet
       DEF TypeOK, Late
<1> QED
  BY <1>8, <1>9

LEMMA LoadIndexInv ==
  ASSUME IInv, NEW w \in Writers, LoadIndex(w)
  PROVE  IInv'
<1>1. w \in Threads /\ visible_size \in Atomics /\ visible_size \in Location
  BY Nobody, AtomicLocations DEF Atomics
<1>2. /\ wpc[w] = "open" /\ wpc' = [wpc EXCEPT ![w] = "indexed"]
      /\ UNCHANGED <<mem, chunkCount, chunksSeen, callerVars, wrow, rows, answered, snapVars>>
  BY DEF LoadIndex, WriterStep
<1>3. PICK i \in Visible(w, visible_size) :
        /\ seen' = [seen EXCEPT ![w] = Relaxed(w, visible_size, i)]
        /\ windex' = [windex EXCEPT ![w] = mem[visible_size][i].val]
  BY DEF LoadIndex
<1> DEFINE new == Relaxed(w, visible_size, i)
<1>4. /\ i \in 1..Newest(visible_size) /\ seen[w][visible_size] <= i
      /\ new \in View /\ Within(new)
      /\ \A l \in Location : seen[w][l] <= new[l]
  BY Parts, <1>1, LoadFacts
<1>5. seen' = [seen EXCEPT ![w] = new]
  BY <1>3
<1> HIDE DEF new
<1>6. seen' \in [Threads -> View] /\ SeenGrows /\ \A x \in Threads : Within(seen'[x])
  BY Parts, <1>1, <1>4, <1>5, SeenStep DEF SeenGrows
<1>7. /\ mem[visible_size][i].val = i - 1
      /\ Newest(visible_size) = Len(rows) + 1 /\ Len(rows) \in Nat
  BY Parts, <1>4, LenProperties DEF SizeInv, TypeOK
<1>8. i - 1 = Len(rows)
  <2>1. Newest(visible_size) > 1 => seen[w][visible_size] >= Newest(visible_size)
    BY Parts, <1>1, <1>2, OnlyWriter DEF CurrentInv, Current
  <2>2. seen[w][visible_size] \in Nat
    BY Parts, <1>1 DEF TypeOK, View
  <2> QED
    BY <1>4, <1>7, <2>1, <2>2
<1>9. windex' = [windex EXCEPT ![w] = Len(rows)]
  BY <1>3, <1>7, <1>8
<1>10. TypeOK'
  BY Parts, <1>2, <1>6, <1>7, <1>9 DEF TypeOK, snapVars, callerVars, Appending, Open, Indexed
<1>11. CallerInv'
  BY Parts, Nobody, <1>2 DEF TypeOK, CallerInv, snapVars, callerVars
<1>12. wpc'[w] = "indexed" /\ windex'[w] = Len(rows)
  BY Parts, <1>2, <1>9 DEF TypeOK
<1>13. WriterFine(w)'
  <2>1. Len(rows) < MaxRows /\ Newest(closed) = 1
    BY Parts, <1>2 DEF WriterInv, WriterFine, Open
  <2> QED
    BY <1>2, <1>6, <1>12, <2>1, AnsweredKept DEF WriterFine, Late, Newest
<1>14. LockStep
  BY <1>2 DEF LockStep
<1> QED
  BY Parts, StayFacts, <1>2, <1>6, <1>9, <1>10, <1>11, <1>12, <1>13, <1>14, WriterQuiet
     DEF TypeOK, Late

LEMMA ProvideThrowsInv ==
  ASSUME IInv, NEW w \in Writers, ProvideThrows(w)
  PROVE  IInv'
<1>1. w \in Threads
  BY Nobody
<1>2. /\ Leave(w, "indexed")
      /\ seen' = [seen EXCEPT ![w] = Join(seen[w], chunksSeen)]
      /\ chunksSeen' = seen'[w]
      /\ UNCHANGED <<mem, chunkCount, rows, answered>>
  BY DEF ProvideThrows
<1>3. chunksSeen \in View /\ Within(chunksSeen)
  BY Parts DEF TypeOK, BoundedInv
<1>4. /\ seen' \in [Threads -> View] /\ SeenGrows
      /\ \A x \in Threads : Within(seen'[x])
      /\ \A l \in Location : chunksSeen[l] <= seen'[w][l]
  BY Parts, <1>1, <1>2, <1>3, JoinStep DEF SeenGrows
<1>5. /\ LockStep /\ CallerInv' /\ UNCHANGED snapVars
      /\ callerLock' = NoThread /\ callerSeen' \in View
      /\ wpc[w] = "indexed" /\ wpc' = [wpc EXCEPT ![w] = "idle"]
      /\ wrow' = [wrow EXCEPT ![w] = None] /\ windex' = [windex EXCEPT ![w] = 0]
      /\ wpc' \in [Writers -> {"idle"} \cup Appending]
      /\ wrow' \in [Writers -> Row \cup {None}] /\ windex' \in [Writers -> Nat]
      /\ \A x \in Writers : wpc'[x] # "idle" => wrow'[x] \in Row
  BY <1>2, <1>4, LeaveFacts DEF Appending, Open, Indexed
<1>6. TypeOK'
  BY Parts, <1>1, <1>2, <1>4, <1>5 DEF TypeOK, snapVars
<1>7. wpc'[w] = "idle"
  BY Parts, <1>5 DEF TypeOK
<1>8. WriterFine(w)'
  BY <1>2, <1>4, <1>7, AnsweredKept DEF WriterFine, Open, Indexed, Late
<1> QED
  BY Parts, <1>1, <1>2, <1>4, <1>5, <1>6, <1>7, <1>8, WriterQuiet DEF TypeOK, Late

-----------------------------------------------------------------------------
(* Steps that write *)

\* t writes val to l, with the view it releases, and has then seen new.
Writes(t, l, val, view, new) ==
  /\ mem' = [mem EXCEPT ![l] = Append(mem[l], Message(val, view))]
  /\ seen' = [seen EXCEPT ![t] = new]
  /\ new[l] = Newest(l) + 1
  /\ \A k \in Location : /\ seen[t][k] <= new[k] /\ view[k] <= new[k]
                         /\ k # l => new[k] <= Newest(k)

\* A message at the end of a location, by a thread that may have acquired something.
LEMMA WriteFacts ==
  ASSUME TypeOK, BoundedInv, NEW t \in Threads, NEW l \in Location, NEW val \in Val,
         NEW view \in View, NEW new \in View, Writes(t, l, val, view, new)
  PROVE  /\ mem' \in [Location -> Seq(Msg)] /\ \A k \in Location : k # l => mem'[k] = mem[k]
         /\ Len(mem'[l]) = Newest(l) + 1
         /\ \A i \in 1..Newest(l) : mem'[l][i] = mem[l][i]
         /\ mem'[l][Newest(l) + 1].val = val /\ mem'[l][Newest(l) + 1].view = view
         /\ seen' \in [Threads -> View] /\ seen'[t] = new /\ SeenGrows
         /\ chunksSeen' = chunksSeen /\ callerSeen' \in {callerSeen, new} => BoundedInv'
<1>0. /\ mem' = [mem EXCEPT ![l] = Append(mem[l], Message(val, view))]
      /\ seen' = [seen EXCEPT ![t] = new] /\ new[l] = Newest(l) + 1
      /\ \A k \in Location : /\ seen[t][k] <= new[k] /\ view[k] <= new[k]
                             /\ k # l => new[k] <= Newest(k)
  BY DEF Writes
<1>1. mem[l] \in Seq(Msg) /\ Newest(l) \in Nat /\ mem \in [Location -> Seq(Msg)]
  BY MemoryTyped DEF TypeOK
<1> DEFINE msg == Message(val, view)
<1>2. msg \in Msg /\ msg.val = val /\ msg.view = view
  BY DEF Message, Msg
<1>3. mem' = [mem EXCEPT ![l] = Append(mem[l], msg)]
  BY <1>0
<1> HIDE DEF msg
<1>4. /\ Append(mem[l], msg) \in Seq(Msg) /\ Len(Append(mem[l], msg)) = Newest(l) + 1
      /\ \A i \in 1..Newest(l) : Append(mem[l], msg)[i] = mem[l][i]
      /\ Append(mem[l], msg)[Newest(l) + 1] = msg
  BY <1>1, <1>2, AppendProperties DEF Newest
<1>5. /\ mem' \in [Location -> Seq(Msg)] /\ mem'[l] = Append(mem[l], msg)
      /\ \A k \in Location : k # l => mem'[k] = mem[k]
  BY <1>1, <1>3, <1>4
<1>6. /\ Len(mem'[l]) = Newest(l) + 1 /\ mem'[l][Newest(l) + 1] = msg
      /\ \A i \in 1..Newest(l) : mem'[l][i] = mem[l][i]
  BY <1>4, <1>5 DEF Newest
<1>7. /\ seen' \in [Threads -> View] /\ seen'[t] = new
      /\ \A x \in Threads : x # t => seen'[x] = seen[x]
  BY <1>0 DEF TypeOK
<1>8. SeenGrows
  <2> SUFFICES ASSUME NEW x \in Threads, NEW k \in Location PROVE seen[x][k] <= seen'[x][k]
    BY DEF SeenGrows
  <2>1. seen[x][k] \in Nat
    BY DEF TypeOK, View
  <2> QED
    BY <1>0, <1>7, <2>1
<1> DEFINE Known(u) == \A k \in Location : u[k] <= Len(mem'[k])
<1>9. ASSUME NEW u \in View, \A k \in Location : k # l => u[k] <= Newest(k), u[l] <= Newest(l) + 1
      PROVE  Known(u)
  <2> SUFFICES ASSUME NEW k \in Location PROVE u[k] <= Len(mem'[k])
    OBVIOUS
  <2>1. k # l => Len(mem'[k]) = Newest(k)
    BY <1>5 DEF Newest
  <2> QED
    BY <1>5, <1>6, <1>9, <2>1
<1>10. ASSUME NEW u \in View, Within(u) PROVE Known(u)
  <2>1. u[l] \in Nat /\ u[l] <= Newest(l) /\ \A k \in Location : u[k] <= Newest(k)
    BY <1>10 DEF View, Within
  <2>2. u[l] <= Newest(l) + 1
    BY <1>1, <2>1
  <2> QED
    BY <1>9, <2>1, <2>2
<1>11. Known(new) /\ Known(view)
  <2>1. new[l] <= Newest(l) + 1 /\ new[l] \in Nat
    BY <1>0, <1>1
  <2>2. Known(new)
    BY <1>0, <1>9, <2>1
  <2>3. ASSUME NEW k \in Location PROVE view[k] <= Len(mem'[k])
    <3>1. view[k] \in Nat /\ new[k] \in Nat /\ view[k] <= new[k] /\ new[k] <= Len(mem'[k])
      BY <1>0, <2>2 DEF View
    <3>2. Len(mem'[k]) \in Nat
      <4>1. mem'[k] \in Seq(Msg)
        BY <1>5
      <4> QED
        BY <4>1, LenProperties DEF Newest
    <3> QED
      BY <3>1, <3>2
  <2> QED
    BY <2>2, <2>3
<1> HIDE DEF Known
<1>12. \A x \in Threads : Known(seen'[x])
  <2> SUFFICES ASSUME NEW x \in Threads PROVE Known(seen'[x])
    OBVIOUS
  <2>1. CASE x = t
    BY <1>7, <1>11, <2>1
  <2>2. CASE x # t
    <3>1. seen'[x] = seen[x] /\ seen[x] \in View /\ Within(seen[x])
      BY <1>7, <2>2 DEF TypeOK, BoundedInv
    <3> QED
      BY <1>10, <3>1
  <2> QED
    BY <2>1, <2>2
<1>13. ASSUME NEW k \in Location, NEW i \in 1..Newest(k)' PROVE Known(mem'[k][i].view)
  <2>1. CASE k = l /\ i = Newest(l) + 1
    BY <1>2, <1>6, <1>11, <2>1
  <2>2. CASE ~(k = l /\ i = Newest(l) + 1)
    <3>1. i \in 1..Newest(k) /\ mem'[k][i] = mem[k][i]
      <4>1. CASE k = l
        BY <1>1, <1>6, <2>2, <4>1 DEF Newest
      <4>2. CASE k # l
        BY <1>5, <4>2 DEF Newest
      <4> QED
        BY <4>1, <4>2
    <3>2. mem[k][i].view \in View /\ Within(mem[k][i].view)
      BY <3>1, MemoryTyped DEF BoundedInv
    <3> QED
      BY <1>10, <3>1, <3>2
  <2> QED
    BY <2>1, <2>2
<1>14. ASSUME chunksSeen' = chunksSeen, callerSeen' \in {callerSeen, new}
       PROVE  BoundedInv'
  <2>1. Known(chunksSeen') /\ Known(callerSeen')
    <3>1. chunksSeen \in View /\ Within(chunksSeen) /\ callerSeen \in View /\ Within(callerSeen)
      BY DEF TypeOK, BoundedInv
    <3>2. Known(chunksSeen')
      BY <1>10, <1>14, <3>1
    <3>3. Known(callerSeen')
      BY <1>7, <1>10, <1>11, <1>14, <3>1
    <3> QED
      BY <3>2, <3>3
  <2> QED
    BY <1>12, <1>13, <2>1 DEF BoundedInv, Within, Known, Newest
<1> QED
  BY <1>2, <1>5, <1>6, <1>7, <1>8, <1>14 DEF Newest

\* A thread that writes in the caller's mutex keeps it, or gives it back.
LEMMA HeldViews ==
  ASSUME IInv, NEW t \in Threads, callerLock = t, SeenGrows, seen' \in [Threads -> View],
         Current(seen[t])',
         \/ UNCHANGED callerVars
         \/ callerLock' = NoThread /\ callerSeen' = seen'[t]
  PROVE  CurrentInv'
<1>1. \A x \in Threads : \A l \in Atomics : seen'[x][l] >= 1
  <2> SUFFICES ASSUME NEW x \in Threads, NEW l \in Atomics PROVE seen'[x][l] >= 1
    OBVIOUS
  <2>1. l \in Location /\ seen[x][l] \in Nat /\ seen'[x][l] \in Nat /\ seen[x][l] <= seen'[x][l]
    BY Parts, AtomicLocations DEF SeenGrows, View, TypeOK
  <2>2. seen[x][l] >= 1
    BY Parts DEF CurrentInv
  <2> QED
    BY <2>1, <2>2
<1>2. /\ \A x \in Threads : callerLock' = x => x = t
      /\ callerLock' = NoThread => callerSeen' = seen'[t]
  BY Nobody DEF callerVars
<1> QED
  BY <1>1, <1>2 DEF CurrentInv

\* What the holder has seen stays current when no location of its own is written.
LEMMA StillCurrent ==
  ASSUME IInv, NEW t \in Threads, callerLock = t, SeenGrows, seen' \in [Threads -> View],
         rows' = rows,
         \A l \in Atomics : Newest(l)' = Newest(l) \/ seen'[t][l] >= Newest(l)'
  PROVE  Current(seen[t])'
<1>1. seen[t] \in View /\ seen'[t] \in View /\ \A l \in Location : seen[t][l] <= seen'[t][l]
  BY Parts DEF TypeOK, SeenGrows
<1>2. Current(seen[t])
  BY Parts DEF CurrentInv
<1>3. Current(seen'[t])
  BY Parts, <1>1, <1>2, CurrentGrows
<1> QED
  BY <1>3 DEF Current, Covers

LEMMA FreezeInv ==
  ASSUME IInv, NEW t \in Closers, Freeze(t)
  PROVE  IInv'
<1> DEFINE exchanged == Acquired(t, closed, Newest(closed))
           after == [exchanged EXCEPT ![closed] = exchanged[closed] + 1]
           shut == TRUE
<1>1. t \in Snapshotters /\ t \in Threads /\ closed \in Atomics /\ closed \in Location
  BY Nobody, AtomicLocations DEF Atomics
<1>2. /\ mem' = [mem EXCEPT ![closed] = Append(mem[closed], Message(shut, after))]
      /\ seen' = [seen EXCEPT ![t] = after]
      /\ UNCHANGED <<chunkCount, chunksSeen, ssize, known, writerVars, rows, answered>>
      /\ spc[t] = "freezing"
      /\ \/ spc' = [spc EXCEPT ![t] = "idle"] /\ ReleaseCaller(t)
         \/ spc' = [spc EXCEPT ![t] = "calling"] /\ UNCHANGED callerVars
  BY DEF Freeze, SnapshotStep
<1>3. callerLock = t
  BY Parts, <1>2 DEF CallerInv
<1>4. \A w \in Writers : wpc[w] = "idle"
  BY Parts, Nobody, <1>1, <1>3 DEF CallerInv
<1>5. Newest(closed) \in Nat /\ Newest(closed) >= 1 /\ Newest(closed) \in Visible(t, closed)
  <2>1. Newest(closed) \in Nat /\ Newest(closed) >= 1
    BY Parts, <1>1, MemoryTyped DEF ClosedInv
  <2>2. seen[t][closed] \in Nat /\ seen[t][closed] <= Newest(closed)
    BY Parts, <1>1 DEF TypeOK, View, BoundedInv, Within
  <2> QED
    BY <2>1, <2>2 DEF Visible
<1>6. /\ exchanged \in View /\ Within(exchanged) /\ exchanged[closed] >= Newest(closed)
      /\ \A k \in Location : seen[t][k] <= exchanged[k]
  BY Parts, <1>1, <1>5, LoadFacts
<1> HIDE DEF exchanged
<1>7. exchanged[closed] = Newest(closed)
  BY <1>1, <1>5, <1>6 DEF Within, View
<1>8. /\ after \in View /\ after[closed] = Newest(closed) + 1
      /\ \A k \in Location : seen[t][k] <= after[k] /\ after[k] <= after[k]
      /\ \A k \in Location : k # closed => after[k] <= Newest(k)
  <2>1. after \in View /\ after[closed] = Newest(closed) + 1
        /\ \A k \in Location : k # closed => after[k] = exchanged[k]
    BY <1>1, <1>5, <1>6, <1>7 DEF View
  <2> HIDE DEF after
  <2>2. seen[t][closed] \in Nat /\ seen[t][closed] <= Newest(closed)
    BY Parts, <1>1 DEF TypeOK, View, BoundedInv, Within
  <2>3. seen[t][closed] <= after[closed]
    BY <1>5, <2>1, <2>2
  <2>4. \A k \in Location : after[k] <= after[k]
    BY <2>1 DEF View
  <2> QED
    BY <1>6, <2>1, <2>3, <2>4 DEF Within
<1> HIDE DEF after
<1>9. /\ mem' \in [Location -> Seq(Msg)]
      /\ \A k \in Location : k # closed => mem'[k] = mem[k]
      /\ Len(mem'[closed]) = Newest(closed) + 1
      /\ \A i \in 1..Newest(closed) : mem'[closed][i] = mem[closed][i]
      /\ mem'[closed][Newest(closed) + 1].val = shut
      /\ seen' \in [Threads -> View] /\ seen'[t] = after /\ SeenGrows
      /\ chunksSeen' = chunksSeen /\ callerSeen' \in {callerSeen, after} => BoundedInv'
  <2>1. shut \in Val
    BY DEF Val
  <2> HIDE DEF shut
  <2>2. TypeOK /\ BoundedInv
    BY Parts
  <2>3. \A k \in Location : /\ seen[t][k] <= after[k] /\ after[k] <= after[k]
                            /\ k # closed => after[k] <= Newest(k)
    BY <1>8
  <2>4. Writes(t, closed, shut, after, after)
    BY <1>2, <1>8, <2>3 DEF Writes
  <2> QED
    BY <1>1, <1>8, <2>1, <2>2, <2>4, WriteFacts
<1>10. /\ UNCHANGED callerVars \/ (callerLock' = NoThread /\ callerSeen' = seen'[t])
       /\ callerSeen' = callerSeen \/ callerSeen' = seen'[t]
  BY <1>2, <1>3 DEF ReleaseCaller, callerVars
<1>11. TypeOK'
  <2>1. callerLock' \in Threads \cup {NoThread} /\ callerSeen' \in View
    BY Parts, <1>1, <1>9, <1>10 DEF TypeOK, callerVars
  <2> QED
    BY Parts, <1>1, <1>2, <1>9, <2>1 DEF TypeOK, writerVars
<1>12. CallerInv'
  <2>1. \/ spc'[t] = "idle" /\ callerLock' = NoThread
        \/ spc'[t] = "calling" /\ callerLock' = callerLock
    BY Parts, <1>1, <1>2, <1>3 DEF TypeOK, ReleaseCaller, callerVars
  <2>2. \A x \in Snapshotters : x # t => spc'[x] = spc[x]
    BY Parts, <1>2 DEF TypeOK
  <2>3. wpc' = wpc
    BY <1>2 DEF writerVars
  <2> QED
    BY Parts, Nobody, <1>1, <1>2, <1>3, <2>1, <2>2, <2>3 DEF CallerInv
<1>13. MemoryInv'
  <2>1. LateUnchanged /\ UNCHANGED <<rows, chunkCount>>
    BY <1>2 DEF LateUnchanged, writerVars
  <2>2. chunksSeen' \in View /\ \A l \in Location : chunksSeen[l] <= chunksSeen'[l]
    BY Parts, StayFacts, <1>2 DEF TypeOK
  <2> QED
    BY Parts, <1>9, <2>1, <2>2, QuietMemory
<1>14. ClosedInv'
  <2>1. ASSUME NEW i \in 1..(Newest(closed) + 1)
        PROVE  mem'[closed][i].val = IF i = 1 THEN FALSE ELSE TRUE
    <3>1. CASE i = Newest(closed) + 1
      <4>1. i # 1
        BY <1>5, <3>1
      <4> QED
        BY <1>9, <3>1, <4>1
    <3>2. CASE i # Newest(closed) + 1
      <4>1. i \in 1..Newest(closed)
        BY <1>5, <3>2
      <4> QED
        BY Parts, <1>9, <4>1 DEF ClosedInv
    <3> QED
      BY <3>1, <3>2
  <2>2. Newest(closed)' >= 1
    BY <1>5, <1>9 DEF Newest
  <2> QED
    BY <1>9, <2>1, <2>2 DEF ClosedInv, Newest
<1>15. BoundedInv'
  BY <1>2, <1>9, <1>10
<1>16. CurrentInv'
  <2>1. \A l \in Atomics : Newest(l)' = Newest(l) \/ seen'[t][l] >= Newest(l)'
    <3>1. mem'[visible_size] = mem[visible_size]
      BY <1>9, LocationsApart, AtomicLocations
    <3>2. seen'[t][closed] >= Newest(closed)'
      BY <1>5, <1>8, <1>9 DEF Newest
    <3> QED
      BY <3>1, <3>2 DEF Atomics, Newest
  <2>2. Current(seen[t])'
    BY <1>1, <1>2, <1>3, <1>9, <2>1, StillCurrent
  <2> QED
    BY <1>1, <1>3, <1>9, <1>10, <2>2, HeldViews
<1>17. WriterInv'
  <2> SUFFICES ASSUME NEW w \in Writers PROVE WriterFine(w)'
    BY DEF WriterInv
  <2>1. WriterFine(w) /\ wpc[w] = "idle"
    BY Parts, <1>4 DEF WriterInv
  <2> QED
    BY Parts, <1>2, <1>9, <1>11, <2>1, WriterFineFrame DEF writerVars
<1>18. SnapInv'
  <2> SUFFICES ASSUME NEW x \in Snapshotters PROVE SnapFine(x)'
    BY DEF SnapInv
  <2>1. SnapFine(x)
    BY Parts DEF SnapInv
  <2>2. CASE x # t
    <3>1. Len(rows) \in Nat /\ Len(rows') = Len(rows) /\ Len(mem'[closed]) = Newest(closed) + 1
      BY Parts, LenProperties, <1>2, <1>9 DEF TypeOK, Newest
    <3>2. Len(rows) <= Len(rows') /\ Newest(closed) <= Len(mem'[closed])
      BY <1>5, <3>1
    <3>3. spc'[x] = spc[x] /\ ssize'[x] = ssize[x] /\ known'[x] = known[x] /\ rows' = rows
      BY Parts, <1>2, <2>2 DEF TypeOK
    <3> QED
      BY Parts, <1>9, <1>11, <2>1, <3>2, <3>3, SnapFineFrame
  <2>3. CASE x = t
    <3>1. spc'[t] \in {"idle", "calling"} /\ ssize'[t] = ssize[t] /\ known'[t] = known[t]
      BY Parts, <1>1, <1>2 DEF TypeOK
    <3>2. Newest(closed)' >= 2
      BY <1>5, <1>9 DEF Newest
    <3>3. known[t] + 1 <= seen'[t][visible_size]
      <4>1. /\ seen[t][visible_size] \in Nat /\ seen'[t][visible_size] \in Nat /\ known[t] \in Nat
            /\ seen[t][visible_size] <= seen'[t][visible_size]
        BY Parts, <1>1, <1>9, AtomicLocations DEF TypeOK, View, SeenGrows
      <4> QED
        BY <2>1, <2>3, <4>1 DEF SnapFine
    <3> QED
      BY <1>2, <2>1, <2>3, <3>1, <3>2, <3>3 DEF SnapFine
  <2> QED
    BY <2>2, <2>3
<1> QED
  BY <1>11, <1>12, <1>13, <1>14, <1>15, <1>16, <1>17, <1>18 DEF IInv

\* A store, with what it releases.
LEMMA StoreFacts ==
  ASSUME TypeOK, BoundedInv, NEW t \in Threads, NEW l \in Location, NEW val \in Val,
         NEW view \in View, Store(t, l, val, view),
         \A k \in Location : view[k] <= Relaxed(t, l, Newest(l) + 1)[k]
  PROVE  /\ mem' \in [Location -> Seq(Msg)] /\ \A k \in Location : k # l => mem'[k] = mem[k]
         /\ Len(mem'[l]) = Newest(l) + 1
         /\ \A i \in 1..Newest(l) : mem'[l][i] = mem[l][i]
         /\ mem'[l][Newest(l) + 1].val = val /\ mem'[l][Newest(l) + 1].view = view
         /\ seen' \in [Threads -> View] /\ SeenGrows
         /\ seen'[t][l] = Newest(l) + 1 /\ \A k \in Location : k # l => seen'[t][k] = seen[t][k]
         /\ chunksSeen' = chunksSeen /\ callerSeen' \in {callerSeen, seen'[t]} => BoundedInv'
<1> DEFINE new == Relaxed(t, l, Newest(l) + 1)
<1>1. seen[t] \in View /\ Within(seen[t]) /\ Newest(l) \in Nat
  BY MemoryTyped DEF TypeOK, BoundedInv
<1>2. new = [seen[t] EXCEPT ![l] = Newest(l) + 1]
  BY DEF Relaxed
<1>3. new \in View /\ new[l] = Newest(l) + 1 /\ \A k \in Location : k # l => new[k] = seen[t][k]
  BY <1>1, <1>2 DEF View
<1>4. \A k \in Location : /\ seen[t][k] <= new[k] /\ view[k] <= new[k]
                          /\ k # l => new[k] <= Newest(k)
  <2> SUFFICES ASSUME NEW k \in Location
               PROVE  seen[t][k] <= new[k] /\ (k # l => new[k] <= Newest(k))
    OBVIOUS
  <2>1. seen[t][k] \in Nat /\ seen[t][k] <= Newest(k)
    BY <1>1 DEF View, Within
  <2> HIDE DEF new
  <2> QED
    BY <1>1, <1>3, <2>1
<1>5. Writes(t, l, val, view, new)
  BY <1>3, <1>4 DEF Store, Writes
<1> HIDE DEF new
<1>6. /\ mem' \in [Location -> Seq(Msg)] /\ \A k \in Location : k # l => mem'[k] = mem[k]
      /\ Len(mem'[l]) = Newest(l) + 1
      /\ \A i \in 1..Newest(l) : mem'[l][i] = mem[l][i]
      /\ mem'[l][Newest(l) + 1].val = val /\ mem'[l][Newest(l) + 1].view = view
      /\ seen' \in [Threads -> View] /\ seen'[t] = new /\ SeenGrows
      /\ chunksSeen' = chunksSeen /\ callerSeen' \in {callerSeen, new} => BoundedInv'
  BY <1>3, <1>5, WriteFacts
<1> QED
  BY <1>3, <1>6

\* The append under way is at the end of the rows, and its row has a place.
LEMMA AppendsAtEnd ==
  ASSUME IInv, NEW w \in Writers, wpc[w] \in Indexed
  PROVE  /\ windex[w] = Len(rows) /\ Len(rows) \in Nat /\ Len(rows) < MaxRows
         /\ Newest(closed) = 1 /\ callerLock = w /\ w \in Threads
         /\ ChunkOf(Len(rows)) \in Nat /\ BitOf(Len(rows)) \in Bits /\ BitOf(Len(rows)) \in Nat
         /\ Slot(Len(rows)) \in Location /\ Slot(Len(rows)) \notin Atomics
         /\ Word(Len(rows)) \in Location /\ Word(Len(rows)) \notin Atomics
<1>1. /\ windex[w] = Len(rows) /\ Len(rows) \in Nat /\ Len(rows) < MaxRows
      /\ Newest(closed) = 1 /\ callerLock = w /\ w \in Threads
  BY Parts, Nobody, OnlyWriter, LenProperties
     DEF WriterInv, WriterFine, Open, Indexed, Late, TypeOK
<1>2. /\ ChunkOf(Len(rows)) \in Nat /\ BitOf(Len(rows)) \in Bits
      /\ Slot(Len(rows)) \in Location /\ Word(Len(rows)) \in Location
  BY <1>1, RowsHavePlaces, Placement
<1>3. BitOf(Len(rows)) \in Nat
  BY <1>2, GeometryAssumption DEF Bits
<1>4. Slot(Len(rows)) \notin Atomics /\ Word(Len(rows)) \notin Atomics
  BY <1>1, PlacesApart
<1> QED
  BY <1>1, <1>2, <1>3, <1>4

\* How far the only append is, before a step of it and after.
LEMMA UnderWay ==
  ASSUME IInv, NEW w \in Writers, wpc[w] # "idle", NEW to \in {"idle"} \cup Appending,
         wpc' = [wpc EXCEPT ![w] = to]
  PROVE  /\ HasSlot <=> wpc[w] \in Late
         /\ HasValue <=> wpc[w] \in {"valued", "written"}
         /\ HasBit <=> wpc[w] = "written"
         /\ HasSlot' <=> to \in Late
         /\ HasValue' <=> to \in {"valued", "written"}
         /\ HasBit' <=> to = "written"
         /\ wpc'[w] = to /\ \A x \in Writers : x # w => wpc[x] = "idle" /\ wpc'[x] = wpc[x]
         /\ wpc' \in [Writers -> {"idle"} \cup Appending]
<1>1. \A x \in Writers : x # w => wpc[x] = "idle"
  BY OnlyWriter
<1>2. /\ wpc' \in [Writers -> {"idle"} \cup Appending] /\ wpc'[w] = to
      /\ \A x \in Writers : x # w => wpc'[x] = wpc[x]
  BY Parts DEF TypeOK
<1>3. /\ HasSlot <=> wpc[w] \in Late
      /\ HasValue <=> wpc[w] \in {"valued", "written"}
      /\ HasBit <=> wpc[w] = "written"
  BY <1>1 DEF HasSlot, HasValue, HasBit, Late
<1>4. /\ HasSlot' <=> to \in Late
      /\ HasValue' <=> to \in {"valued", "written"}
      /\ HasBit' <=> to = "written"
  BY <1>1, <1>2 DEF HasSlot, HasValue, HasBit, Late
<1> QED
  BY <1>1, <1>2, <1>3, <1>4

\* A step of an append that writes, once the memory and the writer are known to be right.
LEMMA WriterWrites ==
  ASSUME IInv, NEW w \in Writers, wpc[w] \in Indexed, NEW to \in Late,
         wpc' = [wpc EXCEPT ![w] = to],
         UNCHANGED <<snapVars, callerVars, wrow, windex, rows, answered>>,
         mem' \in [Location -> Seq(Msg)], \A l \in Atomics : mem'[l] = mem[l],
         chunkCount' \in Nat, chunksSeen' \in View,
         seen' \in [Threads -> View], SeenGrows,
         MemoryInv', BoundedInv',
         wpc'[w] = to /\ Newest(closed)' = 1 => WriterFine(w)'
  PROVE  IInv'
<1>1. /\ w \in Threads /\ callerLock = w /\ wpc[w] # "idle" /\ to # "idle"
      /\ Newest(closed) = 1 /\ to \in Appending
  BY AppendsAtEnd DEF Indexed, Late, Appending, Open
<1>2. /\ wpc'[w] = to /\ \A x \in Writers : x # w => wpc[x] = "idle" /\ wpc'[x] = wpc[x]
      /\ wpc' \in [Writers -> {"idle"} \cup Appending]
  BY <1>1, UnderWay
<1>3. TypeOK'
  BY Parts, <1>1, <1>2 DEF TypeOK, snapVars, callerVars
<1>4. CallerInv'
  BY Parts, <1>1, <1>2 DEF CallerInv, snapVars, callerVars
<1>5. ClosedInv'
  BY Parts DEF ClosedInv, Newest, Atomics
<1>6. CurrentInv'
  <2>1. \A l \in Atomics : Newest(l)' = Newest(l)
    BY DEF Newest
  <2>2. Current(seen[w])'
    BY <1>1, <2>1, StillCurrent
  <2> QED
    BY <1>1, <2>2, HeldViews
<1>7. WriterFine(w)'
  BY <1>1, <1>2 DEF Newest, Atomics
<1>8. WriterInv' /\ SnapInv'
  <2>1. Len(rows) <= Len(rows') /\ rows' = rows
    BY Parts, LenProperties DEF TypeOK
  <2>2. mem'[closed] = mem[closed]
    BY DEF Atomics
  <2> QED
    BY <1>2, <1>3, <1>7, <2>1, <2>2, WriterOthers
<1> QED
  BY <1>3, <1>4, <1>5, <1>6, <1>8 DEF IInv

LEMMA WriteValueInv ==
  ASSUME IInv, NEW w \in Writers, WriteValue(w)
  PROVE  IInv'
<1> DEFINE n == Len(rows)
           val == IF wrow[w] = Null THEN Placeholder ELSE wrow[w]
           l == Slot(n)
<1>1. /\ wpc[w] = "slot" /\ wpc' = [wpc EXCEPT ![w] = "valued"]
      /\ Store(w, Slot(windex[w]), val, Nothing)
      /\ UNCHANGED <<snapVars, chunkCount, chunksSeen, callerVars, wrow, windex, rows, answered>>
  BY DEF WriteValue, WriterStep
<1>2. wpc[w] \in Late /\ wpc[w] \in Indexed /\ wpc[w] # "idle" /\ "valued" \in Late
      /\ "valued" \in Appending
  BY <1>1 DEF Late, Indexed, Appending, Open
<1>3. /\ windex[w] = n /\ n \in Nat /\ n < MaxRows /\ Newest(closed) = 1 /\ w \in Threads
      /\ l \in Location /\ l \notin Atomics /\ callerLock = w
  BY <1>2, AppendsAtEnd
<1>4. /\ HasSlot /\ ~HasValue /\ ~HasBit /\ HasSlot' /\ HasValue' /\ ~HasBit'
  BY <1>1, <1>2, UnderWay
<1>5. /\ CountWith(HasSlot) = n + 1 /\ CountWith(HasSlot)' = n + 1
      /\ CountWith(HasValue) = n /\ CountWith(HasValue)' = n + 1
      /\ CountWith(HasBit) = n /\ CountWith(HasBit)' = n
  BY <1>1, <1>3, <1>4 DEF CountWith
<1>6. /\ chunkCount = NeededChunks(n + 1) /\ chunkCount \in Nat /\ ChunkOf(n) <= chunkCount
      /\ chunkCount <= NeededChunks(MaxRows)
  BY Parts, <1>3, <1>5, NextRowsChunk, Placement DEF ChunkInv, TypeOK
<1>7. Newest(l) = 1
  BY Parts, <1>3, <1>5, <1>6 DEF SlotInv
<1>8. val \in Val /\ Nothing \in View /\ \A k \in Location : Nothing[k] = 0
  <2>1. wrow[w] \in Row
    BY Parts, <1>2 DEF TypeOK
  <2> QED
    BY <2>1 DEF Val, Row, Nothing, View
<1> HIDE DEF val, n, l
<1>9. /\ mem' \in [Location -> Seq(Msg)] /\ \A k \in Location : k # l => mem'[k] = mem[k]
      /\ Len(mem'[l]) = 2 /\ mem'[l][2].val = val
      /\ seen' \in [Threads -> View] /\ SeenGrows /\ seen'[w][l] = 2 /\ BoundedInv'
  <2>1. Store(w, l, val, Nothing)
    BY <1>1, <1>3 DEF l
  <2>2. \A k \in Location : Nothing[k] <= Relaxed(w, l, Newest(l) + 1)[k]
    <3>1. Relaxed(w, l, Newest(l) + 1) \in View
      BY Parts, <1>3, <1>7 DEF Relaxed, TypeOK, View
    <3> QED
      BY <1>8, <3>1 DEF View
  <2>3. /\ mem' \in [Location -> Seq(Msg)] /\ \A k \in Location : k # l => mem'[k] = mem[k]
        /\ Len(mem'[l]) = Newest(l) + 1 /\ mem'[l][Newest(l) + 1].val = val
        /\ seen' \in [Threads -> View] /\ SeenGrows /\ seen'[w][l] = Newest(l) + 1
        /\ chunksSeen' = chunksSeen /\ callerSeen' \in {callerSeen, seen'[w]} => BoundedInv'
    BY Parts, <1>3, <1>8, <2>1, <2>2, StoreFacts
  <2> QED
    BY <1>1, <1>7, <2>3 DEF callerVars
<1>10. ASSUME NEW o \in Nat, ChunkOf(o) <= chunkCount
       PROVE  mem'[Word(o)] = mem[Word(o)] /\ (o # n => mem'[Slot(o)] = mem[Slot(o)])
  <2>1. Slot(o) \in Location /\ Word(o) \in Location
    <3>1. ChunkOf(o) <= NeededChunks(MaxRows)
      BY <1>6, <1>10, Placement, ChunksNeeded, ThreadsAssumption
    <3> QED
      BY <3>1, PlacesExist
  <2>2. Word(o) # l /\ (o # n => Slot(o) # l)
    BY <1>3, PlacesApart DEF l
  <2> QED
    BY <1>9, <2>1, <2>2
<1>11. ChunkInv'
  <2>1. ASSUME NEW c \in Nat, NEW k \in Location, c > chunkCount, k \in ChunkLocations(c)
        PROVE  mem'[k] = << >>
    <3>1. k # l
      BY <1>3, <1>6, <2>1, PlacesInChunk, Placement DEF l
    <3> QED
      BY Parts, <1>9, <2>1, <3>1 DEF ChunkInv
  <2> QED
    BY Parts, <1>1, <1>5, <2>1 DEF ChunkInv, n
<1>12. SlotInv'
  <2> SUFFICES ASSUME NEW o \in Nat, ChunkOf(o) <= chunkCount
               PROVE  Len(mem'[Slot(o)]) = IF o < n + 1 THEN 2 ELSE 1
    BY <1>1, <1>5 DEF SlotInv, Newest
  <2>1. CASE o = n
    BY <1>3, <1>9, <2>1 DEF l
  <2>2. CASE o # n
    BY Parts, <1>3, <1>5, <1>10, <2>2 DEF SlotInv, Newest
  <2> QED
    BY <2>1, <2>2
<1>13. WordInv'
  BY Parts, <1>1, <1>5, <1>10 DEF WordInv, Newest
<1>14. RowsInv'
  <2> SUFFICES ASSUME NEW o \in 0..(Len(rows) - 1)
               PROVE  (SlotHolds(o, rows[o + 1]) /\ WordHolds(o, rows[o + 1]))'
    BY <1>1 DEF RowsInv
  <2>1. o \in Nat /\ ChunkOf(o) <= chunkCount /\ o # n
    BY Parts, <1>3, RowAllocated DEF n
  <2> QED
    BY Parts, <1>1, <1>10, <2>1 DEF RowsInv, SlotHolds, WordHolds, Newest
<1>15. SizeInv'
  <2>1. mem'[visible_size] = mem[visible_size]
    BY <1>3, <1>9, AtomicLocations DEF Atomics
  <2> QED
    BY Parts, <1>1, <2>1 DEF SizeInv, Newest, Covers
<1>16. WriterFine(w)'
  <2>1. wpc'[w] = "valued" /\ wrow'[w] = wrow[w] /\ windex'[w] = n /\ rows' = rows
    BY <1>1, <1>2, <1>3, UnderWay
  <2>2. mem'[closed] = mem[closed]
    BY <1>3, <1>9, AtomicLocations DEF Atomics
  <2>3. answered'[w] + 1 <= seen'[w][visible_size]
    BY <1>1, <1>9, AnsweredKept
  <2>4. seen'[w][Slot(n)] >= Len(mem'[Slot(n)])
    BY <1>9 DEF l
  <2>5. mem'[Slot(n)][2].val = IF wrow[w] = Null THEN Placeholder ELSE wrow[w]
    BY <1>9 DEF l, val
  <2> QED
    BY <1>3, <2>1, <2>2, <2>3, <2>4, <2>5 DEF WriterFine, Newest, n, SlotHolds
<1> QED
  <2>1. MemoryInv'
    BY <1>11, <1>12, <1>13, <1>14, <1>15 DEF MemoryInv
  <2>2. \A k \in Atomics : mem'[k] = mem[k]
    BY <1>3, <1>9, AtomicLocations
  <2>3. chunkCount' \in Nat /\ chunksSeen' \in View
    BY Parts, <1>1 DEF TypeOK
  <2> QED
    BY <1>1, <1>2, <1>9, <1>16, <2>1, <2>2, <2>3, WriterWrites

\* The bits of a word are written in the order of the rows, so the messages before the
\* row's are those of the rows before it.
LEMMA WordBefore ==
  ASSUME IInv, NEW w \in Writers, wpc[w] = "valued"
  PROVE  Newest(Word(Len(rows))) = BitOf(Len(rows)) + 1
<1> DEFINE n == Len(rows)
           word == Word(n)
<1>1. /\ n \in Nat /\ BitOf(n) \in Nat /\ word \in Location /\ wpc[w] # "idle"
      /\ "valued" \in Appending /\ wpc[w] \in Late
  BY AppendsAtEnd DEF Indexed, Late, Appending, Open
<1>2. HasSlot /\ ~HasBit
  <2>1. \A x \in Writers : x # w => wpc[x] = "idle"
    BY <1>1, OnlyWriter
  <2> QED
    BY <1>1, <2>1 DEF HasSlot, HasBit
<1>3. CountWith(HasSlot) = n + 1 /\ CountWith(HasBit) = n
  BY <1>1, <1>2 DEF CountWith
<1>4. chunkCount = NeededChunks(n + 1) /\ ChunkOf(n) <= chunkCount
  BY Parts, <1>1, <1>3, NextRowsChunk, Placement DEF ChunkInv
<1>5. Newest(word) \in Nat
  BY Parts, <1>1, MemoryTyped
<1> HIDE DEF n
<1>6. Newest(word) >= 1 /\ Newest(word) <= BitOf(n) + 1
  BY Parts, <1>1, <1>3, <1>4 DEF WordInv
<1>7. CASE BitOf(n) = 0
  BY <1>5, <1>6, <1>7 DEF n
<1>8. CASE BitOf(n) # 0
  <2>1. /\ n > 0 /\ ChunkOf(n - 1) = ChunkOf(n) /\ WordOf(n - 1) = WordOf(n)
        /\ BitOf(n - 1) = BitOf(n) - 1
    BY <1>1, <1>8, WordPrevious
  <2>2. n - 1 \in Nat /\ n - 1 < n
    BY <1>1, <2>1
  <2>3. Word(n - 1) = word
    BY <2>1 DEF Word
  <2>4. Newest(Word(n - 1)) >= BitOf(n - 1) + 2
    BY Parts, <1>3, <1>4, <2>1, <2>2 DEF WordInv
  <2>5. Newest(word) >= BitOf(n) + 1
    BY <1>1, <2>1, <2>3, <2>4
  <2> QED
    BY <1>1, <1>5, <1>6, <2>5 DEF n
<1> QED
  BY <1>7, <1>8

LEMMA WriteValidityInv ==
  ASSUME IInv, NEW w \in Writers, WriteValidity(w)
  PROVE  IInv'
<1> DEFINE n == Len(rows)
           b == BitOf(n)
           l == Word(n)
           old == mem[l][Newest(l)].val
           val == WithBit(old, b, wrow[w] # Null)
<1>1. /\ wpc[w] = "valued" /\ wpc' = [wpc EXCEPT ![w] = "written"]
      /\ Store(w, Word(windex[w]),
               WithBit(mem[Word(windex[w])][Newest(Word(windex[w]))].val, BitOf(windex[w]),
                       wrow[w] # Null), Nothing)
      /\ UNCHANGED <<snapVars, chunkCount, chunksSeen, callerVars, wrow, windex, rows, answered>>
  BY DEF WriteValidity, WriterStep
<1>2. wpc[w] \in Late /\ wpc[w] \in Indexed /\ wpc[w] # "idle" /\ "written" \in Late
      /\ "written" \in Appending
  BY <1>1 DEF Late, Indexed, Appending, Open
<1>3. /\ windex[w] = n /\ n \in Nat /\ n < MaxRows /\ Newest(closed) = 1 /\ w \in Threads
      /\ l \in Location /\ l \notin Atomics /\ callerLock = w /\ b \in Nat /\ b \in Bits
  BY <1>2, AppendsAtEnd
<1>4. /\ HasSlot /\ HasValue /\ ~HasBit /\ HasSlot' /\ HasValue' /\ HasBit'
  BY <1>1, <1>2, UnderWay
<1>5. /\ CountWith(HasSlot) = n + 1 /\ CountWith(HasSlot)' = n + 1
      /\ CountWith(HasValue) = n + 1 /\ CountWith(HasValue)' = n + 1
      /\ CountWith(HasBit) = n /\ CountWith(HasBit)' = n + 1
  BY <1>1, <1>3, <1>4 DEF CountWith
<1>6. /\ chunkCount = NeededChunks(n + 1) /\ chunkCount \in Nat /\ ChunkOf(n) <= chunkCount
      /\ chunkCount <= NeededChunks(MaxRows)
  BY Parts, <1>3, <1>5, NextRowsChunk, Placement DEF ChunkInv, TypeOK
<1>7. Newest(l) = b + 1
  BY <1>1, WordBefore
<1>8. old \in SUBSET Bits
  <2>1. \A i \in 1..Newest(Word(n)) : mem[Word(n)][i].val \in SUBSET Bits
    BY Parts, <1>3, <1>6 DEF WordInv
  <2>2. Newest(l) \in 1..Newest(l)
    BY <1>3, <1>7
  <2> QED
    BY <2>1, <2>2
<1>9. /\ val \in SUBSET Bits /\ val \in Val
      /\ b \in val <=> wrow[w] # Null
      /\ \A a \in Nat : a # b => (a \in val <=> a \in old)
  <2>1. val = IF wrow[w] # Null THEN old \cup {b} ELSE old \ {b}
    BY DEF WithBit
  <2> QED
    BY <1>3, <1>8, <2>1 DEF Val
<1>10. Store(w, l, val, Nothing)
  BY <1>1, <1>3
<1> HIDE DEF val, old, n, l, b
<1>11. /\ mem' \in [Location -> Seq(Msg)] /\ \A k \in Location : k # l => mem'[k] = mem[k]
       /\ Len(mem'[l]) = b + 2 /\ mem'[l][b + 2].val = val
       /\ \A i \in 1..(b + 1) : mem'[l][i] = mem[l][i]
       /\ seen' \in [Threads -> View] /\ SeenGrows /\ seen'[w][l] = b + 2 /\ BoundedInv'
  <2>1. Nothing \in View /\ \A k \in Location : Nothing[k] = 0
    BY DEF Nothing, View
  <2>2. \A k \in Location : Nothing[k] <= Relaxed(w, l, Newest(l) + 1)[k]
    <3>1. Relaxed(w, l, Newest(l) + 1) \in View
      BY Parts, <1>3, <1>7 DEF Relaxed, TypeOK, View
    <3> QED
      BY <2>1, <3>1 DEF View
  <2>3. /\ mem' \in [Location -> Seq(Msg)] /\ \A k \in Location : k # l => mem'[k] = mem[k]
        /\ Len(mem'[l]) = Newest(l) + 1 /\ mem'[l][Newest(l) + 1].val = val
        /\ \A i \in 1..Newest(l) : mem'[l][i] = mem[l][i]
        /\ seen' \in [Threads -> View] /\ SeenGrows /\ seen'[w][l] = Newest(l) + 1
        /\ chunksSeen' = chunksSeen /\ callerSeen' \in {callerSeen, seen'[w]} => BoundedInv'
    BY Parts, <1>3, <1>9, <1>10, <2>1, <2>2, StoreFacts
  <2>4. Newest(l) + 1 = b + 2
    BY <1>3, <1>7
  <2> QED
    BY <1>1, <1>7, <2>3, <2>4 DEF callerVars
<1>12. ASSUME NEW o \in Nat, ChunkOf(o) <= chunkCount
       PROVE  /\ mem'[Slot(o)] = mem[Slot(o)]
              /\ Word(o) # l => mem'[Word(o)] = mem[Word(o)]
              /\ Word(o) = l => /\ o < n => BitOf(o) < b
                                /\ o > n => BitOf(o) > b
              /\ BitOf(o) \in Nat
  <2>1. Slot(o) \in Location /\ Word(o) \in Location /\ BitOf(o) \in Nat
    <3>1. ChunkOf(o) <= NeededChunks(MaxRows)
      BY <1>6, <1>12, Placement, ChunksNeeded, ThreadsAssumption
    <3> QED
      BY <3>1, PlacesExist, Placement, GeometryAssumption DEF Bits
  <2>2. Slot(o) # l
    BY <1>3, PlacesApart DEF l
  <2>3. ASSUME Word(o) = l PROVE (o < n => BitOf(o) < b) /\ (o > n => BitOf(o) > b)
    <3>1. ChunkOf(o) = ChunkOf(n) /\ WordOf(o) = WordOf(n)
      BY <1>3, <2>3, PlacesApart DEF l
    <3>2. (o < n => BitOf(o) < BitOf(n)) /\ (n < o => BitOf(n) < BitOf(o))
      BY <1>3, <3>1, WordOrder
    <3> QED
      BY <1>3, <2>1, <3>2 DEF b
  <2> QED
    BY <1>11, <2>1, <2>2, <2>3
<1>13. ChunkInv'
  <2>1. ASSUME NEW c \in Nat, NEW k \in Location, c > chunkCount, k \in ChunkLocations(c)
        PROVE  mem'[k] = << >>
    <3>1. k # l
      BY <1>3, <1>6, <2>1, PlacesInChunk, Placement DEF l
    <3> QED
      BY Parts, <1>11, <2>1, <3>1 DEF ChunkInv
  <2> QED
    BY Parts, <1>1, <1>5, <2>1 DEF ChunkInv, n
<1>14. SlotInv'
  BY Parts, <1>1, <1>5, <1>12 DEF SlotInv, Newest
<1>15. WordInv'
  <2> SUFFICES ASSUME NEW o \in Nat, ChunkOf(o) <= chunkCount
               PROVE  /\ Len(mem'[Word(o)]) >= 1
                      /\ o < n + 1 => Len(mem'[Word(o)]) >= BitOf(o) + 2
                      /\ o >= n + 1 => Len(mem'[Word(o)]) <= BitOf(o) + 1
                      /\ \A i \in 1..Len(mem'[Word(o)]) : mem'[Word(o)][i].val \in SUBSET Bits
    BY <1>1, <1>5 DEF WordInv, Newest
  <2>1. /\ Newest(Word(o)) >= 1
        /\ o < n => Newest(Word(o)) >= BitOf(o) + 2
        /\ o >= n => Newest(Word(o)) <= BitOf(o) + 1
        /\ \A i \in 1..Newest(Word(o)) : mem[Word(o)][i].val \in SUBSET Bits
    BY Parts, <1>5 DEF WordInv
  <2>2. CASE Word(o) # l
    <3>1. mem'[Word(o)] = mem[Word(o)] /\ o # n
      BY <1>12, <2>2 DEF l
    <3>2. (o < n + 1 => o < n) /\ (o >= n + 1 => o >= n)
      BY <1>3, <3>1
    <3> QED
      BY <2>1, <3>1, <3>2 DEF Newest
  <2>3. CASE Word(o) = l
    <3>1. (o < n => BitOf(o) < b) /\ (o > n => BitOf(o) > b) /\ (o = n => BitOf(o) = b)
          /\ BitOf(o) \in Nat
      BY <1>12, <2>3 DEF b
    <3>2. Len(mem'[l]) = b + 2
      BY <1>11
    <3>3. /\ b + 2 >= 1 /\ (o < n + 1 => b + 2 >= BitOf(o) + 2)
          /\ (o >= n + 1 => b + 2 <= BitOf(o) + 1)
      BY <1>3, <3>1
    <3>4. ASSUME NEW i \in 1..(b + 2) PROVE mem'[l][i].val \in SUBSET Bits
      <4>1. CASE i = b + 2
        BY <1>9, <1>11, <4>1
      <4>2. CASE i # b + 2
        <5>1. i \in 1..(b + 1)
          BY <1>3, <4>2
        <5> QED
          BY <1>7, <1>11, <2>1, <2>3, <5>1
      <4> QED
        BY <4>1, <4>2
    <3> QED
      BY <2>3, <3>2, <3>3, <3>4
  <2> QED
    BY <2>2, <2>3
<1>16. RowsInv'
  <2> SUFFICES ASSUME NEW o \in 0..(Len(rows) - 1)
               PROVE  (SlotHolds(o, rows[o + 1]) /\ WordHolds(o, rows[o + 1]))'
    BY <1>1 DEF RowsInv
  <2>1. o \in Nat /\ ChunkOf(o) <= chunkCount /\ o < n
    BY Parts, <1>3, RowAllocated DEF n
  <2>2. SlotHolds(o, rows[o + 1])'
    BY Parts, <1>1, <1>12, <2>1 DEF RowsInv, SlotHolds
  <2>3. CASE Word(o) # l
    BY Parts, <1>1, <1>12, <2>1, <2>2, <2>3 DEF RowsInv, WordHolds, Newest
  <2>4. CASE Word(o) = l
    <3>1. BitOf(o) < b /\ BitOf(o) \in Nat
      BY <1>12, <2>1, <2>4
    <3>2. \A i \in (BitOf(o) + 2)..(b + 1) : BitOf(o) \in mem[l][i].val <=> rows[o + 1] # Null
      BY Parts, <1>7, <2>4 DEF RowsInv, WordHolds
    <3>3. BitOf(o) \in old <=> rows[o + 1] # Null
      <4>1. b + 1 \in (BitOf(o) + 2)..(b + 1)
        BY <1>3, <3>1
      <4> QED
        BY <1>7, <3>2, <4>1 DEF old
    <3>4. ASSUME NEW i \in (BitOf(o) + 2)..(b + 2)
          PROVE  BitOf(o) \in mem'[l][i].val <=> rows[o + 1] # Null
      <4>1. CASE i = b + 2
        BY <1>3, <1>9, <1>11, <3>1, <3>3, <4>1
      <4>2. CASE i # b + 2
        <5>1. i \in 1..(b + 1) /\ i \in (BitOf(o) + 2)..(b + 1)
          BY <1>3, <3>1, <4>2
        <5> QED
          BY <1>11, <3>2, <5>1
      <4> QED
        BY <4>1, <4>2
    <3>5. WordHolds(o, rows[o + 1])'
      BY <1>1, <1>11, <2>4, <3>4 DEF WordHolds, Newest
    <3> QED
      BY <2>2, <3>5
  <2> QED
    BY <2>3, <2>4
<1>17. SizeInv'
  <2>1. mem'[visible_size] = mem[visible_size]
    BY <1>3, <1>11, AtomicLocations DEF Atomics
  <2> QED
    BY Parts, <1>1, <2>1 DEF SizeInv, Newest, Covers
<1>18. WriterFine(w)'
  <2>1. wpc'[w] = "written" /\ wrow'[w] = wrow[w] /\ windex'[w] = n /\ rows' = rows
    BY <1>1, <1>2, <1>3, UnderWay
  <2>2. mem'[closed] = mem[closed]
    BY <1>3, <1>11, AtomicLocations DEF Atomics
  <2>3. answered'[w] + 1 <= seen'[w][visible_size]
    BY <1>1, <1>11, AnsweredKept
  <2>4. mem'[Slot(n)] = mem[Slot(n)] /\ Slot(n) \in Location
    BY <1>2, <1>3, <1>6, <1>12, AppendsAtEnd DEF n
  <2>5. WriterFine(w)
    BY Parts DEF WriterInv
  <2>6. seen'[w][Slot(n)] >= Len(mem'[Slot(n)])
    <3>1. seen[w][Slot(n)] >= Newest(Slot(n))
      BY <1>2, <1>3, <2>5 DEF WriterFine
    <3>2. /\ Newest(Slot(n)) \in Nat /\ seen[w][Slot(n)] \in Nat /\ seen'[w][Slot(n)] \in Nat
          /\ seen[w][Slot(n)] <= seen'[w][Slot(n)]
      BY Parts, <1>3, <1>11, <2>4, MemoryTyped DEF TypeOK, View, SeenGrows
    <3> QED
      BY <2>4, <3>1, <3>2 DEF Newest
  <2>7. mem'[Slot(n)][2].val = IF wrow[w] = Null THEN Placeholder ELSE wrow[w]
    BY <1>1, <1>3, <2>4, <2>5 DEF WriterFine, SlotHolds
  <2>8. seen'[w][Word(n)] >= BitOf(n) + 2
    BY <1>3, <1>11 DEF l, b
  <2>9. \A i \in (BitOf(n) + 2)..Len(mem'[Word(n)]) :
          BitOf(n) \in mem'[Word(n)][i].val <=> wrow[w] # Null
    <3>1. \A i \in (b + 2)..(b + 2) : i = b + 2
      BY <1>3
    <3>2. \A i \in (b + 2)..(b + 2) : b \in mem'[l][i].val <=> wrow[w] # Null
      BY <1>9, <1>11, <3>1
    <3> QED
      BY <1>11, <3>2 DEF l, b
  <2> QED
    BY <1>3, <2>1, <2>2, <2>3, <2>6, <2>7, <2>8, <2>9
       DEF WriterFine, Newest, n, SlotHolds, WordHolds
<1> QED
  <2>1. MemoryInv'
    BY <1>13, <1>14, <1>15, <1>16, <1>17 DEF MemoryInv
  <2>2. \A k \in Atomics : mem'[k] = mem[k]
    BY <1>3, <1>11, AtomicLocations
  <2>3. chunkCount' \in Nat /\ chunksSeen' \in View
    BY Parts, <1>1 DEF TypeOK
  <2> QED
    BY <1>1, <1>2, <1>11, <1>18, <2>1, <2>2, <2>3, WriterWrites

LEMMA ChunksApart ==
  ASSUME NEW c \in Nat, NEW d \in Nat, NEW k \in ChunkLocations(c), k \in ChunkLocations(d)
  PROVE  c = d
BY LocationsApart DEF ChunkLocations

LEMMA ProvideChunkInv ==
  ASSUME IInv, NEW w \in Writers, ProvideChunk(w)
  PROVE  IInv'
<1> DEFINE n == Len(rows)
           joined == Join(seen[w], chunksSeen)
           isNew == ChunkOf(n) = chunkCount + 1
           fresh == IF isNew THEN ChunkLocations(chunkCount + 1) ELSE {}
           first(k) == Message(IF k[1] = "value" THEN Placeholder ELSE {}, Nothing)
           after == [k \in Location |-> IF k \in fresh THEN 1 ELSE joined[k]]
<1>1. /\ wpc[w] = "indexed" /\ wpc' = [wpc EXCEPT ![w] = "slot"]
      /\ UNCHANGED <<snapVars, callerVars, wrow, windex, rows, answered>>
  BY DEF ProvideChunk, WriterStep
<1>2. wpc[w] \in Indexed /\ wpc[w] # "idle" /\ wpc[w] \notin Late /\ "slot" \in Late
      /\ "slot" \in Appending
  BY <1>1 DEF Late, Indexed, Appending, Open
<1>3. /\ windex[w] = n /\ n \in Nat /\ n < MaxRows /\ Newest(closed) = 1 /\ w \in Threads
      /\ Slot(n) \in Location /\ callerLock = w /\ ChunkOf(n) \in Nat
  BY <1>2, AppendsAtEnd
<1>4. /\ mem' = [k \in Location |-> IF k \in fresh THEN << first(k) >> ELSE mem[k]]
      /\ seen' = [seen EXCEPT ![w] = after]
      /\ chunksSeen' = seen'[w]
      /\ chunkCount' = IF isNew THEN chunkCount + 1 ELSE chunkCount
  BY <1>3 DEF ProvideChunk
<1>5. /\ ~HasSlot /\ ~HasValue /\ ~HasBit /\ HasSlot' /\ ~HasValue' /\ ~HasBit'
  BY <1>1, <1>2, UnderWay
<1>6. /\ CountWith(HasSlot) = n /\ CountWith(HasSlot)' = n + 1
      /\ CountWith(HasValue) = n /\ CountWith(HasValue)' = n
      /\ CountWith(HasBit) = n /\ CountWith(HasBit)' = n
  BY <1>1, <1>3, <1>5 DEF CountWith
<1>7. /\ chunkCount = NeededChunks(n) /\ chunkCount \in Nat /\ chunkCount' \in Nat
      /\ chunkCount' = NeededChunks(n + 1) /\ chunkCount' = ChunkOf(n)
      /\ chunkCount <= chunkCount' /\ chunkCount' <= NeededChunks(MaxRows)
  <2>1. chunkCount = NeededChunks(n) /\ chunkCount \in Nat
    BY Parts, <1>6 DEF ChunkInv, TypeOK
  <2>2. ChunkOf(n) <= NeededChunks(n) + 1 /\ NeededChunks(n + 1) = ChunkOf(n)
    BY <1>3, NextRowsChunk
  <2>3. NeededChunks(n) <= ChunkOf(n)
    <3>1. n \div ChunkCapacity \in Nat
      BY <1>3, Division, GeometryAssumption
    <3> DEFINE q == n \div ChunkCapacity
    <3>2. ChunkOf(n) = q + 1 /\ (NeededChunks(n) = q \/ NeededChunks(n) = q + 1)
      BY <1>3, <3>1 DEF NeededChunks, ChunkOf
    <3> HIDE DEF q
    <3>3. q \in Nat
      BY <3>1 DEF q
    <3> QED
      BY <3>2, <3>3
  <2>4. ChunkOf(n) <= NeededChunks(MaxRows)
    BY <1>3, RowsHavePlaces
  <2>5. chunkCount' = ChunkOf(n) /\ chunkCount <= ChunkOf(n)
    BY <1>3, <1>4, <2>1, <2>2, <2>3
  <2> QED
    BY <1>3, <2>1, <2>2, <2>4, <2>5
<1>8. ASSUME NEW k \in Location, k \in fresh
      PROVE  /\ isNew /\ k \in ChunkLocations(chunkCount') /\ k \notin Atomics /\ mem[k] = << >>
             /\ chunkCount' = chunkCount + 1
  <2>1. isNew /\ k \in ChunkLocations(chunkCount + 1) /\ chunkCount' = chunkCount + 1
    BY <1>4, <1>8
  <2>2. chunkCount + 1 \in Nat /\ chunkCount + 1 > chunkCount
    BY <1>7
  <2>3. k \notin Atomics
    BY <2>1, <2>2, PlacesInChunk
  <2>4. mem[k] = << >>
    BY Parts, <2>1, <2>2 DEF ChunkInv
  <2> QED
    BY <2>1, <2>3, <2>4
<1>9. /\ joined \in View /\ Within(joined)
      /\ \A k \in Location : seen[w][k] <= joined[k] /\ chunksSeen[k] <= joined[k]
  <2>1. seen[w] \in View /\ chunksSeen \in View /\ Within(seen[w]) /\ Within(chunksSeen)
    BY Parts, <1>3 DEF TypeOK, BoundedInv
  <2> QED
    BY <2>1, JoinFacts, JoinWithin
<1> HIDE DEF joined, isNew, fresh, n
<1>10. /\ \A k \in Location : first(k) \in Msg /\ first(k).view = Nothing
       /\ \A k \in Location : first(k).val = IF k[1] = "value" THEN Placeholder ELSE {}
       /\ Nothing \in View /\ \A k \in Location : Nothing[k] = 0
  <2>1. Nothing \in View /\ \A k \in Location : Nothing[k] = 0
    BY DEF Nothing, View
  <2>2. Placeholder \in Val /\ {} \in Val
    BY DEF Val
  <2> QED
    BY <2>1, <2>2 DEF Message, Msg
<1> HIDE DEF first
<1>11. /\ mem' \in [Location -> Seq(Msg)]
       /\ \A k \in Location : k \notin fresh => mem'[k] = mem[k]
       /\ \A k \in Location : k \in fresh => /\ Len(mem'[k]) = 1 /\ mem'[k][1] = first(k)
  <2>1. \A k \in Location : mem[k] \in Seq(Msg) /\ << first(k) >> \in Seq(Msg)
    BY Parts, <1>10 DEF TypeOK
  <2>2. /\ mem' \in [Location -> Seq(Msg)]
        /\ \A k \in Location : k \notin fresh => mem'[k] = mem[k]
        /\ \A k \in Location : k \in fresh => mem'[k] = << first(k) >>
    BY <1>4, <2>1
  <2>3. \A k \in Location : Len(<< first(k) >>) = 1 /\ << first(k) >>[1] = first(k)
    OBVIOUS
  <2> QED
    BY <2>2, <2>3
<1>12. /\ after \in View
       /\ \A k \in Location : seen[w][k] <= after[k] /\ chunksSeen[k] <= after[k]
       /\ \A k \in Location : k \in fresh => after[k] = 1
  <2>1. after \in View /\ \A k \in Location : after[k] = IF k \in fresh THEN 1 ELSE joined[k]
    BY <1>9 DEF View
  <2>2. ASSUME NEW k \in Location PROVE seen[w][k] <= after[k] /\ chunksSeen[k] <= after[k]
    <3>1. CASE k \notin fresh
      BY <1>9, <2>1, <3>1
    <3>2. CASE k \in fresh
      <4>1. Newest(k) = 0
        BY <1>8, <3>2, EmptySeq DEF Newest
      <4>2. /\ seen[w][k] \in Nat /\ chunksSeen[k] \in Nat
            /\ seen[w][k] <= Newest(k) /\ chunksSeen[k] <= Newest(k)
        BY Parts, <1>3 DEF TypeOK, View, BoundedInv, Within
      <4> QED
        BY <2>1, <3>2, <4>1, <4>2
    <3> QED
      BY <3>1, <3>2
  <2> QED
    BY <2>1, <2>2
<1>13. \A k \in Location : after[k] <= Len(mem'[k])
  <2> SUFFICES ASSUME NEW k \in Location PROVE after[k] <= Len(mem'[k])
    OBVIOUS
  <2>1. CASE k \in fresh
    BY <1>11, <1>12, <2>1
  <2>2. CASE k \notin fresh
    <3>1. after[k] = joined[k]
      BY <2>2
    <3> QED
      BY <1>9, <1>11, <2>2, <3>1 DEF Within, Newest
  <2> QED
    BY <2>1, <2>2
<1> HIDE DEF after
<1>14. /\ seen' \in [Threads -> View] /\ seen'[w] = after /\ chunksSeen' = after
       /\ \A x \in Threads : x # w => seen'[x] = seen[x]
  BY Parts, <1>3, <1>4, <1>12 DEF TypeOK
<1>15. SeenGrows
  <2> SUFFICES ASSUME NEW x \in Threads, NEW k \in Location PROVE seen[x][k] <= seen'[x][k]
    BY DEF SeenGrows
  <2>1. seen[x][k] <= seen[x][k]
    BY Parts DEF TypeOK, View
  <2> QED
    BY <1>12, <1>14, <2>1
<1>16. ASSUME NEW k \in Location PROVE Newest(k) \in Nat /\ Newest(k) <= Len(mem'[k])
  <2>1. Newest(k) \in Nat
    BY Parts, MemoryTyped
  <2>2. k \in fresh => Newest(k) = 0 /\ Len(mem'[k]) = 1
    BY <1>8, <1>11, EmptySeq DEF Newest
  <2>3. k \notin fresh => Newest(k) = Len(mem'[k])
    BY <1>11 DEF Newest
  <2> QED
    BY <2>1, <2>2, <2>3
<1>17. ASSUME NEW u \in View, Within(u) PROVE \A k \in Location : u[k] <= Len(mem'[k])
  <2> SUFFICES ASSUME NEW k \in Location PROVE u[k] <= Len(mem'[k])
    OBVIOUS
  <2>1. u[k] \in Nat /\ u[k] <= Newest(k)
    BY <1>17 DEF View, Within
  <2>2. Len(mem'[k]) \in Nat
    <3>1. mem'[k] \in Seq(Msg)
      BY <1>11
    <3> QED
      BY <3>1, LenProperties
  <2> QED
    BY <1>16, <2>1, <2>2
<1>18. BoundedInv'
  <2>1. \A k \in Location : chunksSeen'[k] <= Len(mem'[k])
    BY <1>13, <1>14
  <2>2. \A k \in Location : callerSeen'[k] <= Len(mem'[k])
    BY Parts, <1>1, <1>17 DEF TypeOK, BoundedInv, callerVars
  <2>3. ASSUME NEW x \in Threads PROVE \A k \in Location : seen'[x][k] <= Len(mem'[k])
    <3>1. CASE x = w
      BY <1>13, <1>14, <3>1
    <3>2. CASE x # w
      <4>1. seen[x] \in View /\ Within(seen[x]) /\ seen'[x] = seen[x]
        BY Parts, <1>14, <3>2 DEF TypeOK, BoundedInv
      <4> QED
        BY <1>17, <4>1
    <3> QED
      BY <3>1, <3>2
  <2>4. ASSUME NEW k \in Location, NEW i \in 1..Len(mem'[k])
        PROVE  \A j \in Location : mem'[k][i].view[j] <= Len(mem'[j])
    <3>1. CASE k \in fresh
      <4>1. i = 1 /\ mem'[k][i].view = Nothing
        <5>1. Len(mem'[k]) = 1 /\ mem'[k][1] = first(k)
          BY <1>11, <3>1
        <5>2. i = 1
          BY <5>1
        <5> QED
          BY <1>10, <5>1, <5>2
      <4>2. Within(Nothing)
        BY <1>10, <1>16 DEF Within
      <4> QED
        BY <1>10, <1>17, <4>1, <4>2
    <3>2. CASE k \notin fresh
      <4>1. mem'[k] = mem[k] /\ i \in 1..Newest(k)
        BY <1>11, <3>2 DEF Newest
      <4>2. mem[k][i].view \in View /\ Within(mem[k][i].view)
        BY Parts, <4>1, MemoryTyped DEF BoundedInv
      <4> QED
        BY <1>17, <4>1, <4>2
    <3> QED
      BY <3>1, <3>2
  <2> QED
    BY <2>1, <2>2, <2>3, <2>4 DEF BoundedInv, Within, Newest
<1>19. ASSUME NEW o \in Nat, ChunkOf(o) <= chunkCount'
       PROVE  /\ Slot(o) \in Location /\ Word(o) \in Location
              /\ \/ /\ Slot(o) \in fresh /\ Word(o) \in fresh /\ o >= n
                    /\ Len(mem'[Slot(o)]) = 1 /\ Len(mem'[Word(o)]) = 1
                    /\ mem'[Word(o)][1].val = {}
                 \/ /\ Slot(o) \notin fresh /\ ChunkOf(o) <= chunkCount
                    /\ mem'[Slot(o)] = mem[Slot(o)] /\ mem'[Word(o)] = mem[Word(o)]
  <2>1. Slot(o) \in Location /\ Word(o) \in Location /\ ChunkOf(o) \in Nat
    <3>1. ChunkOf(o) <= NeededChunks(MaxRows) /\ ChunkOf(o) \in Nat
      BY <1>7, <1>19, Placement, ChunksNeeded, ThreadsAssumption
    <3> QED
      BY <3>1, PlacesExist
  <2>2. CASE isNew /\ ChunkOf(o) = chunkCount + 1
    <3>1. Slot(o) \in fresh /\ Word(o) \in fresh
      BY <1>7, <2>2, PlacesInChunk DEF fresh
    <3>2. o >= n
      <4>1. o < n => ChunkOf(o) <= chunkCount
        BY Parts, <1>3, RowAllocated DEF n
      <4> QED
        BY <1>3, <1>7, <2>2, <4>1
    <3>3. Word(o)[1] = "validity"
      BY DEF Word
    <3> QED
      BY <1>10, <1>11, <2>1, <3>1, <3>2, <3>3
  <2>3. CASE ~(isNew /\ ChunkOf(o) = chunkCount + 1)
    <3>1. ChunkOf(o) <= chunkCount
      BY <1>4, <1>7, <1>19, <2>1, <2>3
    <3>2. Slot(o) \notin fresh /\ Word(o) \notin fresh
      BY <1>7, <2>3, PlacesInChunk DEF fresh
    <3> QED
      BY <1>11, <2>1, <3>1, <3>2
  <2> QED
    BY <2>2, <2>3
<1>20. ChunkInv'
  <2>1. ASSUME NEW c \in 1..chunkCount', NEW k \in Location, k \in ChunkLocations(c)
        PROVE  chunksSeen'[k] >= 1
    <3>1. CASE k \in fresh
      BY <1>12, <1>14, <3>1
    <3>2. CASE k \notin fresh
      <4>1. c \in 1..chunkCount
        BY <1>4, <1>7, <2>1, <3>2 DEF fresh
      <4>2. chunksSeen[k] >= 1
        BY Parts, <2>1, <4>1 DEF ChunkInv
      <4>3. chunksSeen[k] \in Nat /\ chunksSeen'[k] \in Nat /\ chunksSeen[k] <= chunksSeen'[k]
        BY Parts, <1>12, <1>14 DEF TypeOK, View
      <4> QED
        BY <4>2, <4>3
    <3> QED
      BY <3>1, <3>2
  <2>2. ASSUME NEW c \in Nat, NEW k \in Location, c > chunkCount', k \in ChunkLocations(c)
        PROVE  mem'[k] = << >>
    <3>1. k \notin fresh
      <4> SUFFICES ASSUME k \in fresh PROVE FALSE
        OBVIOUS
      <4>1. k \in ChunkLocations(chunkCount')
        BY <1>8
      <4>2. c = chunkCount'
        BY <1>7, <2>2, <4>1, ChunksApart
      <4> QED
        BY <1>7, <2>2, <4>2
    <3>2. c > chunkCount
      BY <1>7, <2>2
    <3> QED
      BY Parts, <1>11, <2>2, <3>1, <3>2 DEF ChunkInv
  <2>3. Len(rows') <= MaxRows
    BY Parts, <1>1 DEF ChunkInv
  <2> QED
    BY <1>6, <1>7, <2>1, <2>2, <2>3 DEF ChunkInv
<1>21. SlotInv'
  <2> SUFFICES ASSUME NEW o \in Nat, ChunkOf(o) <= chunkCount'
               PROVE  Len(mem'[Slot(o)]) = IF o < n THEN 2 ELSE 1
    BY <1>6 DEF SlotInv, Newest
  <2>1. ChunkOf(o) <= chunkCount => Newest(Slot(o)) = IF o < n THEN 2 ELSE 1
    BY Parts, <1>6 DEF SlotInv
  <2>2. CASE Slot(o) \in fresh
    <3>1. o >= n /\ Len(mem'[Slot(o)]) = 1
      BY <1>19, <2>2
    <3> QED
      BY <1>3, <3>1
  <2>3. CASE Slot(o) \notin fresh
    <3>1. ChunkOf(o) <= chunkCount /\ mem'[Slot(o)] = mem[Slot(o)]
      BY <1>19, <2>3
    <3> QED
      BY <2>1, <3>1 DEF Newest
  <2> QED
    BY <2>2, <2>3
<1>22. WordInv'
  <2> SUFFICES ASSUME NEW o \in Nat, ChunkOf(o) <= chunkCount'
               PROVE  /\ Len(mem'[Word(o)]) >= 1
                      /\ o < n => Len(mem'[Word(o)]) >= BitOf(o) + 2
                      /\ o >= n => Len(mem'[Word(o)]) <= BitOf(o) + 1
                      /\ \A i \in 1..Len(mem'[Word(o)]) : mem'[Word(o)][i].val \in SUBSET Bits
    BY <1>6 DEF WordInv, Newest
  <2>1. CASE Slot(o) \in fresh
    <3>1. Len(mem'[Word(o)]) = 1 /\ mem'[Word(o)][1].val = {} /\ o >= n
      BY <1>19, <2>1
    <3>2. BitOf(o) \in Nat
      BY Placement, GeometryAssumption DEF Bits
    <3> QED
      BY <1>3, <3>1, <3>2
  <2>2. CASE Slot(o) \notin fresh
    <3>1. mem'[Word(o)] = mem[Word(o)] /\ ChunkOf(o) <= chunkCount
      BY <1>19, <2>2
    <3> QED
      BY Parts, <1>6, <3>1 DEF WordInv, Newest
  <2> QED
    BY <2>1, <2>2
<1>23. RowsInv'
  <2> SUFFICES ASSUME NEW o \in 0..(Len(rows) - 1)
               PROVE  (SlotHolds(o, rows[o + 1]) /\ WordHolds(o, rows[o + 1]))'
    BY <1>1 DEF RowsInv
  <2>1. o \in Nat /\ ChunkOf(o) <= chunkCount /\ o < n
    BY Parts, <1>3, RowAllocated DEF n
  <2>2. ChunkOf(o) <= chunkCount'
    BY <1>7, <2>1, Placement
  <2>3. mem'[Slot(o)] = mem[Slot(o)] /\ mem'[Word(o)] = mem[Word(o)]
    BY <1>3, <1>19, <2>1, <2>2
  <2> QED
    BY Parts, <1>1, <2>3 DEF RowsInv, SlotHolds, WordHolds, Newest
<1>24. \A k \in Atomics : mem'[k] = mem[k]
  BY <1>8, <1>11, AtomicLocations
<1>25. SizeInv'
  <2>1. mem'[visible_size] = mem[visible_size]
    BY <1>24 DEF Atomics
  <2> QED
    BY Parts, <1>1, <2>1 DEF SizeInv, Newest, Covers
<1>26. ASSUME wpc'[w] = "slot", Newest(closed)' = 1 PROVE WriterFine(w)'
  <2>1. wrow'[w] = wrow[w] /\ windex'[w] = n /\ rows' = rows
    BY <1>1, <1>3
  <2>2. answered'[w] + 1 <= seen'[w][visible_size]
    BY <1>1, <1>14, <1>15, AnsweredKept
  <2>3. ChunkOf(n) <= chunkCount' /\ ChunkOf(n) \in Nat \ {0}
    BY <1>3, <1>7, Placement
  <2>4. Len(mem'[Slot(n)]) = 1
    <3>1. Len(mem'[Slot(n)]) = IF n < n THEN 2 ELSE 1
      BY <1>3, <1>6, <1>21, <2>3 DEF SlotInv, Newest
    <3> QED
      BY <1>3, <3>1
  <2>5. seen'[w][Slot(n)] >= 1
    <3>1. ChunkOf(n) \in 1..chunkCount' /\ Slot(n) \in ChunkLocations(ChunkOf(n))
      BY <1>3, <1>7, <2>3, PlacesInChunk
    <3>2. chunksSeen'[Slot(n)] >= 1
      BY <1>3, <1>20, <3>1 DEF ChunkInv
    <3> QED
      BY <1>14, <3>2
  <2> QED
    BY <1>3, <1>26, <2>1, <2>2, <2>4, <2>5 DEF WriterFine, Newest, n
<1> QED
  <2>1. MemoryInv'
    BY <1>20, <1>21, <1>22, <1>23, <1>25 DEF MemoryInv
  <2>2. chunksSeen' \in View
    BY <1>12, <1>14
  <2> QED
    BY <1>1, <1>2, <1>7, <1>11, <1>14, <1>15, <1>18, <1>24, <1>26, <2>1, <2>2, WriterWrites

LEMMA PublishInv ==
  ASSUME IInv, NEW w \in Writers, Publish(w)
  PROVE  IInv'
<1> DEFINE n == Len(rows)
           view == ReleasedWith(w, visible_size)
<1>1. /\ Leave(w, "written")
      /\ Store(w, visible_size, windex[w] + 1, view)
      /\ rows' = Append(rows, wrow[w])
      /\ answered' = [answered EXCEPT ![w] = windex[w] + 1]
      /\ UNCHANGED <<chunkCount, chunksSeen>>
  BY DEF Publish
<1>2. wpc[w] = "written" /\ wpc' = [wpc EXCEPT ![w] = "idle"]
  BY <1>1 DEF Leave, WriterStep
<1>3. wpc[w] \in Late /\ wpc[w] \in Indexed /\ wpc[w] # "idle" /\ "written" \in Appending
  BY <1>2 DEF Late, Indexed, Appending, Open
<1>4. /\ windex[w] = n /\ n \in Nat /\ n < MaxRows /\ Newest(closed) = 1 /\ w \in Threads
      /\ Slot(n) \in Location /\ Word(n) \in Location /\ callerLock = w
      /\ Slot(n) \notin Atomics /\ Word(n) \notin Atomics /\ BitOf(n) \in Nat
  BY <1>3, AppendsAtEnd
<1>5. /\ HasSlot /\ HasValue /\ HasBit /\ ~HasSlot' /\ ~HasValue' /\ ~HasBit'
  BY <1>2, <1>3, UnderWay DEF Late
<1>6. /\ wrow[w] \in Row /\ rows \in Seq(Row) /\ rows' \in Seq(Row) /\ Len(rows') = n + 1
      /\ rows'[n + 1] = wrow[w] /\ \A i \in 1..n : rows'[i] = rows[i]
  BY Parts, <1>1, <1>3, AppendProperties DEF TypeOK
<1>7. /\ CountWith(HasSlot)' = CountWith(HasSlot) /\ CountWith(HasValue)' = CountWith(HasValue)
      /\ CountWith(HasBit)' = CountWith(HasBit)
      /\ CountWith(HasSlot) = n + 1 /\ CountWith(HasValue) = n + 1 /\ CountWith(HasBit) = n + 1
  BY <1>4, <1>5, <1>6 DEF CountWith
<1>8. chunkCount = NeededChunks(n + 1) /\ ChunkOf(n) <= chunkCount
  BY Parts, <1>4, <1>7, NextRowsChunk, Placement DEF ChunkInv
<1>9. WriterFine(w)
  BY Parts DEF WriterInv
<1>10. visible_size \in Location /\ visible_size # closed /\ Newest(visible_size) = n + 1
  BY Parts, AtomicLocations, LocationsApart DEF SizeInv
<1>11. /\ seen[w] \in View /\ view \in View
       /\ view[visible_size] = n + 2
       /\ \A k \in Location : k # visible_size => view[k] = seen[w][k]
  <2>1. seen[w] \in View
    BY Parts, <1>4 DEF TypeOK
  <2>2. view = [seen[w] EXCEPT ![visible_size] = n + 2]
    BY <1>4, <1>10 DEF ReleasedWith, Relaxed
  <2> QED
    BY <1>4, <1>10, <2>1, <2>2 DEF View
<1>12. \A k \in Location : view[k] <= Relaxed(w, visible_size, Newest(visible_size) + 1)[k]
  <2>1. view = Relaxed(w, visible_size, Newest(visible_size) + 1)
    BY DEF ReleasedWith
  <2> HIDE DEF view
  <2> QED
    BY <1>11, <2>1 DEF View
<1> HIDE DEF view, n
<1>13. /\ mem' \in [Location -> Seq(Msg)]
       /\ \A k \in Location : k # visible_size => mem'[k] = mem[k]
       /\ Len(mem'[visible_size]) = n + 2
       /\ \A i \in 1..(n + 1) : mem'[visible_size][i] = mem[visible_size][i]
       /\ mem'[visible_size][n + 2].val = n + 1 /\ mem'[visible_size][n + 2].view = view
       /\ seen' \in [Threads -> View] /\ SeenGrows
       /\ seen'[w][visible_size] = n + 2
       /\ \A k \in Location : k # visible_size => seen'[w][k] = seen[w][k]
       /\ chunksSeen' = chunksSeen /\ callerSeen' \in {callerSeen, seen'[w]} => BoundedInv'
  <2>1. n + 1 \in Val
    BY <1>4 DEF Val
  <2>2. Store(w, visible_size, n + 1, view)
    BY <1>1, <1>4
  <2>3. /\ mem' \in [Location -> Seq(Msg)]
        /\ \A k \in Location : k # visible_size => mem'[k] = mem[k]
        /\ Len(mem'[visible_size]) = Newest(visible_size) + 1
        /\ \A i \in 1..Newest(visible_size) : mem'[visible_size][i] = mem[visible_size][i]
        /\ mem'[visible_size][Newest(visible_size) + 1].val = n + 1
        /\ mem'[visible_size][Newest(visible_size) + 1].view = view
        /\ seen' \in [Threads -> View] /\ SeenGrows
        /\ seen'[w][visible_size] = Newest(visible_size) + 1
        /\ \A k \in Location : k # visible_size => seen'[w][k] = seen[w][k]
        /\ chunksSeen' = chunksSeen /\ callerSeen' \in {callerSeen, seen'[w]} => BoundedInv'
    BY Parts, <1>4, <1>10, <1>11, <1>12, <2>1, <2>2, StoreFacts
  <2>4. Newest(visible_size) + 1 = n + 2
    BY <1>4, <1>10
  <2> QED
    BY <1>10, <2>3, <2>4
<1>14. /\ LockStep /\ CallerInv' /\ UNCHANGED snapVars
       /\ callerLock' = NoThread /\ callerSeen' = seen'[w] /\ callerSeen' \in View
       /\ wrow' = [wrow EXCEPT ![w] = None] /\ windex' = [windex EXCEPT ![w] = 0]
       /\ wpc' \in [Writers -> {"idle"} \cup Appending]
       /\ wrow' \in [Writers -> Row \cup {None}] /\ windex' \in [Writers -> Nat]
       /\ \A x \in Writers : wpc'[x] # "idle" => wrow'[x] \in Row
  BY <1>1, <1>3, <1>13, LeaveFacts
<1>15. TypeOK'
  <2>1. answered' \in [Writers -> Nat]
    BY Parts, <1>1, <1>4 DEF TypeOK
  <2> QED
    BY Parts, <1>1, <1>6, <1>13, <1>14, <2>1 DEF TypeOK, snapVars
<1>16. BoundedInv'
  BY <1>1, <1>13, <1>14
<1>17. \A o \in Nat : Slot(o) # visible_size /\ Word(o) # visible_size
  BY PlacesApart DEF Atomics
<1>18. ASSUME NEW o \in Nat, ChunkOf(o) <= chunkCount
       PROVE  mem'[Slot(o)] = mem[Slot(o)] /\ mem'[Word(o)] = mem[Word(o)]
  <2>1. ChunkOf(o) <= NeededChunks(MaxRows)
    BY Parts, <1>18, Placement, ChunksNeeded, ThreadsAssumption DEF ChunkInv, TypeOK
  <2> QED
    BY <1>13, <1>17, <2>1, PlacesExist
<1>19. ChunkInv'
  <2>1. ASSUME NEW c \in Nat, NEW k \in Location, c > chunkCount, k \in ChunkLocations(c)
        PROVE  mem'[k] = << >>
    <3>1. k # visible_size
      BY <2>1, PlacesInChunk DEF Atomics
    <3> QED
      BY Parts, <1>13, <2>1, <3>1 DEF ChunkInv
  <2>2. Len(rows') <= MaxRows
    BY <1>4, <1>6, ThreadsAssumption
  <2> QED
    BY Parts, <1>1, <1>7, <2>1, <2>2 DEF ChunkInv
<1>20. SlotInv'
  BY Parts, <1>1, <1>7, <1>18 DEF SlotInv, Newest
<1>21. WordInv'
  BY Parts, <1>1, <1>7, <1>18 DEF WordInv, Newest
<1>22. RowsInv'
  <2> SUFFICES ASSUME NEW o \in 0..n
               PROVE  (SlotHolds(o, rows[o + 1]) /\ WordHolds(o, rows[o + 1]))'
    BY <1>4, <1>6 DEF RowsInv
  <2>1. CASE o = n
    <3>1. SlotHolds(n, wrow[w]) /\ WordHolds(n, wrow[w])
      BY <1>2, <1>4, <1>9 DEF WriterFine
    <3>2. mem'[Slot(n)] = mem[Slot(n)] /\ mem'[Word(n)] = mem[Word(n)]
      BY <1>4, <1>8, <1>18
    <3> QED
      BY <1>6, <2>1, <3>1, <3>2 DEF SlotHolds, WordHolds, Newest
  <2>2. CASE o # n
    <3>1. o \in 0..(Len(rows) - 1) /\ o + 1 \in 1..n
      BY <1>4, <2>2 DEF n
    <3>2. o \in Nat /\ ChunkOf(o) <= chunkCount
      BY Parts, <3>1, RowAllocated
    <3>3. SlotHolds(o, rows[o + 1]) /\ WordHolds(o, rows[o + 1])
      BY Parts, <3>1 DEF RowsInv
    <3>4. rows'[o + 1] = rows[o + 1]
      BY <1>6, <3>1
    <3> QED
      BY <1>18, <3>2, <3>3, <3>4 DEF SlotHolds, WordHolds, Newest
  <2> QED
    BY <2>1, <2>2
<1>23. Covers(seen[w], n)
  BY Parts, <1>4 DEF CurrentInv, Current, n
<1>24. Covers(view, n + 1)
  <2> SUFFICES ASSUME NEW o \in 0..n PROVE view[Slot(o)] >= 2 /\ view[Word(o)] >= BitOf(o) + 2
    BY <1>4 DEF Covers
  <2>1. Slot(o) \in Location /\ Word(o) \in Location /\ o \in Nat
    BY <1>4, RowsHavePlaces, ThreadsAssumption
  <2>2. view[Slot(o)] = seen[w][Slot(o)] /\ view[Word(o)] = seen[w][Word(o)]
    BY <1>11, <1>17, <2>1
  <2>3. CASE o # n
    BY <1>4, <1>23, <2>2, <2>3 DEF Covers
  <2>4. CASE o = n
    <3>1. seen[w][Word(n)] >= BitOf(n) + 2 /\ seen[w][Slot(n)] >= Newest(Slot(n))
      BY <1>2, <1>3, <1>4, <1>9 DEF WriterFine
    <3>2. Newest(Slot(n)) = 2
      BY Parts, <1>4, <1>7, <1>8 DEF SlotInv
    <3> QED
      BY <2>2, <2>4, <3>1, <3>2
  <2> QED
    BY <2>3, <2>4
<1>25. SizeInv'
  <2>1. ASSUME NEW i \in 1..(n + 2)
        PROVE  mem'[visible_size][i].val = i - 1 /\ Covers(mem'[visible_size][i].view, i - 1)
    <3>1. CASE i = n + 2
      <4>1. i - 1 = n + 1
        BY <1>4, <3>1
      <4> QED
        BY <1>13, <1>24, <3>1, <4>1
    <3>2. CASE i # n + 2
      <4>1. i \in 1..(n + 1)
        BY <1>4, <3>2
      <4>2. mem'[visible_size][i] = mem[visible_size][i] /\ i \in 1..Newest(visible_size)
        BY <1>10, <1>13, <4>1
      <4> QED
        BY Parts, <4>2 DEF SizeInv
    <3> QED
      BY <3>1, <3>2
  <2>2. Len(mem'[visible_size]) = Len(rows') + 1
    BY <1>4, <1>6, <1>13
  <2> QED
    BY <1>13, <2>1, <2>2 DEF SizeInv, Newest, Covers
<1>26. MemoryInv'
  BY <1>19, <1>20, <1>21, <1>22, <1>25 DEF MemoryInv
<1>27. mem'[closed] = mem[closed]
  BY <1>10, <1>13, AtomicLocations
<1>28. ClosedInv'
  BY Parts, <1>27 DEF ClosedInv, Newest
<1>29. CurrentInv'
  <2>1. Covers(seen'[w], n + 1)
    <3>1. n + 1 \in Nat /\ n + 1 <= MaxRows /\ seen'[w] \in View
      BY <1>4, <1>13, ThreadsAssumption
    <3>2. ASSUME NEW k \in Location PROVE view[k] <= seen'[w][k]
      <4>1. view[k] = seen'[w][k]
        BY <1>10, <1>11, <1>13
      <4>2. view[k] \in Nat
        BY <1>11 DEF View
      <4> QED
        BY <4>1, <4>2
    <3> QED
      BY <1>11, <1>24, <3>1, <3>2, CoversGrows
  <2>2. seen'[w][visible_size] >= Len(mem'[visible_size])
    BY <1>4, <1>13
  <2>3. Len(mem'[closed]) = 1
    BY <1>4, <1>27 DEF Newest
  <2>4. Current(seen[w])'
    <3>1. ASSUME NEW l \in Atomics, Len(mem'[l]) > 1 PROVE seen'[w][l] >= Len(mem'[l])
      <4>1. l # closed
        <5> SUFFICES ASSUME l = closed PROVE FALSE
          OBVIOUS
        <5>1. Len(mem'[l]) = 1
          BY <2>3
        <5> QED
          BY <3>1, <5>1
      <4>2. l = visible_size
        BY <4>1 DEF Atomics
      <4> QED
        BY <2>2, <4>2
    <3>2. Covers(seen'[w], Len(rows'))
      BY <1>6, <2>1
    <3> QED
      BY <3>1, <3>2 DEF Current, Covers, Newest
  <2> QED
    BY <1>4, <1>13, <1>14, <2>4, HeldViews
<1>30. WriterFine(w)'
  <2>1. wpc'[w] = "idle" /\ answered'[w] = n + 1
    BY Parts, <1>1, <1>2, <1>4 DEF TypeOK
  <2>2. answered'[w] + 1 <= seen'[w][visible_size]
    BY <1>4, <1>13, <2>1
  <2> QED
    BY <2>1, <2>2 DEF WriterFine, Open, Indexed, Late
<1>31. WriterInv' /\ SnapInv'
  <2>1. \A x \in Writers : x # w =>
          /\ wpc[x] = "idle" /\ wpc'[x] = wpc[x] /\ wrow'[x] = wrow[x] /\ windex'[x] = windex[x]
          /\ answered'[x] = answered[x]
    BY Parts, <1>1, <1>2, <1>3, <1>14, OnlyWriter DEF TypeOK
  <2>2. Len(rows) <= Len(rows')
    BY <1>4, <1>6 DEF n
  <2> QED
    BY <1>4, <1>13, <1>14, <1>15, <1>27, <1>30, <2>1, <2>2, WriterOthers
<1> QED
  BY <1>14, <1>15, <1>16, <1>26, <1>28, <1>29, <1>31 DEF IInv

-----------------------------------------------------------------------------
(* Every step, and what follows *)

LEMMA NextInv == IInv /\ [Next]_vars => IInv'
<1> SUFFICES ASSUME IInv, [Next]_vars PROVE IInv'
  OBVIOUS
<1>1. CASE UNCHANGED vars
  <2>1. UNCHANGED <<mem, seen, chunkCount, chunksSeen, callerLock, callerSeen, wpc, wrow, windex,
                    spc, ssize, known, rows, answered>>
    BY <1>1 DEF vars, memoryVars, callerVars, writerVars, snapVars
  <2>2. /\ HasSlot' = HasSlot /\ HasValue' = HasValue /\ HasBit' = HasBit
    BY <2>1 DEF HasSlot, HasValue, HasBit
  <2>3. TypeOK' /\ CallerInv' /\ ClosedInv'
    BY Parts, <2>1 DEF TypeOK, CallerInv, ClosedInv, Newest
  <2>4. LateUnchanged /\ SeenGrows /\ LockStep
    BY StayFacts, <2>1 DEF LateUnchanged, SeenGrows, LockStep, callerVars
  <2>5. MemoryInv'
    BY Parts, StayFacts, <2>1, <2>4, QuietMemory DEF TypeOK
  <2>6. BoundedInv' /\ CurrentInv'
    BY Parts, StayFacts, <2>1, <2>3, <2>4, QuietViews
  <2>7. ASSUME NEW w \in Writers PROVE WriterFine(w)'
    <3>1. WriterFine(w)
      BY Parts DEF WriterInv
    <3> QED
      BY Parts, <2>1, <2>3, <2>4, <3>1, WriterFineFrame
  <2>8. ASSUME NEW t \in Snapshotters PROVE SnapFine(t)'
    <3>1. SnapFine(t)
      BY Parts DEF SnapInv
    <3>2. Len(rows) <= Len(rows') /\ Newest(closed) <= Len(mem'[closed])
      <4>1. Len(rows) \in Nat /\ Newest(closed) \in Nat
        BY Parts, LenProperties, MemoryTyped, AtomicLocations DEF TypeOK
      <4> QED
        BY <2>1, <4>1 DEF Newest
    <3> QED
      BY Parts, <2>1, <2>3, <2>4, <3>1, <3>2, SnapFineFrame
  <2> QED
    BY <2>3, <2>5, <2>6, <2>7, <2>8 DEF IInv, WriterInv, SnapInv
<1>2. ASSUME NEW w \in Writers, AppendNext(w) PROVE IInv'
  BY <1>2, EnterInv, CheckInv, LoadIndexInv, ProvideChunkInv, ProvideThrowsInv, WriteValueInv,
     WriteValidityInv, PublishInv DEF AppendNext
<1>3. ASSUME NEW w \in Writers, NEW t \in Readers, Inform(w, t) PROVE IInv'
  BY <1>3, InformInv
<1>4. ASSUME NEW t \in Readers, BeginSnapshot(t) PROVE IInv'
  BY <1>4, BeginSnapshotInv
<1>5. ASSUME NEW t \in Closers, BeginFreeze(t) \/ Freeze(t) PROVE IInv'
  BY <1>5, BeginFreezeInv, FreezeInv
<1>6. ASSUME NEW t \in Snapshotters, SnapshotNext(t) PROVE IInv'
  <2>1. CASE LoadSize(t)
    BY <2>1, LoadSizeInv
  <2>2. CASE CopyChunks(t)
    BY <2>2, CopyChunksInv
  <2>3. CASE SnapshotThrows(t)
    BY <2>3, LeaveSnapshotInv DEF SnapshotThrows
  <2>4. CASE DropPrefix(t)
    BY <2>4, LeaveSnapshotInv DEF DropPrefix
  <2> QED
    BY <1>6, <2>1, <2>2, <2>3, <2>4 DEF SnapshotNext
<1> QED
  BY <1>1, <1>2, <1>3, <1>4, <1>5, <1>6 DEF Next

\* The invariant, for any numbers of threads, rows and chunks.
THEOREM MemoryIsConsistent == Spec => []IInv
BY InitInv, NextInv, PTL DEF Spec

\* Whatever messages its loads return, a prefix shows whole rows and is read without a
\* data race: what its size was released with covers the writes of every row below it.
THEOREM PrefixesReadWhole == Spec => []PrefixReadsWhole
<1>1. IInv => PrefixReadsWhole
  <2> SUFFICES ASSUME IInv, NEW t \in Snapshotters, spc[t] = "prefix",
                      NEW o \in 0..(ssize[t] - 1)
               PROVE  /\ ChunkOf(o) <= chunkCount
                      /\ seen[t][Word(o)] >= 1
                      /\ seen[t][Slot(o)] = Newest(Slot(o))
                      /\ \A i \in Visible(t, Word(o)) :
                           rows[o + 1] = IF BitOf(o) \in mem[Word(o)][i].val
                                         THEN mem[Slot(o)][Newest(Slot(o))].val ELSE Null
    BY DEF PrefixReadsWhole
  <2>1. ssize[t] <= Len(rows) /\ Covers(seen[t], ssize[t])
    BY Parts DEF SnapInv, SnapFine
  <2>2. ssize[t] \in Nat /\ Len(rows) \in Nat /\ t \in Threads
    BY Parts, Nobody, LenProperties DEF TypeOK
  <2>3. o \in 0..(Len(rows) - 1) /\ o \in Nat /\ o < Len(rows) /\ o + 1 \in 1..Len(rows)
    BY <2>1, <2>2
  <2>4. ChunkOf(o) <= chunkCount /\ BitOf(o) \in Nat
    BY Parts, <2>3, RowAllocated, Placement, GeometryAssumption DEF Bits
  <2>5. Slot(o) \in Location /\ Word(o) \in Location
    BY Parts, <2>2, <2>3, RowsHavePlaces, ThreadsAssumption DEF ChunkInv
  <2>6. seen[t][Slot(o)] >= 2 /\ seen[t][Word(o)] >= BitOf(o) + 2
    BY <2>1 DEF Covers
  <2>7. Newest(Slot(o)) = 2
    <3>1. o < CountWith(HasValue)
      BY <2>2, <2>3 DEF CountWith
    <3> QED
      BY Parts, <2>3, <2>4, <3>1 DEF SlotInv
  <2>8. seen[t][Slot(o)] \in Nat /\ seen[t][Slot(o)] <= 2 /\ seen[t][Word(o)] \in Nat
        /\ Newest(Word(o)) \in Nat
    BY Parts, <2>2, <2>5, <2>7, MemoryTyped DEF TypeOK, View, BoundedInv, Within
  <2>9. SlotHolds(o, rows[o + 1]) /\ WordHolds(o, rows[o + 1])
    BY Parts, <2>3 DEF RowsInv
  <2>10. rows[o + 1] \in Row
    BY Parts, <2>3, ElementOfSeq DEF TypeOK
  <2>11. ASSUME NEW i \in Visible(t, Word(o))
         PROVE  rows[o + 1] = IF BitOf(o) \in mem[Word(o)][i].val
                              THEN mem[Slot(o)][2].val ELSE Null
    <3>1. i \in (BitOf(o) + 2)..Newest(Word(o))
      BY <2>4, <2>6, <2>8 DEF Visible
    <3>2. BitOf(o) \in mem[Word(o)][i].val <=> rows[o + 1] # Null
      BY <2>9, <3>1 DEF WordHolds
    <3> QED
      BY <2>9, <3>2 DEF SlotHolds
  <2>12. seen[t][Slot(o)] = 2 /\ seen[t][Word(o)] >= 1
    BY <2>4, <2>6, <2>8
  <2> QED
    BY <2>4, <2>7, <2>11, <2>12
<1> QED
  BY <1>1, MemoryIsConsistent, PTL

\* The relaxed load of a writer returns the number of rows, and its slot is its own.
THEOREM WritersAreInStep == Spec => []WritersInStep
<1>1. IInv => WritersInStep
  <2> SUFFICES ASSUME IInv, NEW w \in Writers, wpc[w] \in Late
               PROVE  /\ windex[w] = Len(rows)
                      /\ seen[w][Slot(windex[w])] = Newest(Slot(windex[w]))
                      /\ \A t \in Snapshotters : ssize[t] <= windex[w]
    BY DEF WritersInStep, Late
  <2>1. /\ windex[w] = Len(rows) /\ Len(rows) \in Nat /\ Slot(Len(rows)) \in Location
        /\ w \in Threads
    BY AppendsAtEnd DEF Indexed
  <2>2. seen[w][Slot(Len(rows))] >= Newest(Slot(Len(rows)))
    BY Parts, <2>1 DEF WriterInv, WriterFine
  <2>3. /\ seen[w][Slot(Len(rows))] \in Nat /\ Newest(Slot(Len(rows))) \in Nat
        /\ seen[w][Slot(Len(rows))] <= Newest(Slot(Len(rows)))
    BY Parts, <2>1, MemoryTyped DEF TypeOK, View, BoundedInv, Within
  <2>4. seen[w][Slot(Len(rows))] = Newest(Slot(Len(rows)))
    BY <2>2, <2>3
  <2>5. \A t \in Snapshotters : ssize[t] <= Len(rows)
    BY Parts, <2>1 DEF SnapInv, SnapFine
  <2> QED
    BY <2>1, <2>4, <2>5
<1> QED
  BY <1>1, MemoryIsConsistent, PTL

\* A prefix has every row that its thread knows of.
THEOREM KnownRowsStay == Spec => []KnownRowsSeen
<1>1. IInv => KnownRowsSeen
  BY Parts DEF SnapInv, SnapFine, KnownRowsSeen
<1> QED
  BY <1>1, MemoryIsConsistent, PTL

\* The prefix of freeze has every row, then and ever after.
THEOREM FreezeTakesAll == Spec => []FrozenIsNewest
<1>1. IInv => FrozenIsNewest
  BY Parts, Nobody DEF SnapInv, SnapFine, FrozenIsNewest
<1> QED
  BY <1>1, MemoryIsConsistent, PTL

=============================================================================
