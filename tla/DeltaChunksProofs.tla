------------------------- MODULE DeltaChunksProofs --------------------------
(***************************************************************************)
(* Facts about the geometry of a delta, for every chunk and word size.     *)
(***************************************************************************)
EXTENDS DeltaChunks, TLAPS

\* Every number has a quotient and a remainder.
LEMMA Remainder ==
  ASSUME NEW a \in Int, NEW n \in Int, n > 0
  PROVE  a % n = a - n * (a \div n)
OBVIOUS

LEMMA Division ==
  ASSUME NEW a \in Nat, NEW n \in Nat \ {0}
  PROVE  \E q \in Nat, r \in 0..(n - 1) :
           a \div n = q /\ a % n = r /\ a = n * q + r
<1> DEFINE q == a \div n
<1> DEFINE r == a % n
<1>1. q \in Nat /\ r \in 0..(n - 1)
  OBVIOUS
<1>2. r = a - n * q
  BY Remainder
<1>3. a \div n = q /\ a % n = r
  OBVIOUS
<1> HIDE DEF q, r
<1>4. a = n * q + r
  BY <1>1, <1>2
<1> QED
  BY <1>1, <1>3, <1>4

LEMMA TimesMonotone ==
  ASSUME NEW n \in Nat, NEW a \in Nat, NEW b \in Nat, a <= b
  PROVE  n * a <= n * b
<1>1. n * (b - a) \in Nat
  OBVIOUS
<1> QED
  BY <1>1

\* They are unique.
LEMMA DivisionUnique ==
  ASSUME NEW n \in Nat \ {0}, NEW q \in Nat, NEW r \in 0..(n - 1)
  PROVE  (n * q + r) \div n = q /\ (n * q + r) % n = r
OBVIOUS

\* A smaller number has no larger quotient.
LEMMA DivisionMonotone ==
  ASSUME NEW n \in Nat \ {0}, NEW a \in Nat, NEW b \in Nat, a <= b
  PROVE  a \div n <= b \div n
BY Division

-----------------------------------------------------------------------------
(* Chunks *)

\* A row has a chunk, and a slot, a word and a bit in it.
LEMMA Placement ==
  ASSUME NEW o \in Nat
  PROVE  /\ ChunkOf(o) \in Nat \ {0} /\ Local(o) \in Slots
         /\ WordOf(o) \in Words /\ BitOf(o) \in Bits
<1>1. ChunkOf(o) \in Nat \ {0} /\ Local(o) \in Slots
  BY Division, GeometryAssumption DEF ChunkOf, Local, Slots
<1> DEFINE l == Local(o)
<1>2. l \in Nat /\ l < ChunkCapacity
  BY <1>1, GeometryAssumption DEF Slots
<1> HIDE DEF l
<1>3. PICK q \in Nat, r \in 0..(WordBits - 1) :
        l \div WordBits = q /\ l % WordBits = r /\ l = WordBits * q + r
  BY <1>2, Division, GeometryAssumption
<1>4. PICK k \in Nat : ChunkCapacity \div WordBits = k /\ ChunkCapacity = WordBits * k
  <2>1. PICK k \in Nat, rest \in 0..(WordBits - 1) :
          /\ ChunkCapacity \div WordBits = k /\ ChunkCapacity % WordBits = rest
          /\ ChunkCapacity = WordBits * k + rest
    BY Division, GeometryAssumption
  <2> QED
    BY <2>1, GeometryAssumption
<1>5. q < k
  <2> SUFFICES ASSUME k <= q PROVE FALSE
    BY <1>3, <1>4
  <2>1. WordBits * k <= WordBits * q
    BY <1>3, <1>4, TimesMonotone, GeometryAssumption
  <2> QED
    BY <2>1, <1>2, <1>3, <1>4, GeometryAssumption
<1> QED
  BY <1>1, <1>3, <1>4, <1>5, GeometryAssumption DEF WordOf, BitOf, Words, Bits, l

\* Two rows share no slot, and no bit.
LEMMA RowsApart ==
  ASSUME NEW o \in Nat, NEW p \in Nat, o # p, ChunkOf(o) = ChunkOf(p)
  PROVE  /\ Local(o) # Local(p)
         /\ WordOf(o) = WordOf(p) => BitOf(o) # BitOf(p)
<1>1. Local(o) # Local(p)
  BY Division, GeometryAssumption DEF ChunkOf, Local
<1>2. Local(o) \in Nat /\ Local(p) \in Nat
  BY Placement, GeometryAssumption DEF Slots
<1> QED
  BY <1>1, <1>2, Division, GeometryAssumption DEF WordOf, BitOf

\* The chunks needed for n rows hold each of them,
LEMMA ChunksNeeded ==
  ASSUME NEW n \in Nat
  PROVE  /\ NeededChunks(n) \in Nat
         /\ \A o \in 0..(n - 1) : ChunkOf(o) <= NeededChunks(n)
<1> DEFINE q == n \div ChunkCapacity
<1> DEFINE r == n % ChunkCapacity
<1>1. q \in Nat /\ r \in Nat /\ n = ChunkCapacity * q + r
  BY Division, GeometryAssumption
<1>2. NeededChunks(n) = q + (IF r # 0 THEN 1 ELSE 0)
  BY DEF NeededChunks
<1> HIDE DEF q, r
<1>3. ASSUME NEW o \in 0..(n - 1) PROVE ChunkOf(o) <= NeededChunks(n)
  <2> DEFINE s == o \div ChunkCapacity
  <2>1. s \in Nat /\ s <= q /\ ChunkCapacity * s <= o
    BY Division, DivisionMonotone, GeometryAssumption DEF q
  <2>2. ChunkOf(o) = s + 1
    BY DEF ChunkOf
  <2> HIDE DEF s
  <2>3. CASE r # 0
    BY <1>1, <1>2, <2>1, <2>2, <2>3
  <2>4. CASE r = 0
    <3>1. ChunkCapacity * s < ChunkCapacity * q
      BY <1>1, <2>1, <2>4, GeometryAssumption
    <3>2. s # q
      BY <3>1, <1>1, <2>1, GeometryAssumption
    <3> QED
      BY <3>2, <1>1, <1>2, <2>1, <2>2, <2>4
  <2> QED
    BY <2>3, <2>4
<1> QED
  BY <1>1, <1>2, <1>3

\* and the row after them is in the last of these chunks or the one after it.
LEMMA NextRowsChunk ==
  ASSUME NEW n \in Nat
  PROVE  ChunkOf(n) <= NeededChunks(n) + 1 /\ NeededChunks(n + 1) = ChunkOf(n)
<1> DEFINE q == n \div ChunkCapacity
<1> DEFINE r == n % ChunkCapacity
<1>1. q \in Nat /\ r \in 0..(ChunkCapacity - 1) /\ n = ChunkCapacity * q + r
  BY Division, GeometryAssumption
<1>2. NeededChunks(n) = q + (IF r # 0 THEN 1 ELSE 0) /\ ChunkOf(n) = q + 1
  BY DEF NeededChunks, ChunkOf
<1> HIDE DEF q, r
<1>3. CASE r + 1 < ChunkCapacity
  <2>1. n + 1 = ChunkCapacity * q + (r + 1) /\ r + 1 \in 0..(ChunkCapacity - 1)
    BY <1>1, <1>3, GeometryAssumption
  <2>2. (n + 1) \div ChunkCapacity = q /\ (n + 1) % ChunkCapacity = r + 1
    BY <1>1, <2>1, DivisionUnique, GeometryAssumption
  <2> QED
    BY <1>1, <1>2, <2>2 DEF NeededChunks
<1>4. CASE r + 1 = ChunkCapacity
  <2>1. PICK p \in Nat : p = q + 1
    BY <1>1
  <2>2. n + 1 = ChunkCapacity * p + 0 /\ 0 \in 0..(ChunkCapacity - 1)
    BY <1>1, <1>4, <2>1, GeometryAssumption
  <2>3. (n + 1) \div ChunkCapacity = p /\ (n + 1) % ChunkCapacity = 0
    BY <2>2, DivisionUnique, GeometryAssumption
  <2> QED
    BY <1>1, <1>2, <2>1, <2>3 DEF NeededChunks
<1> QED
  BY <1>1, <1>3, <1>4, GeometryAssumption

\* They have a slot for each of the rows.
LEMMA ChunksSuffice ==
  ASSUME NEW n \in Nat
  PROVE  n <= NeededChunks(n) * ChunkCapacity
<1>1. PICK q \in Nat, r \in 0..(ChunkCapacity - 1) :
        n \div ChunkCapacity = q /\ n % ChunkCapacity = r /\ n = ChunkCapacity * q + r
  BY Division, GeometryAssumption
<1>2. NeededChunks(n) = IF r # 0 THEN q + 1 ELSE q
  BY <1>1 DEF NeededChunks
<1>3. (q + 1) * ChunkCapacity = ChunkCapacity * q + ChunkCapacity
      /\ q * ChunkCapacity = ChunkCapacity * q
  BY GeometryAssumption
<1> QED
  BY <1>1, <1>2, <1>3, GeometryAssumption
=============================================================================
