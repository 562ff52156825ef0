---------------------------- MODULE PackedProofs -----------------------------
(***************************************************************************)
(* Packed codes are read as written, within the words allocated, for every *)
(* word size, width and sequence of codes; so a packed dictionary column   *)
(* is the fixed one, gives the same answers and refuses the same sources.  *)
(***************************************************************************)
EXTENDS PackedVectors, PackedDictionaryColumn, DictionaryProofs

\* The first bit of a row's code in the vector, when nothing overflows.
Start(n, row) == n * row

LEMMA Products ==
  ASSUME NEW n \in Nat, NEW a \in Nat, NEW b \in Nat, a < b
  PROVE  /\ Start(n, a) \in Nat /\ Start(n, b) \in Nat
         /\ Start(n, a) + n <= Start(n, b)
<1>1. n * (b - a - 1) \in Nat
  OBVIOUS
<1>2. n * (b - a - 1) = n * b - n * a - n
  OBVIOUS
<1>3. n * a \in Nat /\ n * b \in Nat
  OBVIOUS
<1> QED
  BY <1>1, <1>2, <1>3 DEF Start

\* A quotient bounds the factors of a product.
LEMMA NoOverflow ==
  ASSUME NEW n \in Nat \ {0}, NEW len \in Nat, len <= SizeMax \div n
  PROVE  Start(n, len) <= SizeMax
<1>1. PICK q \in Nat, r \in 0..(n - 1) : SizeMax \div n = q /\ SizeMax = n * q + r
  BY Division, BitsAssumption
<1>2. n * len <= n * q
  BY <1>1, TimesMonotone
<1>3. n * len \in Nat /\ n * q \in Nat
  BY <1>1
<1> QED
  BY <1>1, <1>2, <1>3, BitsAssumption DEF Start

LEMMA SmallRemainder ==
  ASSUME NEW m \in Nat \ {0}, NEW a \in 0..(m - 1)
  PROVE  a % m = a
<1>1. (m * 0 + a) % m = a
  BY DivisionUnique
<1>2. m * 0 + a = a
  OBVIOUS
<1> QED
  BY <1>1, <1>2

\* The arguments of a constructor that returns and of an access to one of its rows.
Accepted(n, cs) ==
  /\ n \in Nat \ {0} /\ n <= IdBits
  /\ cs \in Seq(Code) /\ Len(cs) <= SizeMax \div n
  /\ \A i \in DOMAIN cs : cs[i] \subseteq Mask(n)

\* Where a code that was accepted lies: no product wraps around.
LEMMA Positions ==
  ASSUME NEW n, NEW cs, Accepted(n, cs), NEW row \in 0..(Len(cs) - 1)
  PROVE  /\ WordIndex(n, row) \in Nat /\ ShiftOf(n, row) \in 0..(WordBits - 1)
         /\ Start(n, row) = WordBits * WordIndex(n, row) + ShiftOf(n, row)
<1>1. n \in Nat \ {0} /\ Len(cs) \in Nat /\ Len(cs) <= SizeMax \div n
  BY DEF Accepted
<1>2. Start(n, row) \in Nat /\ Start(n, row) + n <= Start(n, Len(cs))
  <2>1. row \in Nat /\ row < Len(cs)
    BY <1>1
  <2> QED
    BY <1>1, <2>1, Products
<1>3. Start(n, row) \in 0..SizeMax
  <2>1. Start(n, Len(cs)) <= SizeMax /\ Start(n, Len(cs)) \in Nat
    BY <1>1, <1>2, NoOverflow, Products
  <2> QED
    BY <1>1, <1>2, <2>1, BitsAssumption
<1>4. BitOffset(n, row) = Start(n, row)
  <2>1. row * n = Start(n, row)
    BY <1>1 DEF Start
  <2> QED
    BY <1>3, <2>1, SmallRemainder, BitsAssumption DEF BitOffset
<1> QED
  BY <1>2, <1>4, Division, BitsAssumption DEF WordIndex, ShiftOf

\* A word that starts before the end of the codes is allocated.
LEMMA WordsSuffice ==
  ASSUME NEW n, NEW cs, Accepted(n, cs), NEW j \in Nat,
         WordBits * j < Start(n, Len(cs))
  PROVE  /\ WordCount(n, Len(cs)) \in Nat
         /\ j \in 0..(WordCount(n, Len(cs)) - 1)
<1>1. n \in Nat \ {0} /\ Len(cs) \in Nat /\ Len(cs) <= SizeMax \div n
  BY DEF Accepted
<1>2. PICK total \in Nat : total = Start(n, Len(cs))
  BY <1>1 DEF Start
<1>3. (Len(cs) * n) % (SizeMax + 1) = total
  <2>1. Len(cs) * n = total
    BY <1>1, <1>2 DEF Start
  <2>2. total \in 0..SizeMax
    BY <1>1, <1>2, NoOverflow, BitsAssumption
  <2> QED
    BY <2>1, <2>2, SmallRemainder, BitsAssumption
<1>4. PICK q \in Nat, r \in 0..(WordBits - 1) :
        total \div WordBits = q /\ total % WordBits = r /\ total = WordBits * q + r
  BY Division, BitsAssumption
<1>5. WordCount(n, Len(cs)) = IF r # 0 THEN q + 1 ELSE q
  BY <1>3, <1>4 DEF WordCount
<1>6. ~(q < j)
  <2> SUFFICES ASSUME q < j PROVE FALSE
    OBVIOUS
  <2>1. WordBits * q + WordBits <= WordBits * j
    BY <1>4, Products, BitsAssumption DEF Start
  <2>2. WordBits * q \in Nat /\ WordBits * j \in Nat
    BY <1>4, BitsAssumption
  <2> QED
    BY <1>2, <1>4, <2>1, <2>2, BitsAssumption
<1>7. r = 0 => q # j
  BY <1>2, <1>4, BitsAssumption
<1> QED
  BY <1>4, <1>5, <1>6, <1>7

\* The word a row starts in, and the next one if its code straddles, are allocated.
LEMMA AccessesAllocated ==
  ASSUME NEW n, NEW cs, Accepted(n, cs), NEW row \in 0..(Len(cs) - 1)
  PROVE  /\ WordIndex(n, row) \in 0..(WordCount(n, Len(cs)) - 1)
         /\ Straddles(n, row) => WordIndex(n, row) + 1 \in 0..(WordCount(n, Len(cs)) - 1)
<1> DEFINE w == WordIndex(n, row)
           s == ShiftOf(n, row)
<1>1. n \in Nat \ {0} /\ Len(cs) \in Nat
  BY DEF Accepted
<1>2. w \in Nat /\ s \in 0..(WordBits - 1) /\ Start(n, row) = WordBits * w + s
  BY Positions
<1>3. Start(n, row) + n <= Start(n, Len(cs)) /\ Start(n, Len(cs)) \in Nat
  <2>1. row \in Nat /\ row < Len(cs)
    BY <1>1
  <2> QED
    BY <1>1, <2>1, Products
<1>4. Straddles(n, row) <=> s + n > WordBits
  BY DEF Straddles
<1> HIDE DEF w, s
<1>5. WordBits * w \in Nat /\ WordBits * (w + 1) = WordBits * w + WordBits
  BY <1>2, BitsAssumption
<1>6. WordBits * w < Start(n, Len(cs))
  BY <1>1, <1>2, <1>3, <1>5, BitsAssumption
<1>7. Straddles(n, row) => WordBits * (w + 1) < Start(n, Len(cs))
  BY <1>1, <1>2, <1>3, <1>4, <1>5, BitsAssumption
<1> QED
  BY <1>2, <1>6, <1>7, WordsSuffice DEF w

-----------------------------------------------------------------------------
(* The bits of the words *)

\* Bit k of word j gets the bit of a row's code that lies there.
LEMMA ContributedBits ==
  ASSUME NEW n, NEW cs, Accepted(n, cs), NEW row \in 0..(Len(cs) - 1),
         NEW j \in Nat, NEW k \in Int
  PROVE  k \in Contribution(n, cs, row, j)
           <=> /\ k \in 0..(WordBits - 1)
               /\ WordBits * j + k - Start(n, row) \in cs[row + 1]
<1> DEFINE w == WordIndex(n, row)
           s == ShiftOf(n, row)
           code == cs[row + 1]
<1>1. n \in Nat \ {0} /\ n <= WordBits /\ WordBits \in Nat
  BY BitsAssumption DEF Accepted
<1>2. w \in Nat /\ s \in 0..(WordBits - 1) /\ Start(n, row) = WordBits * w + s
  BY Positions
<1>3. code \subseteq 0..(n - 1)
  <2>1. row + 1 \in DOMAIN cs
    BY DEF Accepted
  <2> QED
    BY <2>1 DEF Accepted, Mask
<1>4. Contribution(n, cs, row, j)
        = (IF j = w THEN ShiftLeft(code, s) ELSE {})
            \cup (IF s + n > WordBits /\ j = w + 1 THEN ShiftRight(code, WordBits - s) ELSE {})
  BY DEF Contribution, Straddles
<1> HIDE DEF w, s, code
<1>5. CASE j = w
  <2>1. Contribution(n, cs, row, j) = ShiftLeft(code, s)
    BY <1>2, <1>4, <1>5
  <2>2. WordBits * j + k - Start(n, row) = k - s
    BY <1>1, <1>2, <1>5
  <2>3. k \in ShiftLeft(code, s) <=> k \in 0..(WordBits - 1) /\ k - s \in code
    BY <1>1, <1>2, <1>3 DEF ShiftLeft
  <2> QED
    BY <2>1, <2>2, <2>3 DEF code
<1>6. CASE j = w + 1
  <2>1. Contribution(n, cs, row, j)
          = IF s + n > WordBits THEN ShiftRight(code, WordBits - s) ELSE {}
    BY <1>2, <1>4, <1>6
  <2>2. WordBits * j + k - Start(n, row) = WordBits + k - s
    <3>1. WordBits * (w + 1) = WordBits * w + WordBits /\ WordBits * w \in Nat
      BY <1>1, <1>2
    <3> QED
      BY <1>1, <1>2, <1>6, <3>1
  <2>3. k \in ShiftRight(code, WordBits - s) <=> k >= 0 /\ WordBits + k - s \in code
    BY <1>1, <1>2, <1>3 DEF ShiftRight
  <2>4. WordBits + k - s \in code => k < WordBits
    BY <1>1, <1>2, <1>3
  <2>5. ~(s + n > WordBits) /\ k >= 0 => WordBits + k - s \notin code
    BY <1>1, <1>2, <1>3
  <2> QED
    BY <1>1, <2>1, <2>2, <2>3, <2>4, <2>5 DEF code
<1>7. CASE j # w /\ j # w + 1
  <2>1. Contribution(n, cs, row, j) = {}
    BY <1>4, <1>7
  <2>2. /\ j < w => WordBits * j + WordBits <= WordBits * w
        /\ w + 1 < j => WordBits * (w + 1) + WordBits <= WordBits * j
    BY <1>1, <1>2, Products DEF Start
  <2>3. /\ WordBits * j \in Nat /\ WordBits * w \in Nat
        /\ WordBits * (w + 1) = WordBits * w + WordBits
    BY <1>1, <1>2
  <2>4. k \in 0..(WordBits - 1) => WordBits * j + k - Start(n, row) \notin 0..(n - 1)
    BY <1>1, <1>2, <1>7, <2>2, <2>3
  <2> QED
    BY <1>3, <2>1, <2>4 DEF code
<1> QED
  BY <1>5, <1>6, <1>7

\* The bit b places after the start of a row is the row's own.
LEMMA RowsDisjoint ==
  ASSUME NEW n, NEW cs, Accepted(n, cs), NEW row \in 0..(Len(cs) - 1), NEW b \in 0..(n - 1),
         NEW other \in 0..(Len(cs) - 1)
  PROVE  Start(n, row) + b - Start(n, other) \in cs[other + 1]
           <=> other = row /\ b \in cs[row + 1]
<1>1. n \in Nat \ {0} /\ row \in Nat /\ other \in Nat
  BY DEF Accepted
<1>2. cs[other + 1] \subseteq 0..(n - 1)
  <2>1. other + 1 \in DOMAIN cs
    BY DEF Accepted
  <2> QED
    BY <2>1 DEF Accepted, Mask
<1>3. CASE other = row
  <2>1. Start(n, row) \in Nat
    BY <1>1 DEF Start
  <2>2. Start(n, row) + b - Start(n, row) = b
    BY <2>1
  <2> QED
    BY <1>3, <2>2
<1>4. CASE other < row
  <2>1. Start(n, other) + n <= Start(n, row) /\ Start(n, other) \in Nat /\ Start(n, row) \in Nat
    BY <1>1, <1>4, Products
  <2> QED
    BY <1>1, <1>2, <1>4, <2>1
<1>5. CASE row < other
  <2>1. Start(n, row) + n <= Start(n, other) /\ Start(n, other) \in Nat /\ Start(n, row) \in Nat
    BY <1>1, <1>5, Products
  <2> QED
    BY <1>1, <1>2, <1>5, <2>1
<1> QED
  BY <1>1, <1>3, <1>4, <1>5

PackedWord(n, cs, j) == UNION {Contribution(n, cs, row, j) : row \in 0..(Len(cs) - 1)}

\* What a word has at the place of a bit of a row.
LEMMA WordBit ==
  ASSUME NEW n, NEW cs, Accepted(n, cs), NEW row \in 0..(Len(cs) - 1), NEW b \in 0..(n - 1),
         NEW j \in Nat, NEW k \in 0..(WordBits - 1), WordBits * j + k = Start(n, row) + b
  PROVE  k \in PackedWord(n, cs, j) <=> b \in cs[row + 1]
<1>1. ASSUME NEW other \in 0..(Len(cs) - 1)
      PROVE  k \in Contribution(n, cs, other, j) <=> other = row /\ b \in cs[row + 1]
  <2>1. k \in Contribution(n, cs, other, j)
          <=> WordBits * j + k - Start(n, other) \in cs[other + 1]
    BY ContributedBits
  <2>2. WordBits * j + k - Start(n, other) = Start(n, row) + b - Start(n, other)
    <3> DEFINE x == WordBits * j
               y == Start(n, row)
               z == Start(n, other)
    <3>1. x \in Int /\ y \in Int /\ z \in Int /\ b \in Int /\ k \in Int /\ x + k = y + b
      BY BitsAssumption DEF Start, Accepted
    <3> HIDE DEF x, y, z
    <3>2. x + k - z = y + b - z
      BY <3>1
    <3> QED
      BY <3>2 DEF x, y, z
  <2> QED
    BY <2>1, <2>2, RowsDisjoint
<1> QED
  BY <1>1 DEF PackedWord

LEMMA WordTyped ==
  ASSUME NEW n, NEW cs, Accepted(n, cs), NEW j \in Nat
  PROVE  PackedWord(n, cs, j) \subseteq 0..(WordBits - 1)
<1>1. ASSUME NEW row \in 0..(Len(cs) - 1), NEW k \in Contribution(n, cs, row, j)
      PROVE  k \in 0..(WordBits - 1)
  <2>1. cs[row + 1] \subseteq Int /\ ShiftOf(n, row) \in Int /\ WordBits \in Int
    <3>1. row + 1 \in DOMAIN cs
      BY DEF Accepted
    <3>2. cs[row + 1] \subseteq 0..(n - 1)
      BY <3>1 DEF Accepted, Mask
    <3>3. ShiftOf(n, row) \in 0..(WordBits - 1)
      BY Positions
    <3> QED
      BY <3>2, <3>3, BitsAssumption DEF Accepted
  <2>2. k \in Int
    BY <1>1, <2>1 DEF Contribution, ShiftLeft, ShiftRight
  <2> QED
    BY <1>1, <2>2, ContributedBits
<1> QED
  BY <1>1 DEF PackedWord

-----------------------------------------------------------------------------
(* Reading back *)

LEMMA PackAccepted ==
  ASSUME NEW n, NEW cs, Accepted(n, cs)
  PROVE  LET v == Pack(n, cs)
         IN  /\ v.size = Len(cs) /\ v.width = n
             /\ DOMAIN v.words = 0..(WordCount(n, Len(cs)) - 1)
             /\ \A j \in 0..(WordCount(n, Len(cs)) - 1) : v.words[j] = PackedWord(n, cs, j)
<1>1. Accepts(n, cs) /\ n # 0
  BY DEF Accepted, Accepts
<1> QED
  BY <1>1 DEF Pack, PackedWord

LEMMA ReadBack ==
  ASSUME NEW n, NEW cs, Accepted(n, cs), NEW row \in 0..(Len(cs) - 1)
  PROVE  PackedValue(Pack(n, cs), row) = cs[row + 1]
<1> DEFINE v == Pack(n, cs)
           w == WordIndex(n, row)
           s == ShiftOf(n, row)
           low == ShiftRight(PackedWord(n, cs, w), s)
           high == IF s + n > WordBits
                   THEN ShiftLeft(PackedWord(n, cs, w + 1), WordBits - s) ELSE {}
<1>1. n \in Nat \ {0} /\ n <= WordBits /\ WordBits \in Nat
  BY BitsAssumption DEF Accepted
<1>2. w \in Nat /\ s \in 0..(WordBits - 1) /\ Start(n, row) = WordBits * w + s
  BY Positions
<1>3. WordAt(v, w) = PackedWord(n, cs, w)
  BY AccessesAllocated, PackAccepted DEF WordAt
<1>4. s + n > WordBits => WordAt(v, w + 1) = PackedWord(n, cs, w + 1)
  BY AccessesAllocated, PackAccepted DEF WordAt, Straddles
<1>5. PackedValue(v, row) = (low \cup high) \cap 0..(n - 1)
  <2>1. v.width = n
    BY PackAccepted
  <2> QED
    BY <1>1, <1>3, <1>4, <2>1 DEF PackedValue, Straddles, Mask
<1>6. cs[row + 1] \subseteq 0..(n - 1)
  <2>1. row + 1 \in DOMAIN cs
    BY DEF Accepted
  <2> QED
    BY <2>1 DEF Accepted, Mask
<1>7. /\ PackedWord(n, cs, w) \subseteq 0..(WordBits - 1)
      /\ PackedWord(n, cs, w + 1) \subseteq 0..(WordBits - 1)
  BY <1>2, WordTyped
<1>8. /\ WordBits * w \in Nat /\ WordBits * (w + 1) = WordBits * w + WordBits
  BY <1>1, <1>2
<1> HIDE DEF v, w, s
<1>9. ASSUME NEW b \in 0..(n - 1)
      PROVE  b \in low \cup high <=> b \in cs[row + 1]
  <2>1. b \in low <=> b + s \in PackedWord(n, cs, w)
    BY <1>1, <1>2, <1>7 DEF ShiftRight
  <2>2. b \in high <=> s + n > WordBits /\ b + s - WordBits \in PackedWord(n, cs, w + 1)
    BY <1>1, <1>2, <1>7 DEF ShiftLeft
  <2> HIDE DEF low, high
  <2>3. CASE b + s < WordBits
    <3>1. b + s \in PackedWord(n, cs, w) <=> b \in cs[row + 1]
      <4>1. b + s \in 0..(WordBits - 1) /\ WordBits * w + (b + s) = Start(n, row) + b
        BY <1>1, <1>2, <1>8, <2>3
      <4> QED
        BY <1>2, <4>1, WordBit
    <3>2. b + s - WordBits \notin PackedWord(n, cs, w + 1)
      BY <1>1, <1>2, <1>7, <2>3
    <3> QED
      BY <2>1, <2>2, <3>1, <3>2
  <2>4. CASE b + s >= WordBits
    <3>1. s + n > WordBits
      BY <1>1, <1>2, <2>4
    <3>2. b + s - WordBits \in PackedWord(n, cs, w + 1) <=> b \in cs[row + 1]
      <4>1. /\ b + s - WordBits \in 0..(WordBits - 1) /\ w + 1 \in Nat
            /\ WordBits * (w + 1) + (b + s - WordBits) = Start(n, row) + b
        BY <1>1, <1>2, <1>8, <2>4
      <4> QED
        BY <4>1, WordBit
    <3>3. b + s \notin PackedWord(n, cs, w)
      BY <1>1, <1>2, <1>7, <2>4
    <3> QED
      BY <2>1, <2>2, <3>1, <3>2, <3>3
  <2> QED
    BY <1>1, <1>2, <2>3, <2>4
<1> HIDE DEF low, high
<1> QED
  BY <1>5, <1>6, <1>9 DEF v

\* A width of zero stores nothing, and reads the only code it accepts.
LEMMA ReadNothing ==
  ASSUME NEW cs, Accepts(0, cs), NEW row \in 0..(Len(cs) - 1), cs \in Seq(Code)
  PROVE  PackedValue(Pack(0, cs), row) = cs[row + 1]
<1>1. cs[row + 1] = {}
  <2>1. row + 1 \in DOMAIN cs
    OBVIOUS
  <2> QED
    BY <2>1 DEF Accepts, Mask
<1>2. Pack(0, cs).width = 0
  BY DEF Pack
<1> QED
  BY <1>1, <1>2 DEF PackedValue

-----------------------------------------------------------------------------
PackInv ==
  /\ width \in Nat /\ codes \in Seq(Code)
  /\ packed = Pack(width, codes)

LEMMA PackInvariant == Spec => []PackInv
<1>1. Init => PackInv
  BY BitsAssumption DEF Init, PackInv
<1>2. PackInv /\ [Next]_packVars => PackInv'
  BY DEF PackInv, Next, Longer, packVars
<1> QED
  BY <1>1, <1>2, PTL DEF Spec

LEMMA PackedAccepted ==
  ASSUME PackInv, packed # Rejected
  PROVE  Accepts(width, codes) /\ (width # 0 => Accepted(width, codes))
BY DEF PackInv, Pack, Accepts, Accepted

\* Every code is read as it was written, for every word size and width, whether it
\* lies in one word or in two.
THEOREM CodesRoundTrip == Spec => []RoundTrip
<1>1. PackInv => RoundTrip
  <2> SUFFICES ASSUME PackInv, packed # Rejected, NEW row \in 0..(Len(codes) - 1)
               PROVE  PackedValue(packed, row) = codes[row + 1]
    BY DEF RoundTrip
  <2> QED
    BY PackedAccepted, ReadBack, ReadNothing DEF PackInv
<1> QED
  BY <1>1, PackInvariant, PTL

\* Neither packing nor reading touches a word that is not allocated.
THEOREM WordsAreAllocated == Spec => []AccessesInBounds
<1>1. PackInv => AccessesInBounds
  <2> SUFFICES ASSUME PackInv, packed # Rejected, packed.width # 0,
                      NEW row \in 0..(packed.size - 1)
               PROVE  /\ WordIndex(packed.width, row) \in DOMAIN packed.words
                      /\ Straddles(packed.width, row) =>
                           WordIndex(packed.width, row) + 1 \in DOMAIN packed.words
    BY DEF AccessesInBounds
  <2>1. packed = Pack(width, codes) /\ Accepts(width, codes)
    BY PackedAccepted DEF PackInv
  <2>2. packed.width = width
    BY <2>1 DEF Pack
  <2>3. Accepted(width, codes)
    BY <2>2, PackedAccepted
  <2>4. packed.size = Len(codes) /\ DOMAIN packed.words = 0..(WordCount(width, Len(codes)) - 1)
    BY <2>1, <2>3, PackAccepted
  <2>5. row \in 0..(Len(codes) - 1)
    BY <2>4
  <2> QED
    BY <2>2, <2>3, <2>4, <2>5, AccessesAllocated
<1> QED
  BY <1>1, PackInvariant, PTL
-----------------------------------------------------------------------------
(* Powers of two *)

Doubled(f, k) == IF k = 0 THEN 1 ELSE 2 * f[k - 1]
IsPowers(f, n) == f = [k \in 0..n |-> Doubled(f, k)]

LEMMA PowersExist ==
  ASSUME NEW n \in Nat
  PROVE  \E f : IsPowers(f, n)
<1> DEFINE S == {m \in Nat : \E f : IsPowers(f, m)}
<1>1. 0 \in S
  <2> DEFINE f == [k \in 0..0 |-> 1]
  <2>1. f = [k \in 0..0 |-> Doubled(f, k)]
    BY DEF Doubled
  <2> HIDE DEF f
  <2>2. IsPowers(f, 0)
    BY <2>1 DEF IsPowers
  <2> QED
    BY <2>2
<1>2. ASSUME NEW m \in Nat, m \in S PROVE m + 1 \in S
  <2>1. PICK f : IsPowers(f, m)
    BY <1>2
  <2>2. f = [k \in 0..m |-> Doubled(f, k)]
    BY <2>1 DEF IsPowers
  <2> DEFINE g == [k \in 0..(m + 1) |-> IF k = m + 1 THEN Doubled(f, k) ELSE f[k]]
  <2>3. ASSUME NEW k \in 0..(m + 1) PROVE g[k] = Doubled(g, k)
    <3>1. CASE k = m + 1
      <4>1. g[k] = Doubled(f, k) /\ k - 1 = m /\ k # 0 /\ m \in 0..(m + 1) /\ m # m + 1
        BY <3>1
      <4>2. g[m] = f[m]
        BY <4>1
      <4> HIDE DEF g
      <4> QED
        BY <4>1, <4>2 DEF Doubled
    <3>2. CASE k # m + 1
      <4>1. k \in 0..m /\ g[k] = f[k] /\ f[k] = Doubled(f, k)
        BY <2>2, <3>2
      <4>2. k # 0 => k - 1 \in 0..(m + 1) /\ k - 1 # m + 1
        BY <4>1
      <4>3. k # 0 => g[k - 1] = f[k - 1]
        BY <4>2
      <4> HIDE DEF g
      <4> QED
        BY <4>1, <4>3 DEF Doubled
    <3> QED
      BY <3>1, <3>2
  <2>4. g = [k \in 0..(m + 1) |-> g[k]]
    OBVIOUS
  <2> HIDE DEF g
  <2>5. IsPowers(g, m + 1)
    BY <2>3, <2>4 DEF IsPowers
  <2> QED
    BY <2>5
<1> HIDE DEF S
<1>3. n \in S
  BY <1>1, <1>2, SetInduction
<1> QED
  BY <1>3 DEF S

LEMMA PowersAgree ==
  ASSUME NEW n \in Nat, NEW m \in Nat, n <= m,
         NEW f, IsPowers(f, n), NEW g, IsPowers(g, m)
  PROVE  f[n] = g[n]
<1> DEFINE S == {i \in Nat : i <= n => f[i] = g[i]}
<1>1. /\ \A i \in 0..n : f[i] = Doubled(f, i)
      /\ \A i \in 0..n : g[i] = Doubled(g, i)
  <2>1. \A i \in 0..n : i \in 0..m
    OBVIOUS
  <2> QED
    BY <2>1 DEF IsPowers
<1>2. 0 \in S
  BY <1>1 DEF Doubled
<1>3. ASSUME NEW i \in Nat, i \in S PROVE i + 1 \in S
  <2> SUFFICES ASSUME i + 1 <= n PROVE f[i + 1] = g[i + 1]
    OBVIOUS
  <2>1. i + 1 \in 0..n /\ i <= n /\ i + 1 # 0 /\ i + 1 - 1 = i
    OBVIOUS
  <2>2. f[i] = g[i]
    BY <1>3, <2>1
  <2> QED
    BY <1>1, <2>1, <2>2 DEF Doubled
<1> HIDE DEF S
<1>4. n \in S
  BY <1>2, <1>3, SetInduction
<1> QED
  BY <1>4 DEF S

LEMMA Doubling ==
  ASSUME NEW n \in Nat
  PROVE  PowerOf2[0] = 1 /\ PowerOf2[n + 1] = 2 * PowerOf2[n]
<1> DEFINE upTo(m) == CHOOSE f : IsPowers(f, m)
           P == [m \in Nat |-> upTo(m)[m]]
<1>1. \A m \in Nat : IsPowers(upTo(m), m)
  BY PowersExist
<1> HIDE DEF upTo
<1>2. ASSUME NEW m \in Nat PROVE P[m] = Doubled(P, m)
  <2>1. upTo(m)[m] = Doubled(upTo(m), m)
    BY <1>1 DEF IsPowers
  <2>2. m # 0 => m - 1 \in Nat /\ m - 1 <= m
    OBVIOUS
  <2>3. m # 0 => upTo(m - 1)[m - 1] = upTo(m)[m - 1]
    BY <1>1, <2>2, PowersAgree
  <2>4. P[m] = upTo(m)[m] /\ (m # 0 => P[m - 1] = upTo(m - 1)[m - 1])
    BY <2>2
  <2> HIDE DEF P
  <2> QED
    BY <2>1, <2>3, <2>4 DEF Doubled
<1>3. P = [m \in Nat |-> P[m]]
  OBVIOUS
<1> HIDE DEF P
<1>4. P = [m \in Nat |-> IF m = 0 THEN 1 ELSE 2 * P[m - 1]]
  BY <1>2, <1>3 DEF Doubled
<1>5. PowerOf2 = [m \in Nat |-> IF m = 0 THEN 1 ELSE 2 * PowerOf2[m - 1]]
  BY <1>4 DEF PowerOf2
<1>6. n + 1 \in Nat /\ n + 1 # 0 /\ n + 1 - 1 = n
  OBVIOUS
<1> QED
  BY <1>5, <1>6

LEMMA PowerType ==
  ASSUME NEW n \in Nat
  PROVE  PowerOf2[n] \in Nat \ {0} /\ n < PowerOf2[n]
<1> DEFINE S == {m \in Nat : PowerOf2[m] \in Nat \ {0} /\ m < PowerOf2[m]}
<1>1. 0 \in S
  BY Doubling
<1>2. ASSUME NEW m \in Nat, m \in S PROVE m + 1 \in S
  <2>1. PowerOf2[m + 1] = 2 * PowerOf2[m] /\ PowerOf2[m] \in Nat \ {0} /\ m < PowerOf2[m]
    BY <1>2, Doubling
  <2> QED
    BY <2>1
<1> HIDE DEF S
<1>3. n \in S
  BY <1>1, <1>2, SetInduction
<1> QED
  BY <1>3 DEF S

LEMMA PowersGrow ==
  ASSUME NEW n \in Nat, NEW m \in Nat, n <= m
  PROVE  PowerOf2[n] <= PowerOf2[m]
<1> DEFINE S == {k \in Nat : PowerOf2[n] <= PowerOf2[n + k]}
<1>1. 0 \in S
  <2>1. n + 0 = n /\ PowerOf2[n] \in Nat
    BY PowerType
  <2> QED
    BY <2>1
<1>2. ASSUME NEW k \in Nat, k \in S PROVE k + 1 \in S
  <2>1. n + k \in Nat /\ n + (k + 1) = (n + k) + 1
    OBVIOUS
  <2>2. PowerOf2[(n + k) + 1] = 2 * PowerOf2[n + k] /\ PowerOf2[n + k] \in Nat
    BY <2>1, Doubling, PowerType
  <2>3. PowerOf2[n] <= PowerOf2[n + k] /\ PowerOf2[n] \in Nat
    BY <1>2, PowerType
  <2>4. PowerOf2[n] <= PowerOf2[n + (k + 1)]
    BY <2>1, <2>2, <2>3
  <2> QED
    BY <2>4
<1> HIDE DEF S
<1>3. m - n \in Nat /\ n + (m - n) = m
  OBVIOUS
<1>4. m - n \in S
  BY <1>1, <1>2, <1>3, SetInduction
<1> QED
  BY <1>3, <1>4 DEF S
-----------------------------------------------------------------------------
(* Ids and their bits *)

LEMMA BetweenPowers ==
  ASSUME NEW m \in Nat \ {0}
  PROVE  \E n \in 1..m : PowerOf2[n - 1] <= m /\ m < PowerOf2[n]
<1> DEFINE Found(k) == \E n \in 1..k : PowerOf2[n - 1] <= m /\ m < PowerOf2[n]
           S == {k \in Nat : m < PowerOf2[k] => Found(k)}
<1>1. 0 \in S
  BY Doubling
<1>2. ASSUME NEW k \in Nat, k \in S PROVE k + 1 \in S
  <2> SUFFICES ASSUME m < PowerOf2[k + 1] PROVE Found(k + 1)
    OBVIOUS
  <2>1. CASE m < PowerOf2[k]
    <3>1. Found(k)
      BY <1>2, <2>1
    <3>2. \A n \in 1..k : n \in 1..(k + 1)
      OBVIOUS
    <3> QED
      BY <3>1, <3>2
  <2>2. CASE ~(m < PowerOf2[k])
    <3>1. PowerOf2[k] <= m
      BY <2>2, PowerType
    <3>2. k + 1 \in 1..(k + 1) /\ (k + 1) - 1 = k
      OBVIOUS
    <3> QED
      BY <3>1, <3>2
  <2> QED
    BY <2>1, <2>2
<1> HIDE DEF S, Found
<1>3. m \in S
  BY <1>1, <1>2, SetInduction
<1>4. Found(m)
  BY <1>3, PowerType DEF S
<1> QED
  BY <1>4 DEF Found

\* The width chosen for a dictionary is one of a ValueId, and has room for its ids and
\* for the code 0 of a null row.
LEMMA WidthFacts ==
  ASSUME NEW count \in 0..MaxId
  PROVE  /\ CodeBitWidth(count) \in Nat /\ CodeBitWidth(count) <= IdBits
         /\ \A id \in Nat : id < count \/ id = 0 => id < PowerOf2[CodeBitWidth(count)]
<1> DEFINE w == CodeBitWidth(count)
<1>1. count \in Nat /\ IdBits \in Nat /\ PowerOf2[IdBits] \in Nat /\ count < PowerOf2[IdBits]
  BY BitsAssumption, WidthAssumption, IdAssumption, PowerType
<1>2. CASE count <= 1
  <2>1. w = 0 /\ PowerOf2[0] = 1
    BY <1>2, Doubling DEF CodeBitWidth
  <2> HIDE DEF w
  <2>2. w \in Nat /\ w <= IdBits /\ \A id \in Nat : id < count \/ id = 0 => id < PowerOf2[w]
    BY <1>1, <1>2, <2>1
  <2> QED
    BY <2>2 DEF w
<1>3. CASE count > 1
  <2> DEFINE Between(n) == PowerOf2[n - 1] <= count - 1 /\ count - 1 < PowerOf2[n]
  <2>1. count - 1 \in Nat \ {0}
    BY <1>1, <1>3
  <2>2. \E n \in 1..(count - 1) : Between(n)
    BY <2>1, BetweenPowers
  <2>3. \E n \in 1..count : Between(n)
    BY <1>1, <2>2
  <2>4. w = CHOOSE n \in 1..count : Between(n)
    BY <1>1, <1>3 DEF CodeBitWidth
  <2> HIDE DEF w, Between
  <2>5. w \in 1..count /\ Between(w)
    BY <2>3, <2>4
  <2>6. w \in Nat /\ w - 1 \in Nat /\ PowerOf2[w - 1] \in Nat /\ PowerOf2[w] \in Nat
    BY <2>5, PowerType
  <2>7. w <= IdBits
    <3> SUFFICES ASSUME IdBits <= w - 1 PROVE FALSE
      BY <1>1, <2>6
    <3>1. PowerOf2[IdBits] <= PowerOf2[w - 1]
      BY <1>1, <2>6, PowersGrow
    <3> QED
      BY <1>1, <2>5, <2>6, <3>1 DEF Between
  <2>8. \A id \in Nat : id < count \/ id = 0 => id < PowerOf2[w]
    BY <1>1, <1>3, <2>5, <2>6 DEF Between
  <2> QED
    BY <2>6, <2>7, <2>8 DEF w
<1> QED
  BY <1>1, <1>2, <1>3

LEMMA BitsInMask ==
  ASSUME NEW n \in Nat, NEW id \in Nat, id < PowerOf2[n]
  PROVE  BitsOf(id) \subseteq Mask(n) /\ BitsOf(id) \in Code
<1>1. ASSUME NEW b \in Nat, n <= b PROVE id \div PowerOf2[b] = 0
  <2> DEFINE p == PowerOf2[b]
  <2>1. p \in Nat \ {0} /\ id < p
    BY <1>1, PowerType, PowersGrow
  <2> HIDE DEF p
  <2>2. id \in 0..(p - 1) /\ p * 0 + id = id
    BY <2>1
  <2>3. (p * 0 + id) \div p = 0
    BY <2>1, <2>2, DivisionUnique
  <2>4. id \div p = 0
    BY <2>2, <2>3
  <2> QED
    BY <2>4 DEF p
<1>2. ASSUME NEW b \in BitsOf(id) PROVE b \in 0..(n - 1)
  <2>1. b \in Nat /\ (id \div PowerOf2[b]) % 2 = 1
    BY BitsAssumption DEF BitsOf
  <2>2. ~(n <= b)
    BY <1>1, <2>1
  <2> QED
    BY <2>1, <2>2
<1>3. BitsOf(id) \in Code
  BY DEF BitsOf, Code
<1> QED
  BY <1>2, <1>3 DEF Mask

\* A remainder by a power of two and the next bit give the remainder by the next power.
LEMMA NextBit ==
  ASSUME NEW x \in Nat, NEW p \in Nat \ {0}
  PROVE  x % (2 * p) = (x % p) + p * ((x \div p) % 2)
<1>1. PICK q \in Nat, r \in 0..(p - 1) : x \div p = q /\ x % p = r /\ x = p * q + r
  BY Division
<1>2. PICK h \in Nat, t \in 0..1 : q \div 2 = h /\ q % 2 = t /\ q = 2 * h + t
  BY Division
<1>3. p * q = (2 * p) * h + p * t
  <2>1. p * (2 * h + t) = p * (2 * h) + p * t
    OBVIOUS
  <2>2. p * (2 * h) = (2 * p) * h
    OBVIOUS
  <2> QED
    BY <1>2, <2>1, <2>2
<1>4. p * t \in 0..p /\ (t = 0 => p * t = 0) /\ (t = 1 => p * t = p)
  <2>1. t = 0 \/ t = 1
    OBVIOUS
  <2> QED
    BY <2>1
<1>5. (2 * p) \in Nat \ {0} /\ (p * t + r) \in 0..((2 * p) - 1)
  BY <1>4
<1>6. ((2 * p) * h + (p * t + r)) % (2 * p) = p * t + r
  BY <1>5, DivisionUnique
<1>7. x = (2 * p) * h + (p * t + r)
  <2> DEFINE y == (2 * p) * h
             z == p * t
  <2>1. y \in Int /\ z \in Int /\ x = y + z + r
    BY <1>1, <1>3
  <2> HIDE DEF y, z
  <2>2. x = y + (z + r)
    BY <2>1
  <2> QED
    BY <2>2 DEF y, z
<1>8. x % (2 * p) = p * t + r
  BY <1>6, <1>7
<1>9. (x % p) + p * ((x \div p) % 2) = r + p * t
  BY <1>1, <1>2
<1> QED
  BY <1>4, <1>8, <1>9

\* An id is the only one that has its bits.
LEMMA BitsIdentify ==
  ASSUME NEW x \in 0..MaxId, NEW y \in 0..MaxId, BitsOf(x) = BitsOf(y)
  PROVE  x = y
<1> DEFINE S == {n \in Nat : n <= IdBits => x % PowerOf2[n] = y % PowerOf2[n]}
<1>1. x \in Nat /\ y \in Nat /\ IdBits \in Nat
  BY BitsAssumption, IdAssumption
<1>2. 0 \in S
  <2>1. x % 1 = y % 1
    BY <1>1
  <2> QED
    BY <2>1, Doubling
<1>3. ASSUME NEW n \in Nat, n \in S PROVE n + 1 \in S
  <2> SUFFICES ASSUME n + 1 <= IdBits PROVE x % PowerOf2[n + 1] = y % PowerOf2[n + 1]
    OBVIOUS
  <2> DEFINE p == PowerOf2[n]
  <2>1. p \in Nat \ {0} /\ PowerOf2[n + 1] = 2 * p
    BY PowerType, Doubling
  <2>2. x % p = y % p
    BY <1>1, <1>3
  <2>3. n \in 0..(IdBits - 1)
    BY <1>1
  <2>4. (x \div p) % 2 = 1 <=> (y \div p) % 2 = 1
    BY <2>3 DEF BitsOf
  <2> HIDE DEF p
  <2>5. (x \div p) % 2 \in 0..1 /\ (y \div p) % 2 \in 0..1
    <3>1. x \div p \in Nat /\ y \div p \in Nat
      BY <1>1, <2>1, Division
    <3> QED
      BY <3>1
  <2>6. (x \div p) % 2 = (y \div p) % 2
    BY <2>4, <2>5
  <2>7. x % (2 * p) = (x % p) + p * ((x \div p) % 2) /\ y % (2 * p) = (y % p) + p * ((y \div p) % 2)
    BY <1>1, <2>1, NextBit
  <2> QED
    BY <2>1, <2>2, <2>6, <2>7
<1> HIDE DEF S
<1>4. IdBits \in S
  BY <1>1, <1>2, <1>3, SetInduction
<1>5. x % PowerOf2[IdBits] = y % PowerOf2[IdBits]
  BY <1>1, <1>4 DEF S
<1>6. PowerOf2[IdBits] \in Nat \ {0} /\ MaxId = PowerOf2[IdBits] - 1
  BY <1>1, WidthAssumption, PowerType
<1> QED
  BY <1>5, <1>6, SmallRemainder
-----------------------------------------------------------------------------
(* The packed column *)

\* The arguments make_codes gives to the PackedCodeVector.
WidthOf(rows) == CodeBitWidth(Len(BuildEncoded(rows).dictionary))
BitCodes(rows) ==
  [i \in DOMAIN BuildEncoded(rows).codes |-> BitsOf(BuildEncoded(rows).codes[i])]

LEMMA EncodedShape ==
  ASSUME NEW rows \in Seq(Row), Encodable(rows), Fits(rows)
  PROVE  LET built == BuildEncoded(rows)
         IN  /\ built = [dictionary |-> built.dictionary, codes |-> built.codes,
                         valid |-> built.valid]
             /\ built.dictionary \in Seq(Values) /\ Len(built.dictionary) \in 0..MaxId
             /\ built.valid \in [1..Len(rows) -> BOOLEAN]
             /\ built.codes \in [1..Len(rows) -> 0..MaxId]
             /\ \A i \in 1..Len(rows) :
                  built.codes[i] = 0 \/ built.codes[i] < Len(built.dictionary)
<1> DEFINE built == BuildEncoded(rows)
           d == Dictionary(NonNull(rows))
           made == [i \in DOMAIN rows |-> IF rows[i] = Null THEN 0 ELSE Find(d, rows[i])]
           valid == [i \in DOMAIN rows |-> rows[i] # Null]
<1>1. built = [dictionary |-> d, codes |-> made, valid |-> valid]
  BY DEF BuildEncoded, Fits, NonNull
<1>2. Len(rows) \in Nat /\ DOMAIN rows = 1..Len(rows)
  BY LenProperties
<1>3. IsDictionary(d) /\ FitsIds(d)
  BY NonNullBounded, DictionaryFacts DEF Fits
<1>4. Len(d) \in 0..MaxId /\ d \in Seq(Values)
  <2>1. Len(d) \in Nat /\ d \in [1..Len(d) -> Values]
    BY <1>3 DEF IsDictionary, Supported
  <2>2. d \in Seq(Values)
    BY <2>1, FunctionIsSequence
  <2> QED
    BY <1>3, <2>1, <2>2, IdAssumption DEF FitsIds
<1>5. built.dictionary = d /\ built.codes = made /\ built.valid = valid
  BY <1>1
<1>6. ASSUME NEW i \in 1..Len(rows)
      PROVE  built.codes[i] \in 0..MaxId /\ (built.codes[i] = 0 \/ built.codes[i] < Len(d))
  <2>1. i - 1 \in 0..(Len(rows) - 1) /\ (i - 1) + 1 = i
    BY <1>2
  <2>2. rows[i] # Null => built.codes[i] + 1 \in 1..Len(d) /\ built.codes[i] \in Nat
    <3>1. rows[(i - 1) + 1] # Null => built.codes[(i - 1) + 1] + 1 \in 1..Len(built.dictionary)
                                      /\ built.codes[(i - 1) + 1] \in Nat
      BY <2>1, EncodedRows
    <3> QED
      BY <1>5, <2>1, <3>1
  <2>3. rows[i] = Null => built.codes[i] = 0
    BY <1>2, <1>5
  <2> HIDE DEF built, d
  <2> QED
    BY <1>4, <2>2, <2>3, IdAssumption
<1>7. built.valid \in [1..Len(rows) -> BOOLEAN]
  BY <1>2, <1>5
<1>8. DOMAIN built.codes = 1..Len(rows) /\ built.codes = [i \in 1..Len(rows) |-> built.codes[i]]
  BY <1>2, <1>5
<1> HIDE DEF built, d, made, valid
<1>9. built.codes \in [1..Len(rows) -> 0..MaxId]
  BY <1>6, <1>8
<1>10. built = [dictionary |-> built.dictionary, codes |-> built.codes, valid |-> built.valid]
  BY <1>1, <1>5
<1> QED
  BY <1>4, <1>5, <1>6, <1>7, <1>9, <1>10 DEF built

\* The width is one that the constructor takes, and every code fits.
LEMMA CodesFit ==
  ASSUME NEW rows \in Seq(Row), Encodable(rows), Fits(rows)
  PROVE  /\ WidthOf(rows) \in Nat /\ WidthOf(rows) <= IdBits
         /\ BitCodes(rows) \in Seq(Code)
         /\ Len(BitCodes(rows)) = Len(rows) /\ DOMAIN BitCodes(rows) = 1..Len(rows)
         /\ \A i \in 1..Len(rows) :
              /\ BitCodes(rows)[i] = BitsOf(BuildEncoded(rows).codes[i])
              /\ BitCodes(rows)[i] \subseteq Mask(WidthOf(rows))
<1> DEFINE made == BuildEncoded(rows).codes
           count == Len(BuildEncoded(rows).dictionary)
<1>1. /\ count \in 0..MaxId /\ made \in [1..Len(rows) -> 0..MaxId]
      /\ \A i \in 1..Len(rows) : made[i] = 0 \/ made[i] < count
  BY EncodedShape
<1>2. WidthOf(rows) = CodeBitWidth(count) /\ BitCodes(rows) = [i \in DOMAIN made |-> BitsOf(made[i])]
  BY DEF WidthOf, BitCodes
<1> HIDE DEF made, count
<1>3. /\ WidthOf(rows) \in Nat /\ WidthOf(rows) <= IdBits
      /\ \A id \in Nat : id < count \/ id = 0 => id < PowerOf2[WidthOf(rows)]
  BY <1>1, <1>2, WidthFacts
<1>4. BitCodes(rows) = [i \in 1..Len(rows) |-> BitsOf(made[i])]
  BY <1>1, <1>2
<1>5. ASSUME NEW i \in 1..Len(rows)
      PROVE  BitsOf(made[i]) \in Code /\ BitsOf(made[i]) \subseteq Mask(WidthOf(rows))
  <2>1. made[i] \in Nat /\ made[i] < PowerOf2[WidthOf(rows)]
    BY <1>1, <1>3, IdAssumption
  <2> QED
    BY <1>3, <2>1, BitsInMask
<1>6. BitCodes(rows) \in [1..Len(rows) -> Code]
  BY <1>4, <1>5
<1>7. Len(rows) \in Nat
  BY LenProperties
<1>8. BitCodes(rows) \in Seq(Code) /\ Len(BitCodes(rows)) = Len(rows)
      /\ DOMAIN BitCodes(rows) = 1..Len(rows)
  BY <1>6, <1>7, FunctionIsSequence
<1> QED
  BY <1>3, <1>4, <1>5, <1>8 DEF made

\* A packed column that was built is the fixed one, but for the vector of its codes.
LEMMA PackedBuilt ==
  ASSUME NEW rows \in Seq(Row), BuildPacked(rows) # Thrown
  PROVE  /\ Encodable(rows) /\ Fits(rows) /\ Accepts(WidthOf(rows), BitCodes(rows))
         /\ BuildPacked(rows)
              = [BuildEncoded(rows) EXCEPT !.codes = Pack(WidthOf(rows), BitCodes(rows))]
<1> DEFINE built == BuildEncoded(rows)
           vector == Pack(WidthOf(rows), BitCodes(rows))
<1>1. BuildPacked(rows) = IF built = Thrown THEN Thrown
                          ELSE IF vector = Rejected THEN Thrown
                          ELSE [built EXCEPT !.codes = vector]
  BY DEF BuildPacked, MakePackedCodes, WidthOf, BitCodes
<1>2. built # Thrown
  BY <1>1
<1>3. vector # Rejected
  BY <1>1
<1>4. Encodable(rows) /\ Fits(rows)
  BY <1>2 DEF BuildEncoded, Fits, NonNull
<1>5. Accepts(WidthOf(rows), BitCodes(rows))
  BY <1>3 DEF Pack
<1>6. BuildPacked(rows) = [built EXCEPT !.codes = vector]
  <2> HIDE DEF built, vector
  <2> QED
    BY <1>1, <1>2, <1>3
<1> QED
  BY <1>4, <1>5, <1>6

\* Every id is read as it was packed.
LEMMA IdsRead ==
  ASSUME NEW rows \in Seq(Row), BuildPacked(rows) # Thrown, NEW row \in 0..(Len(rows) - 1)
  PROVE  PackedId(BuildPacked(rows), row) = BuildEncoded(rows).codes[row + 1]
<1> DEFINE n == WidthOf(rows)
           cs == BitCodes(rows)
           id == BuildEncoded(rows).codes[row + 1]
<1>1. Encodable(rows) /\ Fits(rows) /\ Accepts(n, cs)
  BY PackedBuilt
<1>2. n \in Nat /\ n <= IdBits /\ cs \in Seq(Code) /\ Len(cs) = Len(rows)
  BY <1>1, CodesFit
<1>3. row + 1 \in 1..Len(rows)
  BY LenProperties
<1>4. id \in 0..MaxId /\ cs[row + 1] = BitsOf(id)
  BY <1>1, <1>3, CodesFit, EncodedShape
<1>5. BuildPacked(rows).codes = Pack(n, cs)
  <2>1. BuildPacked(rows) = [BuildEncoded(rows) EXCEPT !.codes = Pack(n, cs)]
    BY PackedBuilt
  <2>2. BuildEncoded(rows) = [dictionary |-> BuildEncoded(rows).dictionary,
                              codes |-> BuildEncoded(rows).codes,
                              valid |-> BuildEncoded(rows).valid]
    BY <1>1, EncodedShape
  <2> HIDE DEF n, cs
  <2> QED
    BY <2>1, <2>2
<1> HIDE DEF n, cs, id
<1>6. PackedValue(Pack(n, cs), row) = cs[row + 1]
  <2>1. row \in 0..(Len(cs) - 1)
    BY <1>2
  <2>2. CASE n = 0
    BY <1>1, <1>2, <2>1, <2>2, ReadNothing
  <2>3. CASE n # 0
    <3>1. Accepted(n, cs)
      BY <1>1, <1>2, <2>3 DEF Accepts, Accepted
    <3> QED
      BY <2>1, <3>1, ReadBack
  <2> QED
    BY <2>2, <2>3
<1>7. PackedId(BuildPacked(rows), row) = CHOOSE x \in 0..MaxId : BitsOf(x) = BitsOf(id)
  BY <1>4, <1>5, <1>6 DEF PackedId
<1>8. \A x \in 0..MaxId : BitsOf(x) = BitsOf(id) => x = id
  BY <1>4, BitsIdentify
<1>9. PackedId(BuildPacked(rows), row) = id
  BY <1>4, <1>7, <1>8
<1> QED
  BY <1>9 DEF id

LEMMA UnpackedIsFixed ==
  ASSUME NEW rows \in Seq(Row), BuildPacked(rows) # Thrown
  PROVE  Unpacked(BuildPacked(rows)) = BuildEncoded(rows)
<1> DEFINE built == BuildEncoded(rows)
           vector == Pack(WidthOf(rows), BitCodes(rows))
           ids == [k \in 1..Len(rows) |-> PackedId(BuildPacked(rows), k - 1)]
<1>1. Encodable(rows) /\ Fits(rows) /\ Accepts(WidthOf(rows), BitCodes(rows))
      /\ BuildPacked(rows) = [built EXCEPT !.codes = vector]
  BY PackedBuilt
<1>2. /\ built = [dictionary |-> built.dictionary, codes |-> built.codes, valid |-> built.valid]
      /\ built.codes \in [1..Len(rows) -> 0..MaxId]
  BY <1>1, EncodedShape
<1>3. vector.size = Len(rows)
  <2>1. vector.size = Len(BitCodes(rows))
    BY <1>1 DEF Pack
  <2> QED
    BY <1>1, <2>1, CodesFit
<1>4. ASSUME NEW k \in 1..Len(rows) PROVE ids[k] = built.codes[k]
  <2>1. k - 1 \in 0..(Len(rows) - 1) /\ (k - 1) + 1 = k
    BY LenProperties
  <2> QED
    BY <2>1, IdsRead
<1> HIDE DEF built, vector
<1>5. ids = built.codes
  BY <1>2, <1>4
<1>6. BuildPacked(rows) = [dictionary |-> built.dictionary, codes |-> vector,
                           valid |-> built.valid]
  BY <1>1, <1>2
<1>7. BuildPacked(rows).codes.size = Len(rows)
  BY <1>3, <1>6
<1>8. Unpacked(BuildPacked(rows)) = [BuildPacked(rows) EXCEPT !.codes = ids]
  <2> DEFINE column == BuildPacked(rows)
             read == [k \in 1..column.codes.size |-> PackedId(column, k - 1)]
  <2>1. read = ids
    BY <1>7
  <2>2. Unpacked(column) = [column EXCEPT !.codes = read]
    BY DEF Unpacked
  <2> HIDE DEF column, read, ids
  <2>3. Unpacked(column) = [column EXCEPT !.codes = ids]
    BY <2>1, <2>2
  <2> QED
    BY <2>3 DEF column
<1> HIDE DEF ids
<1> QED
  BY <1>2, <1>5, <1>6, <1>8 DEF built

-----------------------------------------------------------------------------
ColumnInv ==
  /\ source \in Seq(Row) /\ Len(source) <= MaxRows
  /\ fixedColumn = BuildEncoded(source)
  /\ packedColumn = BuildPacked(source)

LEMMA ColumnInvariant == ColumnSpec => []ColumnInv
<1>1. ColumnInit => ColumnInv
  <2> SUFFICES ASSUME ColumnInit PROVE ColumnInv
    OBVIOUS
  <2>1. source \in Seq(Row) /\ Len(source) = 0
    BY EmptySeq DEF ColumnInit
  <2> QED
    BY <2>1, WidthAssumption DEF ColumnInit, ColumnInv
<1>2. ColumnInv /\ [ColumnNext]_columnVars => ColumnInv'
  <2> SUFFICES ASSUME ColumnInv, [ColumnNext]_columnVars PROVE ColumnInv'
    OBVIOUS
  <2>1. ASSUME NEW row \in Row, AppendSource(row) PROVE ColumnInv'
    <3>1. source' \in Seq(Row) /\ Len(source') = Len(source) + 1
      BY <2>1, AppendProperties DEF AppendSource, ColumnInv
    <3>2. Len(source') <= MaxRows
      BY <2>1, <3>1, WidthAssumption, LenProperties DEF AppendSource, ColumnInv
    <3> QED
      BY <2>1, <3>1, <3>2 DEF AppendSource, ColumnInv
  <2>2. CASE UNCHANGED columnVars
    BY <2>2 DEF ColumnInv, columnVars
  <2> QED
    BY <2>1, <2>2 DEF ColumnNext
<1> QED
  BY <1>1, <1>2, PTL DEF ColumnSpec

\* A packed column shows the ids of the fixed one, and both give the rows back, -0.0 as
\* +0.0, for every source, dictionary and width.
THEOREM PackedIsFixed == ColumnSpec => []PackedDecodesAlike
<1>1. ColumnInv => PackedDecodesAlike
  <2> SUFFICES ASSUME ColumnInv, packedColumn # Thrown
               PROVE  /\ Unpacked(packedColumn) = fixedColumn
                      /\ ColumnSize(fixedColumn) = Len(source)
                      /\ \A i \in 0..(Len(source) - 1) :
                           DecodedRow(Unpacked(packedColumn), i) = Canonical(source[i + 1])
    BY DEF PackedDecodesAlike
  <2>1. /\ source \in Seq(Row) /\ BuildPacked(source) # Thrown
        /\ fixedColumn = BuildEncoded(source) /\ packedColumn = BuildPacked(source)
    BY DEF ColumnInv
  <2>2. Unpacked(packedColumn) = fixedColumn
    BY <2>1, UnpackedIsFixed
  <2>3. Encodable(source) /\ Fits(source)
    BY <2>1, PackedBuilt
  <2>4. /\ ColumnSize(BuildEncoded(source)) = Len(source)
        /\ \A i \in 0..(Len(source) - 1) :
             /\ ColumnIsNull(BuildEncoded(source), i) <=> source[i + 1] = Null
             /\ source[i + 1] # Null =>
                  BuildEncoded(source).dictionary[BuildEncoded(source).codes[i + 1] + 1]
                    = Canonical(source[i + 1])
    BY <2>1, <2>3, EncodedRows
  <2>5. Canonical(Null) = Null
    BY ValuesAssumption DEF Canonical
  <2>6. \A i \in 0..(Len(source) - 1) : DecodedRow(fixedColumn, i) = Canonical(source[i + 1])
    BY <2>1, <2>4, <2>5 DEF DecodedRow, ColumnValue
  <2> QED
    BY <2>1, <2>2, <2>4, <2>6
<1> QED
  BY <1>1, ColumnInvariant, PTL

\* Predicates on packed ids answer what a scan of the source would, for every source,
\* operator and target.
THEOREM PackedQueriesAreScans == ColumnSpec => []PackedQueriesMatch
<1>1. ColumnInv => PackedQueriesMatch
  <2> SUFFICES ASSUME ColumnInv, packedColumn # Thrown, NEW op \in Ops, NEW target \in Values
               PROVE  MainMatches(Unpacked(packedColumn), op, target)
                        = QueryOf(source, op, target)
    BY DEF PackedQueriesMatch
  <2>1. source \in Seq(Row) /\ BuildPacked(source) # Thrown
        /\ packedColumn = BuildPacked(source)
    BY DEF ColumnInv
  <2>2. Unpacked(packedColumn) = BuildEncoded(source)
    BY <2>1, UnpackedIsFixed
  <2>3. Encodable(source) /\ Fits(source)
    BY <2>1, PackedBuilt
  <2>4. MainMatches(BuildEncoded(source), op, target) = QueryOf(source, op, target)
    BY <2>1, <2>3, MainAnswers
  <2> QED
    BY <2>2, <2>4
<1> QED
  BY <1>1, ColumnInvariant, PTL

-----------------------------------------------------------------------------
(* Refusals *)

\* What the constructor makes of codes it accepts.
LEMMA PackType ==
  ASSUME NEW n \in Nat, n <= IdBits, NEW cs \in Seq(Code), Accepts(n, cs)
  PROVE  Pack(n, cs) \in PackedVector
<1> DEFINE last == IF n = 0 THEN -1 ELSE WordCount(n, Len(cs)) - 1
           words == [j \in 0..last |->
                       UNION {Contribution(n, cs, row, j) : row \in 0..(Len(cs) - 1)}]
           Word == SUBSET (0..(WordBits - 1))
<1>1. Pack(n, cs) = [size |-> Len(cs), width |-> n, words |-> words]
  BY DEF Pack
<1>2. Len(cs) \in Nat
  BY LenProperties
<1>3. last + 1 \in 0..(SizeMax + 1) /\ (last + 1) - 1 = last /\ words \in [0..last -> Word]
  <2>1. CASE n = 0
    <3>1. last = -1 /\ 0..last = {}
      BY <2>1
    <3> QED
      BY <3>1, BitsAssumption
  <2>2. CASE n # 0
    <3>1. Accepted(n, cs)
      BY <2>2 DEF Accepts, Accepted
    <3> DEFINE total == (Len(cs) * n) % (SizeMax + 1)
    <3>2. total \in 0..SizeMax /\ total \in Nat
      <4>1. Len(cs) * n \in Nat /\ SizeMax + 1 \in Nat \ {0}
        BY <1>2, BitsAssumption
      <4> HIDE DEF total
      <4>2. PICK r \in 0..SizeMax : (Len(cs) * n) % (SizeMax + 1) = r
        <5>1. (SizeMax + 1) - 1 = SizeMax
          BY BitsAssumption
        <5> QED
          BY <4>1, <5>1, Division
      <4> QED
        BY <4>2 DEF total
    <3>3. WordCount(n, Len(cs))
            = total \div WordBits + (IF total % WordBits # 0 THEN 1 ELSE 0)
      BY DEF WordCount
    <3> HIDE DEF total
    <3>4. PICK q \in Nat, r \in 0..(WordBits - 1) :
            total \div WordBits = q /\ total % WordBits = r /\ total = WordBits * q + r
      <4>1. total \in Nat /\ WordBits \in Nat \ {0}
        BY <3>2, BitsAssumption
      <4> QED
        BY <4>1, Division
    <3>5. q <= WordBits * q /\ WordBits * q \in Nat
      <4>1. q * 1 <= q * WordBits
        BY <3>4, TimesMonotone, BitsAssumption
      <4> QED
        BY <3>4, <4>1, BitsAssumption
    <3>6. q <= SizeMax
      BY <3>2, <3>4, <3>5, BitsAssumption
    <3>7. WordCount(n, Len(cs)) \in 0..(SizeMax + 1)
      BY <3>3, <3>4, <3>6, BitsAssumption
    <3>8. ASSUME NEW j \in 0..last PROVE words[j] \in Word
      <4>1. words[j] = PackedWord(n, cs, j)
        BY DEF PackedWord
      <4>2. PackedWord(n, cs, j) \subseteq 0..(WordBits - 1)
        BY <3>1, WordTyped
      <4> QED
        BY <4>1, <4>2
    <3>9. last = WordCount(n, Len(cs)) - 1
      BY <2>2
    <3>10. words \in [0..last -> Word]
      BY <3>8
    <3> HIDE DEF last, words, Word
    <3>11. last + 1 \in 0..(SizeMax + 1) /\ (last + 1) - 1 = last
      BY <3>7, <3>9
    <3> QED
      BY <3>10, <3>11
  <2> QED
    BY <2>1, <2>2
<1> HIDE DEF last, words
<1>4. words \in UNION {[0..(k - 1) -> Word] : k \in 0..(SizeMax + 1)}
  <2>1. words \in [0..((last + 1) - 1) -> Word]
    BY <1>3
  <2> QED
    BY <1>3, <2>1
<1> QED
  BY <1>1, <1>2, <1>4 DEF PackedVector

LEMMA ExactQuotient ==
  ASSUME NEW n \in Nat \ {0}, NEW q \in Nat
  PROVE  (n * q) \div n = q
<1>1. n * q \in Nat /\ n * q + 0 = n * q
  OBVIOUS
<1>2. (n * q + 0) \div n = q
  BY DivisionUnique
<1> QED
  BY <1>1, <1>2

\* A source of few enough bits to be counted, with finite values and no more distinct ones
\* than there are ids, is encoded both ways.
LEMMA NotRefused ==
  ASSUME IdBits * MaxRows <= SizeMax, NEW rows \in Seq(Row), Len(rows) <= MaxRows,
         Encodable(rows),
         ~(Cardinality({Canonical(rows[i]) : i \in DOMAIN rows} \ {Null}) > MaxId)
  PROVE  BuildEncoded(rows) # Thrown /\ BuildPacked(rows) # Thrown
<1> DEFINE built == BuildEncoded(rows)
           n == WidthOf(rows)
           cs == BitCodes(rows)
<1>1. Fits(rows)
  <2>1. {Canonical(rows[i]) : i \in DOMAIN rows} \ {Null} = {Canonical(v) : v \in NonNull(rows)}
    <3>1. Canonical(Null) = Null
      BY ValuesAssumption DEF Canonical
    <3>2. \A v \in NonNull(rows) : Canonical(v) # Null
      BY NonNullBounded, CanonicalValue, ValuesAssumption DEF Supported
    <3> QED
      BY <3>1, <3>2 DEF NonNull
  <2>2. Len(Dictionary(NonNull(rows))) = Cardinality({Canonical(v) : v \in NonNull(rows)})
    BY NonNullBounded, DictionaryFacts
  <2>3. Len(Dictionary(NonNull(rows))) \in Nat
    BY NonNullBounded, DictionaryFacts DEF IsDictionary
  <2>4. ~(Len(Dictionary(NonNull(rows))) > MaxId)
    BY <2>1, <2>2, Zenon
  <2> QED
    BY <2>3, <2>4, IdAssumption DEF Fits, FitsIds
<1>2. /\ built = [dictionary |-> built.dictionary, codes |-> built.codes, valid |-> built.valid]
      /\ built.dictionary \in Seq(Values)
      /\ built.valid \in [1..Len(rows) -> BOOLEAN]
      /\ built.codes \in [1..Len(rows) -> 0..MaxId]
  BY <1>1, EncodedShape
<1>3. Len(rows) \in Nat /\ built.valid \in Seq(BOOLEAN) /\ built.codes \in Seq(Nat)
  <2>1. Len(rows) \in Nat
    BY LenProperties
  <2>2. built.codes \in [1..Len(rows) -> Nat]
    BY <1>2, IdAssumption
  <2> HIDE DEF built
  <2> QED
    BY <1>2, <2>1, <2>2, FunctionIsSequence
<1>4. built # Thrown
  <2> HIDE DEF built
  <2>1. built \in [dictionary : Seq(Values), codes : Seq(Nat), valid : Seq(BOOLEAN)]
    BY <1>2, <1>3
  <2> QED
    BY <2>1, ThrownAssumption
<1>5. /\ n \in Nat /\ n <= IdBits /\ cs \in Seq(Code) /\ Len(cs) = Len(rows)
      /\ DOMAIN cs = 1..Len(rows) /\ \A i \in 1..Len(rows) : cs[i] \subseteq Mask(n)
  BY <1>1, CodesFit
<1>6. n # 0 => Len(cs) <= SizeMax \div n
  <2> SUFFICES ASSUME n # 0 PROVE Len(cs) <= SizeMax \div n
    OBVIOUS
  <2> HIDE DEF n, cs
  <2> DEFINE bits == n * Len(cs)
  <2>1. bits \in Nat /\ bits <= SizeMax
    <3>1. Len(cs) * n <= Len(cs) * IdBits /\ IdBits * Len(cs) <= IdBits * MaxRows
      BY <1>3, <1>5, TimesMonotone, BitsAssumption, WidthAssumption
    <3>2. Len(cs) * n = n * Len(cs) /\ Len(cs) * IdBits = IdBits * Len(cs)
      BY <1>3, <1>5, BitsAssumption
    <3>3. n * Len(cs) \in Nat /\ IdBits * Len(cs) \in Nat /\ IdBits * MaxRows \in Nat
      BY <1>3, <1>5, BitsAssumption, WidthAssumption
    <3> QED
      BY <3>1, <3>2, <3>3, BitsAssumption
  <2>2. bits \div n = Len(cs)
    BY <1>3, <1>5, ExactQuotient
  <2> HIDE DEF bits
  <2> QED
    BY <1>5, <2>1, <2>2, DivisionMonotone, BitsAssumption
<1>7. Accepts(n, cs)
  <2> HIDE DEF n, cs
  <2> QED
    BY <1>5, <1>6 DEF Accepts
<1> DEFINE vector == Pack(n, cs)
<1>8. vector \in PackedVector
  BY <1>5, <1>7, PackType
<1>9. vector # Rejected
  BY <1>8, RejectedAssumption
<1>10. BuildPacked(rows) = [built EXCEPT !.codes = vector]
  <2>1. BuildPacked(rows) = IF built = Thrown THEN Thrown
                            ELSE IF vector = Rejected THEN Thrown
                            ELSE [built EXCEPT !.codes = vector]
    BY DEF BuildPacked, MakePackedCodes, WidthOf, BitCodes
  <2> HIDE DEF built, vector
  <2> QED
    BY <1>4, <1>9, <2>1
<1> HIDE DEF built, vector
<1>11. BuildPacked(rows) \in [dictionary : Seq(Values), codes : PackedVector, valid : Seq(BOOLEAN)]
  BY <1>2, <1>3, <1>8, <1>10
<1>12. BuildPacked(rows) # Thrown
  BY <1>11, ThrownVectorAssumption
<1> QED
  BY <1>4, <1>12 DEF built

\* A source is refused only for its values; when size_t counts the bits of MaxRows codes of
\* the largest width, its own ids never make it so.
THEOREM NoOtherRefusal ==
  ASSUME IdBits * MaxRows <= SizeMax
  PROVE  ColumnSpec => []RefusedForCause
<1>1. ColumnInv => RefusedForCause
  <2> SUFFICES ASSUME ColumnInv, Thrown \in {fixedColumn, packedColumn}, Encodable(source),
                      ~(Cardinality({Canonical(source[i]) : i \in DOMAIN source} \ {Null}) > MaxId)
               PROVE  FALSE
    BY Zenon DEF RefusedForCause
  <2>1. source \in Seq(Row) /\ Len(source) <= MaxRows
        /\ fixedColumn = BuildEncoded(source) /\ packedColumn = BuildPacked(source)
    BY DEF ColumnInv
  <2> QED
    BY <2>1, NotRefused
<1> QED
  BY <1>1, ColumnInvariant, PTL
=============================================================================
