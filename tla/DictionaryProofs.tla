-------------------------- MODULE DictionaryProofs ---------------------------
(***************************************************************************)
(* The codes of a sorted dictionary compare as the values do, and what a   *)
(* query collects in its loops is what a scan of the rows would, for any   *)
(* values and rows.                                                        *)
(***************************************************************************)
EXTENDS DictionaryColumn, FiniteSetTheorems, SequenceTheorems, TLAPS

-----------------------------------------------------------------------------
(* Quotients and remainders *)

\* Every number has a quotient and a remainder.
LEMMA Remainder ==
  ASSUME NEW a \in Int, NEW n \in Int, n > 0
  PROVE  a % n = a - n * (a \div n)
OBVIOUS

LEMMA Division ==
  ASSUME NEW a \in Nat, NEW n \in Nat \ {0}
  PROVE  \E q \in Nat, r \in 0..(n - 1) :
           a \div n = q /\ a % n = r /\ a = n * q + r
<1> DEFINE q == a \div n
<1> DEFINE r == a % n
<1>1. q \in Nat /\ r \in 0..(n - 1)
  OBVIOUS
<1>2. r = a - n * q
  BY Remainder
<1>3. a \div n = q /\ a % n = r
  OBVIOUS
<1> HIDE DEF q, r
<1>4. a = n * q + r
  BY <1>1, <1>2
<1> QED
  BY <1>1, <1>3, <1>4

LEMMA TimesMonotone ==
  ASSUME NEW n \in Nat, NEW a \in Nat, NEW b \in Nat, a <= b
  PROVE  n * a <= n * b
<1>1. n * (b - a) \in Nat
  OBVIOUS
<1> QED
  BY <1>1

\* They are unique.
LEMMA DivisionUnique ==
  ASSUME NEW n \in Nat \ {0}, NEW q \in Nat, NEW r \in 0..(n - 1)
  PROVE  (n * q + r) \div n = q /\ (n * q + r) % n = r
OBVIOUS

\* A smaller number has no larger quotient.
LEMMA DivisionMonotone ==
  ASSUME NEW n \in Nat \ {0}, NEW a \in Nat, NEW b \in Nat, a <= b
  PROVE  a \div n <= b \div n
BY Division

-----------------------------------------------------------------------------
(* Values *)

Supported == Values \ Unsupported

LEMMA CanonicalValue ==
  ASSUME NEW v \in Supported
  PROVE  /\ Canonical(v) \in Supported /\ Canonical(Canonical(v)) = Canonical(v)
         /\ v \in DOMAIN Rank /\ Canonical(v) \in DOMAIN Rank
         /\ Rank[Canonical(v)] = Rank[v] /\ Rank[v] \in Int
<1>1. Canonical(v) \in Supported /\ Canonical(Canonical(v)) = Canonical(v)
  BY ValuesAssumption DEF Supported, Canonical
<1>2. v \in DOMAIN Rank /\ Canonical(v) \in DOMAIN Rank
  BY <1>1, RankAssumption DEF Supported
<1> QED
  BY <1>1, <1>2, RankAssumption

\* Two supported values compare in exactly one way.
LEMMA Trichotomy ==
  ASSUME NEW x \in DOMAIN Rank, NEW y \in DOMAIN Rank
  PROVE  /\ Less(x, y) <=> Rank[x] < Rank[y]
         /\ Same(x, y) <=> Rank[x] = Rank[y]
         /\ ~Less(y, x) <=> Less(x, y) \/ Same(x, y)
         /\ Rank[x] \in Int /\ Rank[y] \in Int
BY RankAssumption DEF Less, Same

-----------------------------------------------------------------------------
(* Sorting *)

LEMMA FunctionIsSequence ==
  ASSUME NEW n \in Nat, NEW S, NEW d \in [1..n -> S]
  PROVE  d \in Seq(S) /\ Len(d) = n /\ DOMAIN d = 1..n
<1>1. d \in Seq(S)
  BY SeqDef
<1> QED
  BY <1>1, LenProperties

\* A set that holds what is below its elements starts at 1 and has no gap.
LEMMA DownSet ==
  ASSUME NEW n \in Nat, NEW S \in SUBSET (1..n), \A i \in S : 1..i \subseteq S
  PROVE  /\ Cardinality(S) \in 0..n
         /\ \A k \in 1..n : k \in S <=> k <= Cardinality(S)
<1>1. IsFiniteSet(1..n) /\ Cardinality(1..n) = n
  BY FS_Interval
<1>2. IsFiniteSet(S) /\ Cardinality(S) \in Nat /\ Cardinality(S) <= n
  BY <1>1, FS_Subset, FS_CardinalityType
<1>3. ASSUME NEW k \in S PROVE k <= Cardinality(S)
  <2>1. k \in Nat /\ (1..k) \in SUBSET S /\ IsFiniteSet(1..k) /\ Cardinality(1..k) = k
    BY FS_Interval
  <2> QED
    BY <1>2, <2>1, FS_Subset
<1>4. ASSUME NEW k \in 1..n, k \notin S PROVE Cardinality(S) < k
  <2>1. S \in SUBSET (1..(k - 1))
    <3>1. \A i \in S : i < k
      BY <1>4
    <3> QED
      BY <3>1
  <2>2. IsFiniteSet(1..(k - 1)) /\ Cardinality(1..(k - 1)) = k - 1
    BY FS_Interval
  <2>3. Cardinality(S) <= k - 1
    BY <2>1, <2>2, FS_Subset
  <2> QED
    BY <1>2, <2>3
<1> QED
  BY <1>2, <1>3, <1>4

Sorted(d) == \A i, j \in DOMAIN d : i < j => Less(d[i], d[j])

\* Values of distinct ranks can be put in ascending order, by counting the smaller ones.
LEMMA SortingExists ==
  ASSUME NEW S \in SUBSET DOMAIN Rank, IsFiniteSet(S),
         \A x, y \in S : Rank[x] = Rank[y] => x = y
  PROVE  \E d \in [1..Cardinality(S) -> S] : Sorted(d)
<1> DEFINE n == Cardinality(S)
           Below(x) == {y \in S : Less(y, x)}
           pos == [x \in S |-> Cardinality(Below(x)) + 1]
<1>1. \A x, y \in S : /\ Rank[x] \in Int /\ Rank[y] \in Int
                      /\ Less(x, y) <=> Rank[x] < Rank[y]
  BY Trichotomy
<1>2. n \in Nat
  BY FS_CardinalityType
<1>3. ASSUME NEW x \in S
      PROVE  IsFiniteSet(Below(x)) /\ Cardinality(Below(x)) \in 0..(n - 1)
  <2>1. Below(x) \in SUBSET S /\ x \in S \ Below(x)
    BY <1>1
  <2>2. IsFiniteSet(Below(x)) /\ Cardinality(Below(x)) <= n /\ Cardinality(Below(x)) # n
    BY <2>1, FS_Subset
  <2> QED
    BY <1>2, <2>2, FS_CardinalityType
<1>4. ASSUME NEW x \in S, NEW y \in S, Less(x, y)
      PROVE  Cardinality(Below(x)) < Cardinality(Below(y))
  <2>1. Below(x) \in SUBSET Below(y) /\ x \in Below(y) \ Below(x)
    BY <1>1, <1>4
  <2>2. /\ Cardinality(Below(x)) <= Cardinality(Below(y))
        /\ Cardinality(Below(x)) # Cardinality(Below(y))
    BY <1>3, <2>1, FS_Subset
  <2>3. Cardinality(Below(x)) \in Nat /\ Cardinality(Below(y)) \in Nat
    BY <1>3, FS_CardinalityType
  <2> HIDE DEF Below
  <2> QED
    BY <2>2, <2>3
<1>5. pos \in [S -> 1..n] /\ \A x, y \in S : Less(x, y) => pos[x] < pos[y]
  <2>1. \A x \in S : Cardinality(Below(x)) \in 0..(n - 1)
    BY <1>3
  <2>2. \A x, y \in S : Less(x, y) => Cardinality(Below(x)) < Cardinality(Below(y))
    BY <1>4
  <2> HIDE DEF n, Below
  <2> QED
    BY <1>2, <2>1, <2>2
<1> HIDE DEF pos
<1>6. \A x, y \in S : pos[x] = pos[y] => x = y
  BY <1>1, <1>5
<1>7. pos \in Injection(S, 1..n)
  BY <1>5, <1>6 DEF Injection, IsInjective
<1>8. pos \in Surjection(S, 1..n)
  <2>1. IsFiniteSet(1..n) /\ Cardinality(1..n) = n
    BY <1>2, FS_Interval
  <2> QED
    BY <1>7, <2>1, FS_Injection
<1> DEFINE d == [i \in 1..n |-> CHOOSE x \in S : pos[x] = i]
<1>9. ASSUME NEW i \in 1..n PROVE d[i] \in S /\ pos[d[i]] = i
  <2>1. \E x \in S : pos[x] = i
    BY <1>8 DEF Surjection
  <2>2. d[i] = CHOOSE x \in S : pos[x] = i
    OBVIOUS
  <2> HIDE DEF d
  <2> QED
    BY <2>1, <2>2
<1>10. ASSUME NEW i \in 1..n, NEW j \in 1..n, i < j PROVE Less(d[i], d[j])
  <2>1. d[i] \in S /\ d[j] \in S /\ pos[d[i]] = i /\ pos[d[j]] = j
    BY <1>9
  <2> HIDE DEF d
  <2> QED
    BY <1>1, <1>5, <1>10, <2>1
<1>11. d \in [1..n -> S] /\ Sorted(d)
  BY <1>9, <1>10 DEF Sorted
<1> QED
  BY <1>11

\* A sorted sequence of as many values as there are holds all of them.
LEMMA SortedHoldsAll ==
  ASSUME NEW S \in SUBSET DOMAIN Rank, IsFiniteSet(S),
         NEW d \in [1..Cardinality(S) -> S], Sorted(d)
  PROVE  \A x \in S : \E k \in DOMAIN d : d[k] = x
<1> DEFINE n == Cardinality(S)
<1>1. n \in Nat /\ IsFiniteSet(1..n) /\ Cardinality(1..n) = n
  BY FS_CardinalityType, FS_Interval
<1>2. ASSUME NEW i \in 1..n, NEW j \in 1..n, d[i] = d[j] PROVE i = j
  <2>1. ~Less(d[i], d[j]) /\ ~Less(d[j], d[i])
    BY <1>2, Trichotomy
  <2> QED
    BY <1>1, <2>1 DEF Sorted
<1>3. d \in Injection(1..n, S)
  BY <1>2 DEF Injection, IsInjective
<1>4. d \in Surjection(1..n, S)
  BY <1>1, <1>3, FS_Injection
<1> QED
  BY <1>4 DEF Surjection

-----------------------------------------------------------------------------
(* Loops *)

\* Induction, for a set of numbers: it has every number below n if it has 0 and with each
\* number the next one.
LEMMA SetInduction ==
  ASSUME NEW S, 0 \in S, \A k \in Nat : k \in S => k + 1 \in S, NEW n \in Nat
  PROVE  n \in S
<1> DEFINE D == {k \in 1..n : 1..k \subseteq S}
<1>1. D \in SUBSET (1..n) /\ \A i \in D : 1..i \subseteq D
  OBVIOUS
<1>2. \A k \in D : k \in 1..n /\ 1..k \subseteq S
  OBVIOUS
<1>3. \A k \in 1..n : 1..k \subseteq S => k \in D
  OBVIOUS
<1> HIDE DEF D
<1>4. PICK c \in 0..n : \A k \in 1..n : k \in D <=> k <= c
  BY <1>1, DownSet
<1>5. CASE c = n
  <2>1. n # 0 => n \in D
    BY <1>4, <1>5
  <2> QED
    BY <1>2, <2>1
<1>6. CASE c < n
  <2>1. 1..c \subseteq S
    BY <1>2, <1>4, <1>6
  <2>2. c + 1 \in S
    BY <2>1
  <2>3. 1..(c + 1) \subseteq S /\ c + 1 \in 1..n
    BY <1>6, <2>1, <2>2
  <2>4. c + 1 \in D
    BY <1>3, <2>3
  <2> QED
    BY <1>4, <2>3, <2>4
<1> QED
  BY <1>5, <1>6

\* What MatchingRows has found after each round.
Round(f, M, k) == IF k = 0 THEN << >>
                  ELSE IF k - 1 \in M THEN Append(f[k - 1], k - 1) ELSE f[k - 1]
IsLoop(f, n, M) == f = [k \in 0..n |-> Round(f, M, k)]

LEMMA LoopExists ==
  ASSUME NEW M, NEW n \in Nat
  PROVE  \E f : IsLoop(f, n, M)
<1> DEFINE S == {m \in Nat : \E f : IsLoop(f, m, M)}
<1>1. 0 \in S
  <2> DEFINE f == [k \in 0..0 |-> << >>]
  <2>1. f = [k \in 0..0 |-> Round(f, M, k)]
    BY DEF Round
  <2> HIDE DEF f
  <2>2. IsLoop(f, 0, M)
    BY <2>1 DEF IsLoop
  <2> QED
    BY <2>2
<1>2. ASSUME NEW m \in Nat, m \in S PROVE m + 1 \in S
  <2>1. PICK f : IsLoop(f, m, M)
    BY <1>2
  <2>2. f = [k \in 0..m |-> Round(f, M, k)]
    BY <2>1 DEF IsLoop
  <2> DEFINE g == [k \in 0..(m + 1) |-> IF k = m + 1 THEN Round(f, M, k) ELSE f[k]]
  <2>3. ASSUME NEW k \in 0..(m + 1) PROVE g[k] = Round(g, M, k)
    <3>1. CASE k = m + 1
      <4>1. g[k] = Round(f, M, k) /\ k - 1 = m /\ k # 0 /\ m \in 0..(m + 1) /\ m # m + 1
        BY <3>1
      <4>2. g[m] = f[m]
        BY <4>1
      <4> HIDE DEF g
      <4> QED
        BY <4>1, <4>2 DEF Round
    <3>2. CASE k # m + 1
      <4>1. k \in 0..m /\ g[k] = f[k] /\ f[k] = Round(f, M, k)
        BY <2>2, <3>2
      <4>2. k # 0 => k - 1 \in 0..(m + 1) /\ k - 1 # m + 1
        BY <4>1
      <4>3. k # 0 => g[k - 1] = f[k - 1]
        BY <4>2
      <4> HIDE DEF g
      <4> QED
        BY <4>1, <4>3 DEF Round
    <3> QED
      BY <3>1, <3>2
  <2>4. g = [k \in 0..(m + 1) |-> g[k]]
    OBVIOUS
  <2> HIDE DEF g
  <2>5. IsLoop(g, m + 1, M)
    BY <2>3, <2>4 DEF IsLoop
  <2> QED
    BY <2>5
<1> HIDE DEF S
<1>3. n \in S
  BY <1>1, <1>2, SetInduction
<1> QED
  BY <1>3 DEF S

\* A longer loop goes through the rounds of a shorter one.
LEMMA LoopsAgree ==
  ASSUME NEW M, NEW n \in Nat, NEW m \in Nat, n <= m,
         NEW f, IsLoop(f, n, M), NEW g, IsLoop(g, m, M), NEW k \in 0..n
  PROVE  f[k] = g[k]
<1> DEFINE S == {i \in Nat : i <= n => f[i] = g[i]}
<1>1. /\ \A i \in 0..n : f[i] = Round(f, M, i)
      /\ \A i \in 0..n : g[i] = Round(g, M, i)
  <2>1. \A i \in 0..n : i \in 0..m
    OBVIOUS
  <2> QED
    BY <2>1 DEF IsLoop
<1>2. 0 \in S
  BY <1>1 DEF Round
<1>3. ASSUME NEW i \in Nat, i \in S PROVE i + 1 \in S
  <2> SUFFICES ASSUME i + 1 <= n PROVE f[i + 1] = g[i + 1]
    OBVIOUS
  <2>1. i + 1 \in 0..n /\ i <= n /\ i + 1 # 0 /\ i + 1 - 1 = i
    OBVIOUS
  <2>2. f[i] = g[i]
    BY <1>3, <2>1
  <2> QED
    BY <1>1, <2>1, <2>2 DEF Round
<1> HIDE DEF S
<1>4. k \in S
  BY <1>2, <1>3, SetInduction
<1> QED
  BY <1>4 DEF S

\* The loop, round by round.
LEMMA Loop ==
  ASSUME NEW M, NEW n \in Nat
  PROVE  /\ MatchingRows(0, M) = << >>
         /\ MatchingRows(n + 1, M) =
              IF n \in M THEN Append(MatchingRows(n, M), n) ELSE MatchingRows(n, M)
<1> DEFINE found(m) == CHOOSE f : IsLoop(f, m, M)
<1>1. ASSUME NEW m \in Nat PROVE MatchingRows(m, M) = found(m)[m] /\ IsLoop(found(m), m, M)
  <2>1. IsLoop(found(m), m, M)
    BY LoopExists
  <2> QED
    BY <2>1 DEF MatchingRows, IsLoop, Round
<1> HIDE DEF found
<1>2. \A m \in Nat, k \in Nat : k \in 0..m => found(m)[k] = Round(found(m), M, k)
  BY <1>1 DEF IsLoop
<1>3. MatchingRows(0, M) = << >>
  BY <1>1, <1>2 DEF Round
<1>4. found(n)[n] = found(n + 1)[n]
  BY <1>1, LoopsAgree
<1>5. found(n + 1)[n + 1] = Round(found(n + 1), M, n + 1) /\ n + 1 # 0 /\ n + 1 - 1 = n
  BY <1>2
<1> QED
  BY <1>1, <1>3, <1>4, <1>5 DEF Round

\* What the loops return are sequences of numbers.
LEMMA Numbers ==
  /\ << >> \in Seq(Nat)
  /\ \A s \in Seq(Nat), x \in Nat :
       /\ Append(s, x) \in Seq(Nat) /\ Len(Append(s, x)) = Len(s) + 1
       /\ \A k \in 1..Len(s) : Append(s, x)[k] = s[k]
       /\ Append(s, x)[Len(s) + 1] = x
       /\ Append(s, x) = s \o <<x>> /\ <<x>> \in Seq(Nat)
  /\ \A s, t \in Seq(Nat) :
       /\ s \o t \in Seq(Nat) /\ Len(s \o t) = Len(s) + Len(t)
       /\ \A k \in 1..(Len(s) + Len(t)) :
            (s \o t)[k] = IF k <= Len(s) THEN s[k] ELSE t[k - Len(s)]
  /\ \A s \in Seq(Nat) : Len(s) \in Nat /\ DOMAIN s = 1..Len(s) /\ s \o << >> = s
  /\ \A s, t, u \in Seq(Nat) : (s \o t) \o u = s \o (t \o u)
<1>1. << >> \in Seq(Nat)
  BY EmptySeq
<1>2. ASSUME NEW s \in Seq(Nat), NEW x \in Nat
      PROVE  /\ Append(s, x) \in Seq(Nat) /\ Len(Append(s, x)) = Len(s) + 1
             /\ \A k \in 1..Len(s) : Append(s, x)[k] = s[k]
             /\ Append(s, x)[Len(s) + 1] = x
             /\ Append(s, x) = s \o <<x>> /\ <<x>> \in Seq(Nat)
  <2>1. /\ Append(s, x) \in Seq(Nat) /\ Len(Append(s, x)) = Len(s) + 1
        /\ \A k \in 1..Len(s) : Append(s, x)[k] = s[k]
        /\ Append(s, x)[Len(s) + 1] = x
    BY AppendProperties
  <2>2. Append(s, x) = s \o <<x>>
    BY AppendIsConcat
  <2>3. <<x>> \in Seq(Nat)
    OBVIOUS
  <2> QED
    BY <2>1, <2>2, <2>3
<1>3. ASSUME NEW s \in Seq(Nat), NEW t \in Seq(Nat)
      PROVE  /\ s \o t \in Seq(Nat) /\ Len(s \o t) = Len(s) + Len(t)
             /\ \A k \in 1..(Len(s) + Len(t)) :
                  (s \o t)[k] = IF k <= Len(s) THEN s[k] ELSE t[k - Len(s)]
  BY ConcatProperties
<1>4. ASSUME NEW s \in Seq(Nat)
      PROVE  Len(s) \in Nat /\ DOMAIN s = 1..Len(s) /\ s \o << >> = s
  <2>1. s \o << >> = s
    BY ConcatEmptySeq
  <2> QED
    BY <2>1, LenProperties
<1>5. ASSUME NEW s \in Seq(Nat), NEW t \in Seq(Nat), NEW u \in Seq(Nat)
      PROVE  (s \o t) \o u = s \o (t \o u)
  BY ConcatAssociative
<1>6. \A s, t \in Seq(Nat) :
        /\ s \o t \in Seq(Nat) /\ Len(s \o t) = Len(s) + Len(t)
        /\ \A k \in 1..(Len(s) + Len(t)) :
             (s \o t)[k] = IF k <= Len(s) THEN s[k] ELSE t[k - Len(s)]
  BY <1>3
<1> QED
  BY <1>1, <1>2, <1>4, <1>5, <1>6, Zenon

LEMMA MatchType ==
  ASSUME NEW M, NEW n \in Nat
  PROVE  MatchingRows(n, M) \in Seq(Nat)
<1> DEFINE S == {m \in Nat : MatchingRows(m, M) \in Seq(Nat)}
<1>1. 0 \in S
  <2>1. MatchingRows(0, M) = << >>
    BY Loop
  <2>2. << >> \in Seq(Nat)
    BY Numbers
  <2> QED
    BY <2>1, <2>2
<1>2. ASSUME NEW m \in Nat, m \in S PROVE m + 1 \in S
  <2>1. MatchingRows(m, M) \in Seq(Nat)
    BY <1>2
  <2>2. Append(MatchingRows(m, M), m) \in Seq(Nat)
    BY <2>1, Numbers
  <2>3. MatchingRows(m + 1, M) \in Seq(Nat)
    BY <2>1, <2>2, Loop
  <2> QED
    BY <2>3
<1> HIDE DEF S
<1>3. n \in S
  BY <1>1, <1>2, SetInduction
<1> QED
  BY <1>3 DEF S

LEMMA MatchAlike ==
  ASSUME NEW n \in Nat, NEW M, NEW K, \A i \in 0..(n - 1) : i \in M <=> i \in K
  PROVE  MatchingRows(n, M) = MatchingRows(n, K)
<1> DEFINE S == {m \in Nat : m <= n => MatchingRows(m, M) = MatchingRows(m, K)}
<1>1. 0 \in S
  BY Loop
<1>2. ASSUME NEW m \in Nat, m \in S PROVE m + 1 \in S
  <2> SUFFICES ASSUME m + 1 <= n PROVE MatchingRows(m + 1, M) = MatchingRows(m + 1, K)
    OBVIOUS
  <2>1. m <= n /\ m \in 0..(n - 1)
    OBVIOUS
  <2>2. (m \in M <=> m \in K) /\ MatchingRows(m, M) = MatchingRows(m, K)
    BY <1>2, <2>1
  <2>3. /\ MatchingRows(m + 1, M) =
             IF m \in M THEN Append(MatchingRows(m, M), m) ELSE MatchingRows(m, M)
        /\ MatchingRows(m + 1, K) =
             IF m \in K THEN Append(MatchingRows(m, K), m) ELSE MatchingRows(m, K)
    BY Loop
  <2> QED
    BY <2>2, <2>3
<1> HIDE DEF S
<1>3. n \in S
  BY <1>1, <1>2, SetInduction
<1> QED
  BY <1>3 DEF S

LEMMA MatchNone ==
  ASSUME NEW n \in Nat
  PROVE  MatchingRows(n, {}) = << >>
<1> DEFINE S == {m \in Nat : MatchingRows(m, {}) = << >>}
<1>1. 0 \in S
  BY Loop
<1>2. ASSUME NEW m \in Nat, m \in S PROVE m + 1 \in S
  BY <1>2, Loop
<1> HIDE DEF S
<1>3. n \in S
  BY <1>1, <1>2, SetInduction
<1> QED
  BY <1>3 DEF S

\* The offsets of a store as RowIds.
Shift(base, offsets) == [k \in DOMAIN offsets |-> base + offsets[k]]

LEMMA ShiftFacts ==
  ASSUME NEW base \in Nat, NEW s \in Seq(Nat)
  PROVE  /\ Shift(base, s) \in Seq(Nat) /\ Shift(base, << >>) = << >>
         /\ \A x \in Nat : Shift(base, Append(s, x)) = Append(Shift(base, s), base + x)
         /\ Shift(0, s) = s
         /\ \A b \in Nat : Shift(b, Shift(base, s)) = Shift(b + base, s)
         /\ \A t \in Seq(Nat) : Shift(base, s \o t) = Shift(base, s) \o Shift(base, t)
<1>1. ASSUME NEW b \in Nat, NEW t \in Seq(Nat)
      PROVE  /\ Shift(b, t) \in Seq(Nat) /\ Len(Shift(b, t)) = Len(t)
             /\ DOMAIN Shift(b, t) = 1..Len(t)
             /\ \A k \in 1..Len(t) : Shift(b, t)[k] = b + t[k] /\ t[k] \in Nat
  <2>1. Len(t) \in Nat /\ DOMAIN t = 1..Len(t) /\ t \in [1..Len(t) -> Nat]
    BY LenProperties
  <2>2. \A k \in 1..Len(t) : Shift(b, t)[k] = b + t[k] /\ t[k] \in Nat
    BY <2>1 DEF Shift
  <2>3. Shift(b, t) \in [1..Len(t) -> Nat]
    BY <2>1 DEF Shift
  <2> QED
    BY <2>1, <2>2, <2>3, FunctionIsSequence
<1>2. Shift(base, << >>) = << >>
  BY <1>1, EmptySeq
<1>3. ASSUME NEW x \in Nat PROVE Shift(base, Append(s, x)) = Append(Shift(base, s), base + x)
  <2> DEFINE n == Len(s)
             left == Shift(base, Append(s, x))
             right == Append(Shift(base, s), base + x)
  <2>1. /\ Append(s, x) \in Seq(Nat) /\ Len(Append(s, x)) = n + 1 /\ n \in Nat
        /\ \A k \in 1..n : Append(s, x)[k] = s[k]
        /\ Append(s, x)[n + 1] = x
    BY Numbers
  <2>2. /\ left \in Seq(Nat) /\ Len(left) = n + 1
        /\ \A k \in 1..(n + 1) : left[k] = base + Append(s, x)[k]
    BY <1>1, <2>1
  <2>3. Shift(base, s) \in Seq(Nat) /\ Len(Shift(base, s)) = n /\ base + x \in Nat
        /\ \A k \in 1..n : Shift(base, s)[k] = base + s[k]
    BY <1>1
  <2>4. /\ right \in Seq(Nat) /\ Len(right) = n + 1
        /\ \A k \in 1..n : right[k] = Shift(base, s)[k]
        /\ right[n + 1] = base + x
    BY <2>3, Numbers
  <2> HIDE DEF left, right, n
  <2>5. \A k \in 1..(n + 1) : k \in 1..n \/ k = n + 1
    BY <2>1
  <2>6. n + 1 \in 1..(n + 1) /\ \A k \in 1..n : k \in 1..(n + 1)
    BY <2>1
  <2>7. \A k \in 1..(n + 1) : left[k] = right[k]
    BY <2>1, <2>2, <2>3, <2>4, <2>5, <2>6
  <2> QED
    BY <2>2, <2>4, <2>7, SeqEqual DEF left, right
<1>4. Shift(0, s) = s
  BY <1>1, SeqEqual
<1>5. ASSUME NEW b \in Nat PROVE Shift(b, Shift(base, s)) = Shift(b + base, s)
  <2> DEFINE n == Len(s)
  <2>1. /\ Shift(base, s) \in Seq(Nat) /\ Len(Shift(base, s)) = n /\ n \in Nat
        /\ \A k \in 1..n : Shift(base, s)[k] = base + s[k] /\ s[k] \in Nat
    BY <1>1, LenProperties
  <2>2. /\ Shift(b, Shift(base, s)) \in Seq(Nat) /\ Len(Shift(b, Shift(base, s))) = n
        /\ \A k \in 1..n : Shift(b, Shift(base, s))[k] = b + Shift(base, s)[k]
    BY <1>1, <2>1
  <2>3. /\ Shift(b + base, s) \in Seq(Nat) /\ Len(Shift(b + base, s)) = n
        /\ \A k \in 1..n : Shift(b + base, s)[k] = (b + base) + s[k]
    BY <1>1
  <2> HIDE DEF n
  <2>4. ASSUME NEW k \in 1..n
        PROVE  Shift(b, Shift(base, s))[k] = Shift(b + base, s)[k]
    <3>1. /\ Shift(b, Shift(base, s))[k] = b + Shift(base, s)[k]
          /\ Shift(base, s)[k] = base + s[k] /\ s[k] \in Nat
          /\ Shift(b + base, s)[k] = (b + base) + s[k]
      BY <2>1, <2>2, <2>3
    <3>2. b + (base + s[k]) = (b + base) + s[k]
      BY <3>1
    <3> QED
      BY <3>1, <3>2, Zenon
  <2> QED
    BY <2>2, <2>3, <2>4, SeqEqual
<1>6. ASSUME NEW t \in Seq(Nat) PROVE Shift(base, s \o t) = Shift(base, s) \o Shift(base, t)
  <2> DEFINE n == Len(s)
             m == Len(t)
             left == Shift(base, s \o t)
             right == Shift(base, s) \o Shift(base, t)
  <2>1. /\ s \o t \in Seq(Nat) /\ Len(s \o t) = n + m /\ n \in Nat /\ m \in Nat
        /\ \A k \in 1..(n + m) : (s \o t)[k] = IF k <= n THEN s[k] ELSE t[k - n]
    BY Numbers
  <2>2. /\ left \in Seq(Nat) /\ Len(left) = n + m
        /\ \A k \in 1..(n + m) : left[k] = base + (s \o t)[k]
    BY <1>1, <2>1
  <2>3. /\ Shift(base, s) \in Seq(Nat) /\ Len(Shift(base, s)) = n
        /\ Shift(base, t) \in Seq(Nat) /\ Len(Shift(base, t)) = m
        /\ \A k \in 1..n : Shift(base, s)[k] = base + s[k]
        /\ \A k \in 1..m : Shift(base, t)[k] = base + t[k]
    BY <1>1
  <2>4. /\ right \in Seq(Nat) /\ Len(right) = n + m
        /\ \A k \in 1..(n + m) :
             right[k] = IF k <= n THEN Shift(base, s)[k] ELSE Shift(base, t)[k - n]
    <3> DEFINE a == Shift(base, s)
               b == Shift(base, t)
    <3> HIDE DEF a, b
    <3>1. a \in Seq(Nat) /\ b \in Seq(Nat) /\ Len(a) = n /\ Len(b) = m
      BY <2>3 DEF a, b
    <3>2. /\ a \o b \in Seq(Nat) /\ Len(a \o b) = Len(a) + Len(b)
          /\ \A k \in 1..(Len(a) + Len(b)) :
               (a \o b)[k] = IF k <= Len(a) THEN a[k] ELSE b[k - Len(a)]
      BY <3>1, Numbers
    <3> HIDE DEF n, m
    <3>3. /\ a \o b \in Seq(Nat) /\ Len(a \o b) = n + m
          /\ \A k \in 1..(n + m) : (a \o b)[k] = IF k <= n THEN a[k] ELSE b[k - n]
      BY <3>1, <3>2
    <3> QED
      BY <3>3 DEF a, b
  <2> HIDE DEF left, right, n, m
  <2>5. ASSUME NEW k \in 1..(n + m) PROVE left[k] = right[k]
    <3>1. /\ left[k] = base + (s \o t)[k]
          /\ (s \o t)[k] = IF k <= n THEN s[k] ELSE t[k - n]
          /\ right[k] = IF k <= n THEN Shift(base, s)[k] ELSE Shift(base, t)[k - n]
      BY <2>1, <2>2, <2>4
    <3>2. CASE k <= n
      <4>1. k \in 1..n
        BY <2>1, <3>2
      <4>2. Shift(base, s)[k] = base + s[k]
        BY <2>3, <4>1
      <4> QED
        BY <3>1, <3>2, <4>2
    <3>3. CASE ~(k <= n)
      <4>1. k - n \in 1..m
        BY <2>1, <3>3
      <4>2. Shift(base, t)[k - n] = base + t[k - n]
        BY <2>3, <4>1
      <4> QED
        BY <3>1, <3>3, <4>2
    <3> QED
      BY <3>2, <3>3
  <2> QED
    BY <2>2, <2>4, <2>5, SeqEqual DEF left, right
<1> QED
  BY <1>1, <1>2, <1>3, <1>4, <1>5, <1>6

LEMMA AppendJoined ==
  ASSUME NEW s \in Seq(Nat), NEW t \in Seq(Nat), NEW x \in Nat
  PROVE  Append(s \o t, x) = s \o Append(t, x)
<1> DEFINE u == <<x>>
<1>1. u \in Seq(Nat) /\ s \o t \in Seq(Nat)
  BY ConcatProperties
<1>2. Append(s \o t, x) = (s \o t) \o u /\ Append(t, x) = t \o u
  BY <1>1, AppendIsConcat
<1> HIDE DEF u
<1>3. (s \o t) \o u = s \o (t \o u)
  BY <1>1, ConcatAssociative
<1> QED
  BY <1>2, <1>3

\* What is in a set of offsets from n on.
From(n, M) == {i \in Nat : n + i \in M}

\* One loop over two stores is a loop over each.
LEMMA MatchSplit ==
  ASSUME NEW n \in Nat, NEW m \in Nat, NEW M
  PROVE  MatchingRows(n + m, M) = MatchingRows(n, M) \o Shift(n, MatchingRows(m, From(n, M)))
<1> DEFINE K == From(n, M)
           first == MatchingRows(n, M)
           second(k) == Shift(n, MatchingRows(k, K))
           S == {k \in Nat : MatchingRows(n + k, M) = first \o second(k)}
<1>1. first \in Seq(Nat)
  BY MatchType
<1>2. ASSUME NEW k \in Nat
      PROVE  /\ second(k) \in Seq(Nat)
             /\ second(k + 1) = IF n + k \in M THEN Append(second(k), n + k) ELSE second(k)
  <2>1. MatchingRows(k, K) \in Seq(Nat)
    BY MatchType
  <2>2. MatchingRows(k + 1, K) =
          IF k \in K THEN Append(MatchingRows(k, K), k) ELSE MatchingRows(k, K)
    BY Loop
  <2>3. k \in K <=> n + k \in M
    BY DEF From
  <2>4. /\ second(k) \in Seq(Nat)
        /\ Shift(n, Append(MatchingRows(k, K), k)) = Append(second(k), n + k)
    BY <2>1, ShiftFacts
  <2>5. k \in K => second(k + 1) = Append(second(k), n + k)
    BY <2>2, <2>4
  <2>6. k \notin K => second(k + 1) = second(k)
    BY <2>2
  <2> QED
    BY <2>3, <2>4, <2>5, <2>6, Zenon
<1>3. second(0) = << >>
  <2>1. << >> \in Seq(Nat)
    BY Numbers
  <2>2. Shift(n, << >>) = << >>
    BY <2>1, ShiftFacts
  <2> QED
    BY <2>2, Loop
<1> HIDE DEF second, first, K
<1>4. 0 \in S
  <2>1. first \o << >> = first
    BY <1>1, Numbers
  <2>2. MatchingRows(n + 0, M) = first
    BY DEF first
  <2>3. MatchingRows(n + 0, M) = first \o second(0)
    BY <1>3, <2>1, <2>2
  <2> QED
    BY <2>3
<1>5. ASSUME NEW k \in Nat, k \in S PROVE k + 1 \in S
  <2>1. MatchingRows(n + k, M) = first \o second(k)
    BY <1>5
  <2>2. n + k \in Nat /\ n + k + 1 = n + (k + 1)
    OBVIOUS
  <2>3. MatchingRows(n + (k + 1), M) =
          IF n + k \in M THEN Append(first \o second(k), n + k) ELSE first \o second(k)
    BY <2>1, <2>2, Loop
  <2>4. Append(first \o second(k), n + k) = first \o Append(second(k), n + k)
    BY <1>1, <1>2, <2>2, AppendJoined
  <2>5. MatchingRows(n + (k + 1), M) = first \o second(k + 1)
    BY <1>2, <2>3, <2>4
  <2> QED
    BY <2>5
<1> HIDE DEF S
<1>6. m \in S
  BY <1>4, <1>5, SetInduction
<1> QED
  BY <1>6 DEF S, second, first, K

-----------------------------------------------------------------------------
(* Raw rows *)

\* The offsets of the rows that match.
Hits(rows, op, target) ==
  {i \in 0..(Len(rows) - 1) : rows[i + 1] # Null /\ Compare(op, rows[i + 1], target)}

LEMMA RawMatchesShift ==
  ASSUME NEW rows, NEW base, NEW op, NEW target
  PROVE  RawMatches(rows, base, op, target)
           = Shift(base, MatchingRows(Len(rows), Hits(rows, op, target)))
BY DEF RawMatches, Shift, Hits

LEMMA RawFromZero ==
  ASSUME NEW rows \in Seq(Row), NEW op, NEW target
  PROVE  RawMatches(rows, 0, op, target) = MatchingRows(Len(rows), Hits(rows, op, target))
<1>1. Len(rows) \in Nat
  BY LenProperties
<1>2. MatchingRows(Len(rows), Hits(rows, op, target)) \in Seq(Nat)
  BY <1>1, MatchType
<1> QED
  BY <1>2, RawMatchesShift, ShiftFacts

LEMMA RawType ==
  ASSUME NEW rows \in Seq(Row), NEW base \in Nat, NEW op, NEW target
  PROVE  RawMatches(rows, base, op, target) \in Seq(Nat)
<1>1. Len(rows) \in Nat
  BY LenProperties
<1>2. MatchingRows(Len(rows), Hits(rows, op, target)) \in Seq(Nat)
  BY <1>1, MatchType
<1> QED
  BY <1>2, RawMatchesShift, ShiftFacts

\* A scan of two stores one after the other is a scan of each.
LEMMA RawSplit ==
  ASSUME NEW first \in Seq(Row), NEW rest \in Seq(Row), NEW base \in Nat, NEW op, NEW target
  PROVE  RawMatches(first \o rest, base, op, target)
           = RawMatches(first, base, op, target)
               \o RawMatches(rest, base + Len(first), op, target)
<1> DEFINE n == Len(first)
           m == Len(rest)
           all == first \o rest
           M == Hits(all, op, target)
           K == From(n, M)
<1>1. /\ n \in Nat /\ m \in Nat /\ all \in Seq(Row) /\ Len(all) = n + m
      /\ \A k \in 1..(n + m) : all[k] = IF k <= n THEN first[k] ELSE rest[k - n]
  BY LenProperties, ConcatProperties
<1> HIDE DEF all, n, m, M
<1>2. MatchingRows(n + m, M) = MatchingRows(n, M) \o Shift(n, MatchingRows(m, K))
  BY <1>1, MatchSplit
<1>3. \A i \in 0..(n - 1) : i \in M <=> i \in Hits(first, op, target)
  <2> SUFFICES ASSUME NEW i \in 0..(n - 1) PROVE i \in M <=> i \in Hits(first, op, target)
    OBVIOUS
  <2>1. i + 1 \in 1..(n + m) /\ i + 1 <= n /\ i \in 0..(n + m - 1)
    BY <1>1
  <2>2. all[i + 1] = first[i + 1]
    BY <1>1, <2>1
  <2> QED
    BY <1>1, <2>1, <2>2 DEF Hits, n, M
<1>4. \A i \in 0..(m - 1) : i \in K <=> i \in Hits(rest, op, target)
  <2> SUFFICES ASSUME NEW i \in 0..(m - 1) PROVE i \in K <=> i \in Hits(rest, op, target)
    OBVIOUS
  <2>1. /\ n + i + 1 \in 1..(n + m) /\ ~(n + i + 1 <= n) /\ n + i + 1 - n = i + 1
        /\ n + i \in 0..(n + m - 1) /\ i \in Nat
    BY <1>1
  <2>2. all[n + i + 1] = rest[i + 1]
    BY <1>1, <2>1
  <2> QED
    BY <1>1, <2>1, <2>2 DEF Hits, m, M, From
<1> HIDE DEF K
<1>5. MatchingRows(n, M) = MatchingRows(n, Hits(first, op, target))
  BY <1>1, <1>3, MatchAlike
<1>6. MatchingRows(m, K) = MatchingRows(m, Hits(rest, op, target))
  BY <1>1, <1>4, MatchAlike
<1> DEFINE A == MatchingRows(n, Hits(first, op, target))
           B == MatchingRows(m, Hits(rest, op, target))
<1>7. A \in Seq(Nat) /\ B \in Seq(Nat)
  BY <1>1, MatchType
<1>8. Shift(n, B) \in Seq(Nat)
  BY <1>1, <1>7, ShiftFacts
<1>9. RawMatches(all, base, op, target) = Shift(base, A \o Shift(n, B))
  BY <1>1, <1>2, <1>5, <1>6, RawMatchesShift DEF M
<1>10. RawMatches(first, base, op, target) = Shift(base, A)
  BY RawMatchesShift DEF n
<1>11. RawMatches(rest, base + n, op, target) = Shift(base + n, B)
  BY RawMatchesShift DEF m
<1> HIDE DEF A, B
<1>12. Shift(base, A \o Shift(n, B)) = Shift(base, A) \o Shift(base, Shift(n, B))
  BY <1>7, <1>8, ShiftFacts
<1>13. Shift(base, Shift(n, B)) = Shift(base + n, B)
  BY <1>1, <1>7, ShiftFacts
<1> QED
  BY <1>9, <1>10, <1>11, <1>12, <1>13 DEF all, n

\* Rows that compare equal match alike.
LEMMA AlikeCompare ==
  ASSUME NEW x \in Row, NEW y \in Row, Canonical(x) = Canonical(y),
         NEW op \in Ops, NEW target
  PROVE  (x # Null /\ Compare(op, x, target)) <=> (y # Null /\ Compare(op, y, target))
<1>1. CASE x = y
  BY <1>1
<1>2. CASE x # y
  <2>1. {x, y} = {NegZero, PosZero}
    BY <1>2 DEF Canonical
  <2>2. NegZero \in Values /\ PosZero \in Values
    BY <2>1, ValuesAssumption DEF Row
  <2>3. /\ NegZero \in DOMAIN Rank /\ PosZero \in DOMAIN Rank
        /\ NegZero # Null /\ PosZero # Null
    BY <2>2, ValuesAssumption, RankAssumption
  <2>4. x \in DOMAIN Rank /\ y \in DOMAIN Rank /\ x # Null /\ y # Null
    BY <2>1, <2>3
  <2>5. Rank[x] = Rank[y]
    BY <2>4, RankAssumption
  <2>6. /\ Same(x, target) <=> Same(y, target)
        /\ Less(x, target) <=> Less(y, target)
        /\ Less(target, x) <=> Less(target, y)
    BY <2>4, <2>5 DEF Same, Less
  <2> QED
    BY <2>4, <2>6 DEF Compare, Ops, RangeOps
<1> QED
  BY <1>1, <1>2

LEMMA RawAlike ==
  ASSUME NEW rows \in Seq(Row), NEW others \in Seq(Row), Len(rows) = Len(others),
         \A k \in 1..Len(rows) : Canonical(rows[k]) = Canonical(others[k]),
         NEW base \in Nat, NEW op \in Ops, NEW target
  PROVE  RawMatches(rows, base, op, target) = RawMatches(others, base, op, target)
<1> DEFINE n == Len(rows)
<1>1. n \in Nat /\ \A k \in 1..n : rows[k] \in Row /\ others[k] \in Row
  BY LenProperties, ElementOfSeq
<1> HIDE DEF n
<1>2. \A i \in 0..(n - 1) : i \in Hits(rows, op, target) <=> i \in Hits(others, op, target)
  <2> SUFFICES ASSUME NEW i \in 0..(n - 1)
               PROVE  i \in Hits(rows, op, target) <=> i \in Hits(others, op, target)
    OBVIOUS
  <2>1. i + 1 \in 1..n
    BY <1>1
  <2>2. /\ rows[i + 1] \in Row /\ others[i + 1] \in Row
        /\ Canonical(rows[i + 1]) = Canonical(others[i + 1])
    BY <1>1, <2>1 DEF n
  <2>3. (rows[i + 1] # Null /\ Compare(op, rows[i + 1], target))
          <=> (others[i + 1] # Null /\ Compare(op, others[i + 1], target))
    BY <2>2, AlikeCompare
  <2> QED
    BY <2>3 DEF Hits, n
<1>3. MatchingRows(n, Hits(rows, op, target)) = MatchingRows(n, Hits(others, op, target))
  BY <1>1, <1>2, MatchAlike
<1> QED
  BY <1>3, RawMatchesShift DEF n

-----------------------------------------------------------------------------
(* Dictionaries *)

IsDictionary(d) ==
  /\ d \in [1..Len(d) -> {v \in Supported : Canonical(v) = v}]
  /\ Len(d) \in Nat /\ Sorted(d)

LEMMA ImageBounded ==
  ASSUME NEW S, IsFiniteSet(S), NEW T, NEW f \in [S -> T]
  PROVE  /\ IsFiniteSet({f[x] : x \in S})
         /\ Cardinality({f[x] : x \in S}) \in Nat
         /\ Cardinality({f[x] : x \in S}) <= Cardinality(S)
<1>1. f \in Surjection(S, {f[x] : x \in S})
  BY DEF Surjection
<1> QED
  BY <1>1, FS_Surjection, FS_CardinalityType

\* The constructor sorts its values, keeps one of those that are equal and drops none that
\* has no equal.
LEMMA DictionaryFacts ==
  ASSUME NEW input \in SUBSET Supported, IsFiniteSet(input)
  PROVE  /\ IsDictionary(Dictionary(input))
         /\ Len(Dictionary(input)) = Cardinality({Canonical(v) : v \in input})
         /\ Len(Dictionary(input)) <= Cardinality(input)
         /\ \A v \in input :
              \E k \in 1..Len(Dictionary(input)) : Dictionary(input)[k] = Canonical(v)
<1> DEFINE canon == [v \in input |-> Canonical(v)]
           S == {canon[v] : v \in input}
           d == Dictionary(input)
           n == Cardinality(S)
<1>1. S = {Canonical(v) : v \in input}
  OBVIOUS
<1>2. IsFiniteSet(S) /\ n \in Nat /\ n <= Cardinality(input)
  <2>1. canon \in [input -> Supported]
    BY CanonicalValue
  <2> QED
    BY <2>1, ImageBounded
<1>3. \A x \in S : x \in Supported /\ Canonical(x) = x /\ x \in DOMAIN Rank
  BY CanonicalValue
<1>4. \A x, y \in S : Rank[x] = Rank[y] => x = y
  <2> SUFFICES ASSUME NEW x \in S, NEW y \in S, Rank[x] = Rank[y] PROVE x = y
    OBVIOUS
  <2>1. Canonical(x) = x /\ Canonical(y) = y /\ x \in DOMAIN Rank /\ y \in DOMAIN Rank
    BY <1>3
  <2>2. Canonical(x) = Canonical(y)
    BY <2>1, RankAssumption
  <2> QED
    BY <2>1, <2>2
<1>5. d = CHOOSE e \in [1..n -> S] : Sorted(e)
  BY <1>1 DEF Dictionary, Sorted
<1>6. S \in SUBSET DOMAIN Rank
  BY <1>3
<1> HIDE DEF d, S
<1>7. d \in [1..n -> S] /\ Sorted(d)
  BY <1>2, <1>4, <1>5, <1>6, SortingExists
<1>8. Len(d) = n /\ DOMAIN d = 1..n
  BY <1>2, <1>7, FunctionIsSequence
<1>9. d \in [1..n -> {v \in Supported : Canonical(v) = v}]
  BY <1>3, <1>7
<1>10. \A x \in S : \E k \in DOMAIN d : d[k] = x
  BY <1>2, <1>6, <1>7, SortedHoldsAll
<1>11. \A v \in input : Canonical(v) \in S
  BY <1>1
<1>12. IsDictionary(d)
  BY <1>2, <1>7, <1>8, <1>9 DEF IsDictionary
<1>13. Len(d) = Cardinality({Canonical(v) : v \in input})
  BY <1>1, <1>8
<1> QED
  BY <1>2, <1>8, <1>10, <1>11, <1>12, <1>13 DEF d

\* Where the sorted values stop being below, or at most, a target.
LEMMA BoundsSplit ==
  ASSUME NEW d, IsDictionary(d), NEW t \in DOMAIN Rank
  PROVE  /\ LowerBound(d, t) \in 0..Len(d) /\ UpperBound(d, t) \in 0..Len(d)
         /\ \A k \in 1..Len(d) : /\ Less(d[k], t) <=> k <= LowerBound(d, t)
                                 /\ Less(d[k], t) \/ Same(d[k], t) <=> k <= UpperBound(d, t)
<1> DEFINE n == Len(d)
           Lower == {k \in 1..n : Less(d[k], t)}
           Upper == {k \in 1..n : ~Less(t, d[k])}
<1>1. n \in Nat /\ DOMAIN d = 1..n
  BY DEF IsDictionary
<1>2. \A k \in 1..n : d[k] \in DOMAIN Rank
  BY CanonicalValue DEF IsDictionary
<1>3. \A k \in 1..n : /\ Less(d[k], t) <=> Rank[d[k]] < Rank[t]
                      /\ ~Less(t, d[k]) <=> Less(d[k], t) \/ Same(d[k], t)
                      /\ ~Less(t, d[k]) <=> Rank[d[k]] <= Rank[t]
                      /\ Rank[d[k]] \in Int /\ Rank[t] \in Int
  <2> SUFFICES ASSUME NEW k \in 1..n
               PROVE  /\ Less(d[k], t) <=> Rank[d[k]] < Rank[t]
                      /\ ~Less(t, d[k]) <=> Less(d[k], t) \/ Same(d[k], t)
                      /\ ~Less(t, d[k]) <=> Rank[d[k]] <= Rank[t]
                      /\ Rank[d[k]] \in Int /\ Rank[t] \in Int
    OBVIOUS
  <2>1. d[k] \in DOMAIN Rank
    BY <1>2
  <2> QED
    BY <2>1, Trichotomy
<1>4. \A i, j \in 1..n : i < j => Rank[d[i]] < Rank[d[j]]
  BY <1>1, <1>2, Trichotomy DEF IsDictionary, Sorted
<1>5. \A i \in Lower : 1..i \subseteq Lower
  <2> SUFFICES ASSUME NEW i \in Lower, NEW j \in 1..i PROVE j \in Lower
    OBVIOUS
  <2>1. j \in 1..n /\ (j = i \/ j < i)
    BY <1>1
  <2>2. Rank[d[j]] <= Rank[d[i]]
    BY <1>3, <1>4, <2>1
  <2> QED
    BY <1>3, <2>1, <2>2
<1>6. \A i \in Upper : 1..i \subseteq Upper
  <2> SUFFICES ASSUME NEW i \in Upper, NEW j \in 1..i PROVE j \in Upper
    OBVIOUS
  <2>1. j \in 1..n /\ (j = i \/ j < i)
    BY <1>1
  <2>2. Rank[d[j]] <= Rank[d[i]]
    BY <1>3, <1>4, <2>1
  <2> QED
    BY <1>3, <2>1, <2>2
<1>7. LowerBound(d, t) = Cardinality(Lower) /\ UpperBound(d, t) = Cardinality(Upper)
  BY <1>1 DEF LowerBound, UpperBound
<1>8. /\ Cardinality(Lower) \in 0..n
      /\ \A k \in 1..n : k \in Lower <=> k <= Cardinality(Lower)
  BY <1>1, <1>5, DownSet
<1>9. /\ Cardinality(Upper) \in 0..n
      /\ \A k \in 1..n : k \in Upper <=> k <= Cardinality(Upper)
  BY <1>1, <1>6, DownSet
<1> QED
  BY <1>3, <1>7, <1>8, <1>9

LEMMA SmallIds ==
  ASSUME NEW p \in 0..MaxId
  PROVE  ValueId(p) = p
BY IdAssumption, DivisionUnique DEF ValueId

\* Codes compare with the ids of a target as the values do with the target.
LEMMA CodesCompare ==
  ASSUME NEW d, IsDictionary(d), FitsIds(d), NEW t \in Supported, NEW k \in 1..Len(d)
  PROVE  /\ k - 1 < LowerBoundId(d, t) <=> Less(d[k], t)
         /\ k - 1 < UpperBoundId(d, t) <=> Less(d[k], t) \/ Same(d[k], t)
         /\ LowerBoundId(d, t) \in Nat /\ UpperBoundId(d, t) \in Nat
         /\ k - 1 = Find(d, t) <=> Same(d[k], t)
<1> DEFINE c == Canonical(t)
           p == LowerBound(d, c)
<1>1. c \in DOMAIN Rank /\ t \in DOMAIN Rank /\ Rank[c] = Rank[t] /\ Rank[t] \in Int
  BY CanonicalValue
<1>2. Len(d) \in Nat /\ Len(d) <= MaxId /\ MaxId \in Nat /\ DOMAIN d = 1..Len(d)
  BY IdAssumption DEF IsDictionary, FitsIds
<1>3. \A j \in 1..Len(d) : d[j] \in DOMAIN Rank
  BY CanonicalValue DEF IsDictionary
<1>4. \A j \in 1..Len(d) : /\ Less(d[j], c) <=> Less(d[j], t)
                           /\ Same(d[j], c) <=> Same(d[j], t)
  BY <1>1, <1>3, Trichotomy
<1>5. /\ p \in 0..Len(d) /\ UpperBound(d, c) \in 0..Len(d)
      /\ \A j \in 1..Len(d) : /\ Less(d[j], t) <=> j <= p
                              /\ Less(d[j], t) \/ Same(d[j], t) <=> j <= UpperBound(d, c)
  BY <1>1, <1>4, BoundsSplit
<1>6. LowerBoundId(d, t) = p /\ UpperBoundId(d, t) = UpperBound(d, c) /\ ValueId(p) = p
  BY <1>2, <1>5, SmallIds DEF LowerBoundId, UpperBoundId
<1>7. Find(d, t) = IF p < Len(d) /\ Same(d[p + 1], t) THEN p ELSE NoId
  BY <1>6 DEF Find, IsSupported, Supported
<1> HIDE DEF p
<1>8. CASE p < Len(d) /\ Same(d[p + 1], t)
  <2>1. p + 1 \in 1..Len(d)
    BY <1>5, <1>8
  <2>2. Same(d[k], t) => Rank[d[k]] = Rank[d[p + 1]]
    BY <1>8 DEF Same
  <2>3. Rank[d[k]] = Rank[d[p + 1]] => k = p + 1
    <3>1. k < p + 1 => Rank[d[k]] < Rank[d[p + 1]]
      BY <1>2, <2>1 DEF IsDictionary, Sorted, Less
    <3>2. p + 1 < k => Rank[d[p + 1]] < Rank[d[k]]
      BY <1>2, <2>1 DEF IsDictionary, Sorted, Less
    <3>3. Rank[d[k]] \in Int /\ Rank[d[p + 1]] \in Int
      BY <1>3, <2>1, RankAssumption
    <3> QED
      BY <1>5, <3>1, <3>2, <3>3
  <2>4. k - 1 = Find(d, t) <=> k = p + 1
    BY <1>5, <1>7, <1>8
  <2> QED
    BY <1>5, <1>6, <1>8, <2>2, <2>3, <2>4
<1>9. CASE ~(p < Len(d) /\ Same(d[p + 1], t))
  <2>1. Find(d, t) = NoId /\ k - 1 # NoId
    <3>1. k - 1 \in Nat
      OBVIOUS
    <3> QED
      BY <1>7, <1>9, <3>1, IdAssumption
  <2>2. ASSUME Same(d[k], t) PROVE FALSE
    <3>1. ~Less(d[k], t)
      BY <1>1, <1>3, <2>2, Trichotomy
    <3>2. p < k /\ p + 1 \in 1..Len(d) /\ p < Len(d)
      BY <1>2, <1>5, <3>1
    <3>3. p + 1 < k => Less(d[p + 1], t)
      <4>1. p + 1 < k => Less(d[p + 1], d[k])
        BY <1>2, <3>2 DEF IsDictionary, Sorted
      <4> QED
        BY <2>2, <4>1 DEF Less, Same
    <3>4. k = p + 1
      BY <1>5, <3>2, <3>3
    <3> QED
      BY <1>9, <2>2, <3>2, <3>4
  <2> QED
    BY <1>5, <1>6, <2>1, <2>2
<1> QED
  BY <1>8, <1>9

-----------------------------------------------------------------------------
(* The encoded main *)

NonNull(rows) == {rows[i] : i \in {k \in DOMAIN rows : rows[k] # Null}}
Fits(rows) == FitsIds(Dictionary(NonNull(rows)))

LEMMA IntervalCount ==
  ASSUME NEW n \in Nat
  PROVE  IsFiniteSet(1..n) /\ Cardinality(1..n) = n
<1>1. IsFiniteSet(1..n) /\ Cardinality(1..n) = IF 1 > n THEN 0 ELSE n - 1 + 1
  BY FS_Interval
<1> QED
  BY <1>1

LEMMA NonNullBounded ==
  ASSUME NEW rows \in Seq(Row), Encodable(rows)
  PROVE  /\ NonNull(rows) \in SUBSET Supported /\ IsFiniteSet(NonNull(rows))
         /\ Cardinality(NonNull(rows)) <= Len(rows)
<1> DEFINE K == {k \in 1..Len(rows) : rows[k] # Null}
           f == [k \in K |-> rows[k]]
<1>1. /\ Len(rows) \in Nat /\ DOMAIN rows = 1..Len(rows)
      /\ \A k \in 1..Len(rows) : rows[k] \in Row
  BY LenProperties, ElementOfSeq
<1>2. IsFiniteSet(K) /\ Cardinality(K) \in Nat /\ Cardinality(K) <= Len(rows)
  <2>1. IsFiniteSet(1..Len(rows)) /\ Cardinality(1..Len(rows)) = Len(rows)
    BY <1>1, IntervalCount
  <2>2. K \in SUBSET (1..Len(rows))
    OBVIOUS
  <2> HIDE DEF K
  <2>3. IsFiniteSet(K) /\ Cardinality(K) <= Cardinality(1..Len(rows))
    BY <2>1, <2>2, FS_Subset
  <2> QED
    BY <2>1, <2>3, FS_CardinalityType
<1>3. f \in [K -> Supported]
  BY <1>1 DEF Encodable, Supported, Row
<1>4. NonNull(rows) = {f[k] : k \in K}
  BY <1>1 DEF NonNull
<1>5. NonNull(rows) \in SUBSET Supported
  BY <1>3, <1>4
<1> HIDE DEF K, f
<1>6. IsFiniteSet({f[k] : k \in K}) /\ Cardinality({f[k] : k \in K}) <= Cardinality(K)
  BY <1>2, <1>3, ImageBounded
<1>7. IsFiniteSet(NonNull(rows)) /\ Cardinality(NonNull(rows)) <= Cardinality(K)
  BY <1>4, <1>6
<1>8. Cardinality(NonNull(rows)) \in Nat
  BY <1>7, FS_CardinalityType
<1> QED
  BY <1>1, <1>2, <1>5, <1>7, <1>8

\* As many ids as rows are enough.
LEMMA ShortFits ==
  ASSUME NEW rows \in Seq(Row), Encodable(rows), Len(rows) <= MaxId
  PROVE  Fits(rows)
<1>1. /\ Len(Dictionary(NonNull(rows))) <= Cardinality(NonNull(rows))
      /\ Len(Dictionary(NonNull(rows))) \in Nat
  BY NonNullBounded, DictionaryFacts DEF IsDictionary
<1>2. Cardinality(NonNull(rows)) <= Len(rows) /\ Cardinality(NonNull(rows)) \in Nat
  BY NonNullBounded, FS_CardinalityType
<1> QED
  BY <1>1, <1>2, LenProperties, IdAssumption DEF Fits, FitsIds

\* Every row of the main is null or has the code of its value.
LEMMA EncodedRows ==
  ASSUME NEW rows \in Seq(Row), Encodable(rows), Fits(rows)
  PROVE  LET column == BuildEncoded(rows)
             d == column.dictionary
         IN  /\ IsDictionary(d) /\ FitsIds(d) /\ ColumnSize(column) = Len(rows)
             /\ \A i \in 0..(Len(rows) - 1) :
                  /\ ColumnIsNull(column, i) <=> rows[i + 1] = Null
                  /\ rows[i + 1] # Null =>
                       /\ rows[i + 1] \in Supported
                       /\ column.codes[i + 1] + 1 \in 1..Len(d)
                       /\ column.codes[i + 1] \in Nat
                       /\ d[column.codes[i + 1] + 1] = Canonical(rows[i + 1])
<1> DEFINE column == BuildEncoded(rows)
           d == Dictionary(NonNull(rows))
           code(v) == Find(d, v)
<1>1. /\ Len(rows) \in Nat /\ DOMAIN rows = 1..Len(rows)
      /\ \A k \in 1..Len(rows) : rows[k] \in Row
  BY LenProperties, ElementOfSeq
<1>2. column = [dictionary |-> d,
                codes |-> [i \in DOMAIN rows |->
                             IF rows[i] = Null THEN 0 ELSE Find(d, rows[i])],
                valid |-> [i \in DOMAIN rows |-> rows[i] # Null]]
  BY DEF BuildEncoded, Fits, NonNull
<1>3. IsDictionary(d) /\ FitsIds(d)
  BY NonNullBounded, DictionaryFacts DEF Fits
<1>4. \A v \in NonNull(rows) : \E k \in 1..Len(d) : d[k] = Canonical(v)
  BY NonNullBounded, DictionaryFacts
<1>5. NonNull(rows) \in SUBSET Supported
  BY NonNullBounded
<1> HIDE DEF d
<1>6. ASSUME NEW v \in NonNull(rows)
      PROVE  /\ Find(d, v) \in Nat /\ Find(d, v) + 1 \in 1..Len(d)
             /\ d[Find(d, v) + 1] = Canonical(v)
  <2>1. v \in Supported
    BY <1>5
  <2>2. PICK k \in 1..Len(d) : d[k] = Canonical(v)
    BY <1>4
  <2>3. Same(d[k], v)
    BY <2>1, <2>2, CanonicalValue DEF Same
  <2>4. k - 1 = Find(d, v)
    BY <1>3, <2>1, <2>3, CodesCompare
  <2>5. Find(d, v) + 1 = k /\ Find(d, v) \in Nat
    BY <2>4
  <2> QED
    BY <2>2, <2>5
<1>7. column.dictionary = d /\ column.codes = [i \in 1..Len(rows) |->
        IF rows[i] = Null THEN 0 ELSE Find(d, rows[i])]
      /\ column.valid = [i \in 1..Len(rows) |-> rows[i] # Null]
  BY <1>1, <1>2
<1> HIDE DEF column
<1>8. ColumnSize(column) = Len(rows)
  BY <1>1, <1>7 DEF ColumnSize
<1>9. ASSUME NEW i \in 0..(Len(rows) - 1)
      PROVE  /\ ColumnIsNull(column, i) <=> rows[i + 1] = Null
             /\ rows[i + 1] # Null =>
                  rows[i + 1] \in NonNull(rows) /\ column.codes[i + 1] = Find(d, rows[i + 1])
  <2>1. i + 1 \in 1..Len(rows)
    BY <1>1
  <2> QED
    BY <1>1, <1>7, <2>1 DEF ColumnIsNull, NonNull
<1>10. \A i \in 0..(Len(rows) - 1) :
         /\ ColumnIsNull(column, i) <=> rows[i + 1] = Null
         /\ rows[i + 1] # Null =>
              /\ rows[i + 1] \in Supported
              /\ column.codes[i + 1] + 1 \in 1..Len(d)
              /\ column.codes[i + 1] \in Nat
              /\ d[column.codes[i + 1] + 1] = Canonical(rows[i + 1])
  BY <1>5, <1>6, <1>9
<1> QED
  BY <1>3, <1>7, <1>8, <1>10 DEF column

\* dictionary_less, _less_equal, _greater, _greater_equal and _equal, evaluated on codes,
\* select exactly the rows whose values compare, for any column that can be encoded and any
\* supported target: a target between two values of the dictionary, above or below all of
\* them, a zero of either sign, null rows.  A target without a code equals no row.
THEOREM CodesCompareAsValues ==
  ASSUME NEW rows \in Seq(Row), Encodable(rows), Fits(rows), NEW target \in Supported
  PROVE  \A op \in Ops :
           MainMatches(BuildEncoded(rows), op, target)
             = MatchingRows(Len(rows), Hits(rows, op, target))
<1> DEFINE column == BuildEncoded(rows)
           d == column.dictionary
           n == Len(rows)
           matches(op) == Hits(rows, op, target)
           low == LowerBoundId(d, target)
           high == UpperBoundId(d, target)
<1>1. /\ IsDictionary(d) /\ FitsIds(d) /\ ColumnSize(column) = n
      /\ \A i \in 0..(n - 1) :
           /\ ColumnIsNull(column, i) <=> rows[i + 1] = Null
           /\ rows[i + 1] # Null =>
                /\ rows[i + 1] \in Supported
                /\ column.codes[i + 1] + 1 \in 1..Len(d)
                /\ column.codes[i + 1] \in Nat
                /\ d[column.codes[i + 1] + 1] = Canonical(rows[i + 1])
  BY EncodedRows
<1> HIDE DEF column
<1>2. ASSUME NEW i \in 0..(n - 1), rows[i + 1] # Null
      PROVE  LET c == column.codes[i + 1] IN
             /\ c < low <=> Less(rows[i + 1], target)
             /\ c < high <=> Less(rows[i + 1], target) \/ Same(rows[i + 1], target)
             /\ c >= low <=> Less(target, rows[i + 1]) \/ Same(rows[i + 1], target)
             /\ c >= high <=> Less(target, rows[i + 1])
             /\ c = Find(d, target) <=> Same(rows[i + 1], target)
  <2> DEFINE c == column.codes[i + 1]
             v == rows[i + 1]
             k == c + 1
  <2>1. v \in Supported /\ k \in 1..Len(d) /\ c \in Nat /\ d[k] = Canonical(v)
    BY <1>1, <1>2
  <2>2. /\ Less(d[k], target) <=> Less(v, target)
        /\ Same(d[k], target) <=> Same(v, target)
    BY <2>1, CanonicalValue DEF Less, Same
  <2>3. /\ Less(target, v) <=> ~(Less(v, target) \/ Same(v, target))
        /\ Less(target, v) \/ Same(v, target) <=> ~Less(v, target)
    <3>1. v \in DOMAIN Rank /\ target \in DOMAIN Rank
      BY <2>1, CanonicalValue
    <3>2. Rank[v] \in Int /\ Rank[target] \in Int
      BY <2>1, CanonicalValue
    <3> QED
      BY <3>1, <3>2 DEF Less, Same
  <2> HIDE DEF v, c
  <2>4. /\ k - 1 < low <=> Less(d[k], target)
        /\ k - 1 < high <=> Less(d[k], target) \/ Same(d[k], target)
        /\ low \in Nat /\ high \in Nat
        /\ k - 1 = Find(d, target) <=> Same(d[k], target)
    BY <1>1, <2>1, CodesCompare
  <2>5. k - 1 = c
    BY <2>1
  <2>6. /\ c < low <=> Less(v, target)
        /\ c < high <=> Less(v, target) \/ Same(v, target)
        /\ c = Find(d, target) <=> Same(v, target)
    BY <2>2, <2>4, <2>5
  <2>7. (c >= low <=> ~(c < low)) /\ (c >= high <=> ~(c < high))
    BY <2>1, <2>4
  <2>8. /\ c < low <=> Less(v, target)
        /\ c < high <=> Less(v, target) \/ Same(v, target)
        /\ c >= low <=> Less(target, v) \/ Same(v, target)
        /\ c >= high <=> Less(target, v)
        /\ c = Find(d, target) <=> Same(v, target)
    BY <2>3, <2>6, <2>7
  <2> QED
    BY <2>8 DEF c, v
<1>3. \A x, y : Same(x, y) <=> Same(y, x)
  BY DEF Same
<1> HIDE DEF low, high, d
<1>4. MainMatches(column, "less", target) = MatchingRows(n, matches("less"))
  <2>1. {i \in 0..(n - 1) : ~ColumnIsNull(column, i) /\ column.codes[i + 1] < low}
          = matches("less")
    BY <1>1, <1>2 DEF Compare, Hits
  <2> QED
    BY <1>1, <2>1 DEF MainMatches, RangeOps, IsSupported, Supported, DictionaryRange,
       CodesBelow, low, d
<1>5. MainMatches(column, "less_equal", target) = MatchingRows(n, matches("less_equal"))
  <2>1. {i \in 0..(n - 1) : ~ColumnIsNull(column, i) /\ column.codes[i + 1] < high}
          = matches("less_equal")
    BY <1>1, <1>2 DEF Compare, Hits
  <2> QED
    BY <1>1, <2>1 DEF MainMatches, RangeOps, IsSupported, Supported, DictionaryRange,
       CodesBelow, high, d
<1>6. MainMatches(column, "greater", target) = MatchingRows(n, matches("greater"))
  <2>1. {i \in 0..(n - 1) : ~ColumnIsNull(column, i) /\ column.codes[i + 1] >= high}
          = matches("greater")
    BY <1>1, <1>2 DEF Compare, Hits
  <2> QED
    BY <1>1, <2>1 DEF MainMatches, RangeOps, IsSupported, Supported, DictionaryRange,
       CodesAtLeast, high, d
<1>7. MainMatches(column, "greater_equal", target) = MatchingRows(n, matches("greater_equal"))
  <2>1. {i \in 0..(n - 1) : ~ColumnIsNull(column, i) /\ column.codes[i + 1] >= low}
          = matches("greater_equal")
    BY <1>1, <1>2, <1>3 DEF Compare, Hits
  <2> QED
    BY <1>1, <2>1 DEF MainMatches, RangeOps, IsSupported, Supported, DictionaryRange,
       CodesAtLeast, low, d
<1>8. MainMatches(column, "equal", target) = MatchingRows(n, matches("equal"))
  <2>1. {i \in 0..(n - 1) : ~ColumnIsNull(column, i) /\ column.codes[i + 1] = Find(d, target)}
          = matches("equal")
    BY <1>1, <1>2 DEF Compare, Hits, d
  <2>2. Find(d, target) = NoId => matches("equal") = {}
    <3>1. \A i \in 0..(n - 1) : rows[i + 1] # Null => column.codes[i + 1] # NoId
      BY <1>1, IdAssumption
    <3> QED
      BY <1>1, <2>1, <3>1
  <2>3. MainMatches(column, "equal", target) = DictionaryEqual(column, target)
    BY DEF MainMatches, RangeOps
  <2>4. n \in Nat /\ MatchingRows(n, {}) = << >>
    BY LenProperties, MatchNone
  <2>5. CASE Find(d, target) = NoId
    BY <2>2, <2>3, <2>4, <2>5 DEF DictionaryEqual, d
  <2>6. CASE Find(d, target) # NoId
    BY <1>1, <2>1, <2>3, <2>6 DEF DictionaryEqual, d
  <2> QED
    BY <2>5, <2>6
<1> QED
  BY <1>4, <1>5, <1>6, <1>7, <1>8 DEF Ops, RangeOps, column

\* A query on the codes of a main answers what a scan of its rows would, whatever the
\* target: a range query with a target that no dictionary accepts throws, and such a
\* target equals no row.
THEOREM MainAnswers ==
  ASSUME NEW rows \in Seq(Row), Encodable(rows), Fits(rows), NEW op \in Ops,
         NEW target \in Values
  PROVE  MainMatches(BuildEncoded(rows), op, target) = QueryOf(rows, op, target)
<1> DEFINE column == BuildEncoded(rows)
           n == Len(rows)
<1>1. RawMatches(rows, 0, op, target) = MatchingRows(n, Hits(rows, op, target))
  BY RawFromZero
<1>2. CASE IsSupported(target)
  <2>1. target \in Supported
    BY <1>2 DEF IsSupported, Supported
  <2>2. MainMatches(column, op, target) = MatchingRows(n, Hits(rows, op, target))
    BY <2>1, CodesCompareAsValues
  <2> QED
    BY <1>1, <1>2, <2>2 DEF QueryOf
<1>3. CASE ~IsSupported(target) /\ op \in RangeOps
  BY <1>3 DEF MainMatches, QueryOf, RangeOps
<1>4. CASE ~IsSupported(target) /\ op \notin RangeOps
  <2>1. op = "equal"
    BY <1>4 DEF Ops
  <2>2. MainMatches(column, op, target) = << >>
    <3>1. Find(column.dictionary, target) = NoId
      BY <1>4 DEF Find
    <3>2. DictionaryEqual(column, target) = << >>
      BY <3>1 DEF DictionaryEqual
    <3>3. MainMatches(column, "equal", target) = DictionaryEqual(column, target)
      BY DEF MainMatches, RangeOps
    <3> QED
      BY <2>1, <3>2, <3>3
  <2>3. ASSUME NEW i \in 0..(n - 1), rows[i + 1] # Null PROVE ~Same(rows[i + 1], target)
    <3> DEFINE x == rows[i + 1]
    <3>1. x \in Supported
      <4>1. n \in Nat /\ DOMAIN rows = 1..n
        BY LenProperties
      <4>2. i + 1 \in 1..n
        BY <4>1
      <4>3. x \in Row
        BY <4>2, ElementOfSeq
      <4> QED
        BY <2>3, <4>1, <4>2, <4>3 DEF Encodable, Row, Supported
    <3> HIDE DEF x
    <3>2. Canonical(x) \in Supported /\ x \in DOMAIN Rank
      BY <3>1, CanonicalValue
    <3>3. Canonical(target) = target /\ target \notin Supported
      BY <1>4, ValuesAssumption DEF Canonical, IsSupported, Supported
    <3>4. ~Same(x, target)
      BY <3>2, <3>3, RankAssumption DEF Same
    <3> QED
      BY <3>4 DEF x
  <2>4. Hits(rows, op, target) = {}
    BY <2>1, <2>3 DEF Hits, Compare
  <2>5. MatchingRows(n, {}) = << >>
    BY LenProperties, MatchNone
  <2> QED
    BY <1>1, <1>4, <2>2, <2>4, <2>5 DEF QueryOf
<1> QED
  BY <1>2, <1>3, <1>4

\* What a query collects, or that it throws.
LEMMA QueryFacts ==
  ASSUME NEW rows \in Seq(Row), NEW op \in Ops, NEW target \in Values
  PROVE  /\ QueryOf(rows, op, target) = Thrown <=> op \in RangeOps /\ ~IsSupported(target)
         /\ QueryOf(rows, op, target) # Thrown =>
              QueryOf(rows, op, target) = RawMatches(rows, 0, op, target)
<1>1. RawMatches(rows, 0, op, target) \in Seq(Nat)
  BY RawType
<1>2. RawMatches(rows, 0, op, target) # Thrown
  BY <1>1, ThrownAssumption
<1> QED
  BY <1>2 DEF QueryOf

\* The rows found in a scan of two parts are those found in the first, then in the second.
LEMMA ScanSplit ==
  ASSUME NEW rows \in Seq(Row), NEW delta \in Seq(Row), NEW op, NEW target
  PROVE  RawMatches(rows \o delta, 0, op, target)
           = RawMatches(rows, 0, op, target) \o RawMatches(delta, Len(rows), op, target)
<1>1. rows \o delta \in Seq(Row) /\ Len(rows) \in Nat /\ 0 \in Nat
  BY ConcatProperties, LenProperties
<1>2. RawMatches(rows \o delta, 0, op, target)
        = RawMatches(rows, 0, op, target) \o RawMatches(delta, 0 + Len(rows), op, target)
  BY <1>1, RawSplit
<1>3. 0 + Len(rows) = Len(rows)
  BY <1>1
<1> QED
  BY <1>2, <1>3

\* The main's answer, then the RowIds found among raw rows behind it, is the answer over both.
LEMMA QueryJoin ==
  ASSUME NEW rows \in Seq(Row), Encodable(rows), Fits(rows), NEW delta \in Seq(Row),
         NEW op \in Ops, NEW target \in Values
  PROVE  QueryOf(rows \o delta, op, target) =
           IF MainMatches(BuildEncoded(rows), op, target) = Thrown THEN Thrown
           ELSE MainMatches(BuildEncoded(rows), op, target)
                  \o RawMatches(delta, Len(rows), op, target)
<1> DEFINE inMain == MainMatches(BuildEncoded(rows), op, target)
<1>1. inMain = QueryOf(rows, op, target)
  BY MainAnswers
<1> HIDE DEF inMain
<1>2. rows \o delta \in Seq(Row)
  BY ConcatProperties
<1>3. RawMatches(rows \o delta, 0, op, target)
        = RawMatches(rows, 0, op, target) \o RawMatches(delta, Len(rows), op, target)
  BY ScanSplit
<1>4. CASE inMain = Thrown
  BY <1>1, <1>2, <1>4, QueryFacts DEF inMain
<1>5. CASE inMain # Thrown
  BY <1>1, <1>2, <1>3, <1>5, QueryFacts DEF inMain
<1> QED
  BY <1>4, <1>5

\* No rows, nothing found.
LEMMA RawNone ==
  ASSUME NEW base \in Nat, NEW op, NEW target
  PROVE  RawMatches(<< >>, base, op, target) = << >>
<1>1. << >> \in Seq(Row) /\ Len(<< >>) = 0
  BY EmptySeq
<1>2. Hits(<< >>, op, target) = {}
  BY <1>1 DEF Hits
<1>3. MatchingRows(0, {}) = << >>
  BY MatchNone
<1>4. << >> \in Seq(Nat)
  BY EmptySeq
<1>5. RawMatches(<< >>, base, op, target)
        = Shift(base, MatchingRows(Len(<< >>), Hits(<< >>, op, target)))
  BY RawMatchesShift
<1>6. Shift(base, << >>) = << >>
  BY <1>4, ShiftFacts
<1> QED
  BY <1>1, <1>2, <1>3, <1>5, <1>6

\* Sequences of rows that compare equal give the same answers.
LEMMA QueryAlike ==
  ASSUME NEW rows \in Seq(Row), NEW others \in Seq(Row), Len(rows) = Len(others),
         \A k \in 1..Len(rows) : Canonical(rows[k]) = Canonical(others[k]),
         NEW op \in Ops, NEW target
  PROVE  QueryOf(rows, op, target) = QueryOf(others, op, target)
<1>1. 0 \in Nat
  OBVIOUS
<1>2. RawMatches(rows, 0, op, target) = RawMatches(others, 0, op, target)
  BY <1>1, RawAlike
<1> QED
  BY <1>2 DEF QueryOf

\* The three parts of a query are the parts of a scan.
ScanInParts(main, closed, p, op, target) ==
  RawMatches((main \o closed) \o p, 0, op, target)
    = (RawMatches(main, 0, op, target) \o RawMatches(closed, Len(main), op, target))
        \o RawMatches(p, Len(main) + Len(closed), op, target)

LEMMA PartsOfScan ==
  ASSUME NEW main \in Seq(Row), NEW closed \in Seq(Row), NEW p \in Seq(Row),
         NEW op, NEW target
  PROVE  ScanInParts(main, closed, p, op, target)
<1> DEFINE both == main \o closed
<1>1. both \in Seq(Row)
  BY ConcatProperties
<1>2. Len(both) = Len(main) + Len(closed)
  BY ConcatProperties
<1>3. RawMatches(both, 0, op, target)
        = RawMatches(main, 0, op, target) \o RawMatches(closed, Len(main), op, target)
  BY ScanSplit
<1> HIDE DEF both
<1>4. RawMatches(both \o p, 0, op, target)
        = RawMatches(both, 0, op, target) \o RawMatches(p, Len(both), op, target)
  BY <1>1, ScanSplit
<1> QED
  BY <1>2, <1>3, <1>4 DEF both, ScanInParts

\* The answer over rows that start others starts the answer over the others.
LEMMA AnswersGrow ==
  ASSUME NEW rows \in Seq(Row), NEW all \in Seq(Row), Len(rows) <= Len(all),
         \A k \in 1..Len(rows) : all[k] = rows[k],
         NEW op \in Ops, NEW target \in Values, QueryOf(rows, op, target) # Thrown
  PROVE  LET before == QueryOf(rows, op, target)
             now == QueryOf(all, op, target)
         IN  Len(before) <= Len(now) /\ \A k \in DOMAIN before : now[k] = before[k]
<1> DEFINE rest == SubSeq(all, Len(rows) + 1, Len(all))
           before == RawMatches(rows, 0, op, target)
           more == RawMatches(rest, Len(rows), op, target)
<1>1. Len(rows) \in Nat /\ Len(all) \in Nat
  BY LenProperties
<1>2. SubSeq(all, 1, Len(rows)) = rows
  <2>1. SubSeq(all, 1, Len(rows)) \in Seq(Row)
        /\ Len(SubSeq(all, 1, Len(rows))) = Len(rows)
        /\ \A k \in 1..Len(rows) : SubSeq(all, 1, Len(rows))[k] = all[k]
    <3>1. \A k \in 1..Len(rows) : all[k] \in Row
      BY ElementOfSeq
    <3> QED
      BY <1>1, <3>1, SubSeqProperties
  <2> QED
    BY <2>1, SeqEqual
<1>3. rest \in Seq(Row)
  <2>1. \A k \in (Len(rows) + 1)..Len(all) : all[k] \in Row
    <3>1. \A k \in (Len(rows) + 1)..Len(all) : k \in 1..Len(all)
      BY <1>1
    <3> QED
      BY <3>1, ElementOfSeq
  <2> QED
    BY <1>1, <2>1, SubSeqProperties
<1>4. all = rows \o rest
  <2>1. /\ 1 \in 1..(Len(all) + 1) /\ Len(rows) \in (1 - 1)..Len(all)
        /\ Len(all) \in Len(rows)..Len(all)
    BY <1>1
  <2>2. SubSeq(all, 1, Len(rows)) \o rest = SubSeq(all, 1, Len(all))
    BY <2>1, ConcatAdjacentSubSeq
  <2> QED
    BY <1>2, <2>2, SubSeqFull
<1> HIDE DEF rest
<1>5. 0 \in Nat /\ Len(rows) \in Nat
  BY <1>1
<1>6. RawMatches(rows \o rest, 0, op, target) = before \o more
  BY <1>3, ScanSplit
<1>7. before \in Seq(Nat) /\ more \in Seq(Nat)
  BY <1>1, <1>3, <1>5, RawType
<1>8. ~(op \in RangeOps /\ ~IsSupported(target))
  BY DEF QueryOf
<1>9. QueryOf(rows, op, target) = before /\ QueryOf(all, op, target) = before \o more
  BY <1>4, <1>6, <1>8 DEF QueryOf
<1> HIDE DEF before, more
<1>10. /\ Len(before) \in Nat /\ Len(more) \in Nat /\ DOMAIN before = 1..Len(before)
       /\ Len(before \o more) = Len(before) + Len(more)
       /\ \A k \in 1..(Len(before) + Len(more)) : (before \o more)[k] =
            IF k <= Len(before) THEN before[k] ELSE more[k - Len(before)]
  BY <1>7, LenProperties, ConcatProperties
<1>11. /\ Len(before) <= Len(before \o more)
       /\ \A k \in DOMAIN before : (before \o more)[k] = before[k]
  BY <1>10
<1> QED
  BY <1>9, <1>11
=============================================================================
