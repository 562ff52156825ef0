----------------------- MODULE MainDeltaColumnProofs ------------------------
(***************************************************************************)
(* The dictionary of an immutable main compares as the values do, and the  *)
(* delta beside it stays whole, for any values, rows and word size.        *)
(***************************************************************************)
EXTENDS MainDeltaColumn, DictionaryProofs

-----------------------------------------------------------------------------
(* The delta *)

\* What the delta keeps of a row.
Stored(row) == IF row = Null THEN Placeholder ELSE row

DeltaTyped ==
  /\ appended \in Seq(Row) /\ values \in Seq(Values \cup {Placeholder})
  /\ words \in Seq(SUBSET Nat) /\ size \in Nat

WordsFor(n) == (n + WordBits - 1) \div WordBits

DeltaSized == /\ size = Len(appended) /\ Len(values) = size
              /\ Len(words) = WordsFor(size)

DeltaStored == \A k \in 1..size : values[k] = Stored(appended[k])

\* The word of a bitmap over the first n of some rows that starts at RowId base.
BitsOf(word, base, rows, n) ==
  \A b \in Nat : b \in word <=> /\ b < WordBits /\ base + b < n
                               /\ rows[base + b + 1] # Null

DeltaBits == \A j \in 1..Len(words) : BitsOf(words[j], WordBits * (j - 1), appended, size)

DeltaWhole == DeltaTyped /\ DeltaSized /\ DeltaStored /\ DeltaBits

LEMMA WordsCount ==
  ASSUME NEW q \in Nat, NEW r \in 0..(WordBits - 1)
  PROVE  /\ WordsFor(WordBits * q + r) = IF r = 0 THEN q ELSE q + 1
         /\ WordsFor(WordBits * q + r + 1) = q + 1
<1> DEFINE t == WordBits * q
<1>1. WordBits \in Nat \ {0} /\ t \in Nat
  BY WordBitsAssumption
<1>2. WordBits * (q + 1) = t + WordBits
  BY <1>1
<1> HIDE DEF t
<1>3. ASSUME r = 0 PROVE WordsFor(WordBits * q + r) = q
  <2>1. (WordBits * q + (WordBits - 1)) \div WordBits = q
    BY <1>1, DivisionUnique
  <2>2. t + r + WordBits - 1 = t + (WordBits - 1)
    BY <1>1, <1>3
  <2> QED
    BY <1>3, <2>1, <2>2 DEF WordsFor, t
<1>4. ASSUME r # 0 PROVE WordsFor(WordBits * q + r) = q + 1
  <2>1. r - 1 \in 0..(WordBits - 1) /\ q + 1 \in Nat
    BY <1>1, <1>4
  <2>2. (WordBits * (q + 1) + (r - 1)) \div WordBits = q + 1
    BY <1>1, <2>1, DivisionUnique
  <2>3. t + r + WordBits - 1 = t + WordBits + (r - 1)
    BY <1>1
  <2> QED
    BY <1>2, <1>4, <2>2, <2>3 DEF WordsFor, t
<1>5. (WordBits * (q + 1) + r) \div WordBits = q + 1
  BY <1>1, DivisionUnique
<1>6. t + r + 1 + WordBits - 1 = t + WordBits + r
  BY <1>1
<1>7. WordsFor(WordBits * q + r + 1) = q + 1
  BY <1>2, <1>5, <1>6 DEF WordsFor, t
<1> QED
  BY <1>3, <1>4, <1>7

\* A word of rows all of them there does not change when rows are added.
LEMMA FullWord ==
  ASSUME NEW rows \in Seq(Row), NEW row \in Row, NEW base \in Nat,
         base + WordBits <= Len(rows), NEW word, BitsOf(word, base, rows, Len(rows))
  PROVE  BitsOf(word, base, Append(rows, row), Len(rows) + 1)
<1> DEFINE more == Append(rows, row)
<1>1. WordBits \in Nat \ {0} /\ Len(rows) \in Nat
  BY WordBitsAssumption, LenProperties
<1>2. \A i \in 1..Len(rows) : more[i] = rows[i]
  BY AppendProperties
<1> HIDE DEF more
<1>3. ASSUME NEW b \in Nat, b < WordBits
      PROVE  /\ base + b < Len(rows) /\ base + b < Len(rows) + 1
             /\ more[base + b + 1] = rows[base + b + 1]
  <2>1. base + b < Len(rows) /\ base + b < Len(rows) + 1 /\ base + b + 1 \in 1..Len(rows)
    BY <1>1, <1>3
  <2> QED
    BY <1>2, <2>1
<1> QED
  BY <1>3 DEF BitsOf, more

\* The last word gets the bit of the row added.
LEMMA LastWord ==
  ASSUME NEW rows \in Seq(Row), NEW row \in Row,
         NEW base \in Nat, NEW r \in 0..(WordBits - 1), Len(rows) = base + r,
         NEW word \in SUBSET Nat, BitsOf(word, base, rows, Len(rows))
  PROVE  BitsOf(IF row # Null THEN word \cup {r} ELSE word, base,
                Append(rows, row), Len(rows) + 1)
<1> DEFINE more == Append(rows, row)
           n == Len(rows)
           bits == IF row # Null THEN word \cup {r} ELSE word
<1>1. WordBits \in Nat \ {0} /\ n = base + r /\ r \in Nat /\ r < WordBits
  BY WordBitsAssumption
<1>2. (\A i \in 1..n : more[i] = rows[i]) /\ more[n + 1] = row
  BY AppendProperties
<1>3. \A b \in Nat : b \in word <=> b < WordBits /\ base + b < n /\ rows[base + b + 1] # Null
  BY DEF BitsOf
<1>4. \A b \in Nat : b \in bits <=> b \in word \/ (row # Null /\ b = r)
  OBVIOUS
<1> HIDE DEF n, more, bits
<1>5. ASSUME NEW b \in Nat
      PROVE  b \in bits <=> b < WordBits /\ base + b < n + 1 /\ more[base + b + 1] # Null
  <2>1. CASE b < r
    <3>1. base + b + 1 \in 1..n /\ base + b < n /\ base + b < n + 1 /\ b # r /\ b < WordBits
      BY <1>1, <2>1
    <3> QED
      BY <1>2, <1>3, <1>4, <3>1
  <2>2. CASE b = r
    <3>1. base + b + 1 = n + 1 /\ base + b < n + 1 /\ ~(base + b < n) /\ b < WordBits
      BY <1>1, <2>2
    <3> QED
      BY <1>2, <1>3, <1>4, <2>2, <3>1
  <2>3. CASE b > r
    <3>1. ~(base + b < n + 1) /\ ~(base + b < n) /\ b # r
      BY <1>1, <2>3
    <3> QED
      BY <1>3, <1>4, <3>1
  <2> QED
    BY <1>1, <2>1, <2>2, <2>3
<1>6. BitsOf(bits, base, more, n + 1)
  BY <1>5 DEF BitsOf
<1> QED
  BY <1>6 DEF n, more, bits

LEMMA AppendKeepsWhole ==
  ASSUME DeltaWhole, NEW row \in Row, AppendRow(row), appended' = Append(appended, row)
  PROVE  DeltaWhole'
<1> DEFINE grown == IF NeedsWord THEN Append(words, {}) ELSE words
<1>1. /\ appended \in Seq(Row) /\ values \in Seq(Values \cup {Placeholder})
      /\ words \in Seq(SUBSET Nat) /\ size \in Nat /\ WordBits \in Nat \ {0}
      /\ size = Len(appended) /\ Len(values) = size /\ Len(words) = WordsFor(size)
  BY WordBitsAssumption DEF DeltaWhole, DeltaTyped, DeltaSized
<1>2. PICK q \in Nat, r \in 0..(WordBits - 1) :
        size \div WordBits = q /\ size % WordBits = r /\ size = WordBits * q + r
  BY <1>1, Division
<1>3. NeedsWord <=> r = 0
  BY <1>2 DEF NeedsWord
<1>4. Len(words) = (IF r = 0 THEN q ELSE q + 1) /\ WordsFor(size + 1) = q + 1
  <2>1. /\ WordsFor(WordBits * q + r) = IF r = 0 THEN q ELSE q + 1
        /\ WordsFor(WordBits * q + r + 1) = q + 1
    BY WordsCount
  <2>2. size = WordBits * q + r /\ Len(words) = WordsFor(size)
    BY <1>1, <1>2
  <2> QED
    BY <2>1, <2>2
<1>5. grown \in Seq(SUBSET Nat) /\ Len(grown) = q + 1
      /\ \A j \in 1..Len(words) : grown[j] = words[j]
  <2>1. CASE NeedsWord
    BY <1>1, <1>3, <1>4, <2>1, AppendProperties, {} \in SUBSET Nat
  <2>2. CASE ~NeedsWord
    BY <1>1, <1>3, <1>4, <2>2
  <2> QED
    BY <2>1, <2>2
<1>6. r = 0 => grown[q + 1] = {}
  BY <1>1, <1>3, <1>4, AppendProperties, {} \in SUBSET Nat
<1>7. /\ words' = IF row # Null THEN [grown EXCEPT ![Len(grown)] = @ \cup {size % WordBits}]
                  ELSE grown
      /\ size' = size + 1
      /\ values' = Append(values, Stored(row))
  BY DEF AppendRow, AppendBit, Stored
<1> HIDE DEF grown
<1>8. q + 1 \in 1..Len(grown) /\ DOMAIN grown = 1..Len(grown)
      /\ \A j \in 1..Len(grown) : grown[j] \in SUBSET Nat
  BY <1>5, LenProperties, ElementOfSeq
<1>9. /\ words' \in Seq(SUBSET Nat) /\ Len(words') = q + 1
      /\ words'[q + 1] = (IF row # Null THEN grown[q + 1] \cup {r} ELSE grown[q + 1])
      /\ \A j \in 1..q : words'[j] = grown[j]
  <2>1. CASE row # Null
    <3>1. words' = [grown EXCEPT ![q + 1] = grown[q + 1] \cup {r}]
      BY <1>2, <1>5, <1>7, <2>1
    <3>2. grown[q + 1] \cup {r} \in SUBSET Nat
      BY <1>8
    <3> QED
      BY <1>5, <1>8, <2>1, <3>1, <3>2, ExceptSeq
  <2>2. CASE row = Null
    BY <1>5, <1>7, <2>2
  <2> QED
    BY <2>1, <2>2
<1>10. DeltaTyped'
  <2>1. Stored(row) \in Values \cup {Placeholder}
    BY DEF Stored, Row
  <2> QED
    BY <1>1, <1>7, <1>9, <2>1, AppendProperties DEF DeltaTyped
<1>11. DeltaSized'
  <2>1. Len(appended') = size + 1
    BY <1>1, AppendProperties
  <2>2. Len(values') = size + 1
    <3>1. Stored(row) \in Values \cup {Placeholder}
      BY DEF Stored, Row
    <3> QED
      BY <1>1, <1>7, <3>1, AppendProperties
  <2>3. Len(words') = WordsFor(size')
    BY <1>4, <1>7, <1>9
  <2> QED
    BY <1>7, <2>1, <2>2, <2>3 DEF DeltaSized, WordsFor
<1>12. DeltaStored'
  <2>1. Stored(row) \in Values \cup {Placeholder}
    BY DEF Stored, Row
  <2>2. /\ \A k \in 1..size : appended'[k] = appended[k] /\ values'[k] = values[k]
        /\ appended'[size + 1] = row /\ values'[size + 1] = Stored(row)
    BY <1>1, <1>7, <2>1, AppendProperties
  <2>3. \A k \in 1..size : values[k] = Stored(appended[k])
    BY DEF DeltaWhole, DeltaStored
  <2>4. \A k \in 1..(size + 1) : values'[k] = Stored(appended'[k])
    BY <1>1, <2>2, <2>3
  <2> QED
    BY <1>7, <2>4 DEF DeltaStored, Stored
<1>13. \A j \in 1..Len(words) : BitsOf(words[j], WordBits * (j - 1), appended, Len(appended))
  BY <1>1 DEF DeltaWhole, DeltaBits
<1>14. WordBits * q \in Nat /\ Len(appended) = WordBits * q + r
       /\ \A j \in Nat : j = q + 1 => WordBits * (j - 1) = WordBits * q
  BY <1>1, <1>2
<1>15. ASSUME NEW j \in 1..(q + 1)
       PROVE  BitsOf(words'[j], WordBits * (j - 1), Append(appended, row), size + 1)
  <2>1. CASE j # q + 1
    <3>1. j \in 1..q /\ j \in 1..Len(words) /\ words'[j] = words[j]
      BY <1>4, <1>5, <1>9, <2>1
    <3>2. BitsOf(words[j], WordBits * (j - 1), appended, Len(appended))
      BY <1>13, <3>1
    <3>3. WordBits * (j - 1) \in Nat /\ WordBits * (j - 1) + WordBits <= Len(appended)
      <4>1. WordBits * j <= WordBits * q
        BY <1>1, <3>1, TimesMonotone
      <4>2. WordBits * j = WordBits * (j - 1) + WordBits /\ WordBits * (j - 1) \in Nat
        BY <1>1, <3>1
      <4> DEFINE s == WordBits * (j - 1)
                 t == WordBits * q
                 u == WordBits * j
      <4> HIDE DEF s, t, u
      <4>3. u <= t /\ u = s + WordBits /\ s \in Nat /\ t \in Nat /\ Len(appended) = t + r
        BY <1>14, <4>1, <4>2 DEF s, t, u
      <4>4. s + WordBits <= Len(appended)
        BY <1>1, <4>3
      <4> QED
        BY <4>3, <4>4 DEF s
    <3>4. BitsOf(words[j], WordBits * (j - 1), Append(appended, row), Len(appended) + 1)
      BY <1>1, <3>2, <3>3, FullWord
    <3> QED
      BY <1>1, <3>1, <3>4
  <2>2. CASE j = q + 1
    <3>1. BitsOf(grown[q + 1], WordBits * q, appended, Len(appended))
      <4>1. CASE r = 0
        <5>1. \A b \in Nat : ~(WordBits * q + b < Len(appended))
          BY <1>14, <4>1
        <5> QED
          BY <1>6, <4>1, <5>1 DEF BitsOf
      <4>2. CASE r # 0
        <5>1. j \in 1..Len(words) /\ grown[q + 1] = words[j]
          BY <1>4, <1>5, <2>2, <4>2
        <5>2. WordBits * (j - 1) = WordBits * q
          BY <1>14, <2>2
        <5> QED
          BY <1>13, <5>1, <5>2
      <4> QED
        BY <4>1, <4>2
    <3>2. BitsOf(IF row # Null THEN grown[q + 1] \cup {r} ELSE grown[q + 1], WordBits * q,
                 Append(appended, row), Len(appended) + 1)
      BY <1>1, <1>8, <1>14, <3>1, LastWord
    <3>3. WordBits * (j - 1) = WordBits * q
      BY <1>14, <2>2
    <3> QED
      BY <1>1, <1>9, <2>2, <3>2, <3>3
  <2> QED
    BY <2>1, <2>2
<1>16. DeltaBits'
  BY <1>7, <1>9, <1>15 DEF DeltaBits, BitsOf
<1> QED
  BY <1>10, <1>11, <1>12, <1>16 DEF DeltaWhole

\* A failed append changes nothing: what was pushed is popped.
LEMMA FailureKeepsDelta ==
  ASSUME DeltaTyped, NEW row \in Row, AppendFails(row)
  PROVE  UNCHANGED columnVars
<1> DEFINE pushed == Append(values, Stored(row))
<1>1. values \in Seq(Values \cup {Placeholder}) /\ Stored(row) \in Values \cup {Placeholder}
  BY DEF DeltaTyped, Stored, Row
<1>2. /\ pushed \in Seq(Values \cup {Placeholder}) /\ Len(pushed) = Len(values) + 1
      /\ \A i \in 1..Len(values) : pushed[i] = values[i]
      /\ Len(values) \in Nat
  BY <1>1, AppendProperties, LenProperties
<1> HIDE DEF pushed
<1>3. SubSeq(pushed, 1, Len(pushed) - 1) = values
  <2> DEFINE s == SubSeq(pushed, 1, Len(pushed) - 1)
  <2>1. /\ 1 \in Int /\ Len(pushed) - 1 \in Int /\ Len(pushed) - 1 = Len(values)
        /\ \A i \in 1..(Len(pushed) - 1) : pushed[i] \in Values \cup {Placeholder}
    BY <1>1, <1>2, ElementOfSeq
  <2>2. /\ s \in Seq(Values \cup {Placeholder}) /\ Len(s) = Len(values)
        /\ \A i \in 1..Len(values) : s[i] = pushed[i]
    BY <1>2, <2>1, SubSeqProperties
  <2> HIDE DEF s
  <2>3. s = values
    BY <1>1, <1>2, <2>2, SeqEqual
  <2> QED
    BY <2>3 DEF s
<1> QED
  BY <1>3 DEF AppendFails, columnVars, pushed, Stored

-----------------------------------------------------------------------------
(* The state machine *)

MainBuilt ==
  /\ initial \in Seq(Row) /\ Encodable(initial) /\ Len(initial) <= MaxMainRows
  /\ main = BuildEncoded(initial)

Whole == MainBuilt /\ DeltaWhole

LEMMA WholeInit == Init => Whole
<1> SUFFICES ASSUME Init PROVE Whole
  OBVIOUS
<1>1. MainBuilt
  <2>1. PICK n \in 0..MaxMainRows : initial \in [1..n -> Row]
    BY DEF Init, Initials
  <2>2. n \in Nat /\ n <= MaxMainRows
    BY <2>1, BoundsAssumption
  <2>3. initial \in Seq(Row) /\ Len(initial) = n
    BY <2>1, <2>2, FunctionIsSequence
  <2> QED
    BY <2>2, <2>3 DEF MainBuilt, Init, Initials
<1>2. appended = << >> /\ values = << >> /\ words = << >> /\ size = 0
  BY DEF Init, EmptyColumn
<1>3. WordsFor(0) = 0
  <2>1. WordBits \in Nat \ {0}
    BY WordBitsAssumption
  <2>2. (WordBits * 0 + (WordBits - 1)) \div WordBits = 0
    BY <2>1, DivisionUnique
  <2>3. WordBits * 0 + (WordBits - 1) = 0 + WordBits - 1
    BY <2>1
  <2> QED
    BY <2>2, <2>3 DEF WordsFor
<1>4. DeltaTyped
  BY <1>2, EmptySeq DEF DeltaTyped
<1>5. DeltaSized /\ DeltaStored /\ DeltaBits
  BY <1>2, <1>3, EmptySeq DEF DeltaSized, DeltaStored, DeltaBits
<1> QED
  BY <1>1, <1>4, <1>5 DEF Whole, DeltaWhole

LEMMA WholeNext == Whole /\ [Next]_vars => Whole'
<1> SUFFICES ASSUME Whole, [Next]_vars PROVE Whole'
  OBVIOUS
<1>1. MainBuilt /\ DeltaWhole /\ DeltaTyped
  BY DEF Whole, DeltaWhole
<1>2. ASSUME NEW row \in Row, AppendSucceeds(row) PROVE Whole'
  <2>1. MainBuilt'
    BY <1>1, <1>2 DEF AppendSucceeds, MainBuilt
  <2>2. AppendRow(row) /\ appended' = Append(appended, row)
    BY <1>2 DEF AppendSucceeds
  <2>3. DeltaWhole'
    BY <1>1, <2>2, AppendKeepsWhole
  <2> QED
    BY <2>1, <2>3 DEF Whole
<1>3. ASSUME NEW row \in Row, AppendThrows(row) PROVE UNCHANGED vars
  <2>1. AppendFails(row) /\ UNCHANGED <<main, initial, appended>>
    BY <1>3 DEF AppendThrows
  <2>2. UNCHANGED columnVars
    BY <1>1, <2>1, FailureKeepsDelta
  <2> QED
    BY <2>1, <2>2 DEF vars, columnVars
<1>4. ASSUME UNCHANGED vars PROVE Whole'
  BY <1>1, <1>4 DEF vars, columnVars, Whole, MainBuilt, DeltaWhole, DeltaTyped, DeltaSized,
     DeltaStored, DeltaBits
<1> QED
  BY <1>2, <1>3, <1>4 DEF Next

LEMMA WholeInvariant == Spec => []Whole
BY WholeInit, WholeNext, PTL DEF Spec

\* The row the delta gives back is the row that was appended.
LEMMA DeltaRows ==
  ASSUME DeltaWhole
  PROVE  /\ \A i \in 0..(size - 1) : DeltaRow(i) = appended[i + 1]
         /\ ColumnRows = appended
<1>1. /\ appended \in Seq(Row) /\ size \in Nat /\ WordBits \in Nat \ {0}
      /\ size = Len(appended) /\ Len(words) = WordsFor(size)
  BY WordBitsAssumption DEF DeltaWhole, DeltaTyped, DeltaSized
<1>2. ASSUME NEW i \in 0..(size - 1) PROVE DeltaRow(i) = appended[i + 1]
  <2>1. i \in Nat /\ i + 1 \in 1..size
    BY <1>1
  <2>2. PICK q \in Nat, r \in 0..(WordBits - 1) :
          i \div WordBits = q /\ i % WordBits = r /\ i = WordBits * q + r
    BY <1>1, <2>1, Division
  <2>3. q + 1 \in 1..Len(words)
    <3>1. (i + WordBits) \div WordBits = q + 1
      <4>1. WordBits * (q + 1) = WordBits * q + WordBits /\ WordBits * q \in Nat
        BY <1>1
      <4>2. i + WordBits = WordBits * (q + 1) + r
        <5> DEFINE t == WordBits * q
                   u == WordBits * (q + 1)
        <5>1. u = t + WordBits /\ t \in Nat /\ i = t + r
          BY <2>2, <4>1
        <5> HIDE DEF t, u
        <5>2. i + WordBits = u + r
          BY <1>1, <5>1
        <5> QED
          BY <5>2 DEF u
      <4>3. q + 1 \in Nat
        OBVIOUS
      <4>4. (WordBits * (q + 1) + r) \div WordBits = q + 1
        BY <1>1, <4>3, DivisionUnique
      <4> QED
        BY <4>2, <4>4
    <3>2. i + WordBits \in Nat /\ size + WordBits - 1 \in Nat
          /\ i + WordBits <= size + WordBits - 1
      BY <1>1, <2>1
    <3>3. (i + WordBits) \div WordBits <= (size + WordBits - 1) \div WordBits
      BY <1>1, <3>2, DivisionMonotone
    <3>4. Len(words) = (size + WordBits - 1) \div WordBits /\ Len(words) \in Nat
      BY <1>1, LenProperties DEF WordsFor, DeltaWhole, DeltaTyped
    <3> QED
      BY <3>1, <3>3, <3>4
  <2>4. \A j \in 1..Len(words) : BitsOf(words[j], WordBits * (j - 1), appended, size)
    BY DEF DeltaWhole, DeltaBits
  <2>5. q + 1 - 1 = q /\ r \in Nat /\ r < WordBits
    BY <1>1
  <2>6. BitsOf(words[q + 1], WordBits * q, appended, size)
    <3>1. BitsOf(words[q + 1], WordBits * (q + 1 - 1), appended, size)
      BY <2>3, <2>4
    <3> QED
      BY <2>5, <3>1
  <2>7. r \in words[q + 1] <=> appended[i + 1] # Null
    <3> DEFINE t == WordBits * q
    <3>1. i = t + r /\ t + r < size
      BY <1>1, <2>1, <2>2
    <3>2. BitsOf(words[q + 1], t, appended, size)
      BY <2>6
    <3> HIDE DEF t
    <3>3. r \in words[q + 1] <=> r < WordBits /\ t + r < size /\ appended[t + r + 1] # Null
      BY <2>5, <3>2 DEF BitsOf
    <3> QED
      BY <2>5, <3>1, <3>3
  <2>8. values[i + 1] = Stored(appended[i + 1])
    BY <2>1 DEF DeltaWhole, DeltaStored
  <2> QED
    BY <2>2, <2>7, <2>8 DEF DeltaRow, IsNull, Stored
<1>3. ColumnRows = appended
  <2>1. appended \in [1..size -> Row]
    BY <1>1, LenProperties
  <2>2. \A k \in 1..size : DeltaRow(k - 1) = appended[k]
    <3> SUFFICES ASSUME NEW k \in 1..size PROVE DeltaRow(k - 1) = appended[k]
      OBVIOUS
    <3>1. k - 1 \in 0..(size - 1) /\ k - 1 + 1 = k
      BY <1>1
    <3> QED
      BY <1>2, <3>1
  <2> QED
    BY <2>1, <2>2 DEF ColumnRows
<1> QED
  BY <1>2, <1>3

\* After any mix of appends that returned and appends that threw, the delta (FixedColumn and
\* its ValidityBitmap) is the rows appended: values and validity have one length, there are
\* as many words as that takes, and a null row owns a placeholder.
THEOREM DeltaStaysWhole == Spec => []DeltaIsWhatWasAppended
<1>1. Whole => DeltaIsWhatWasAppended
  <2> SUFFICES ASSUME Whole PROVE DeltaIsWhatWasAppended
    OBVIOUS
  <2>1. DeltaWhole
    BY DEF Whole
  <2>2. ColumnRows = appended
    BY <2>1, DeltaRows
  <2>3. \A k \in 1..Len(values) : appended[k] = Null => values[k] = Placeholder
    BY <2>1 DEF DeltaWhole, DeltaSized, DeltaStored, Stored
  <2>4. Len(values) = size /\ Len(words) = (size + WordBits - 1) \div WordBits
    BY <2>1 DEF DeltaWhole, DeltaSized, WordsFor
  <2> QED
    BY <2>2, <2>3, <2>4 DEF DeltaIsWhatWasAppended
<1> QED
  BY <1>1, WholeInvariant, PTL

\* is_null and value of a RowId give the row it was assigned to, whether that row went
\* through the encoding of the main or lies in the delta, if there are ids enough for the
\* main.
THEOREM ReadsAreReferenceRows ==
  ASSUME MaxMainRows <= MaxId
  PROVE  Spec => []PointReadsMatch
<1>1. Whole => PointReadsMatch
  <2> SUFFICES ASSUME Whole PROVE PointReadsMatch
    OBVIOUS
  <2> DEFINE n == Len(initial)
             m == Len(appended)
  <2>1. /\ initial \in Seq(Row) /\ Encodable(initial) /\ n <= MaxMainRows
        /\ main = BuildEncoded(initial) /\ DeltaWhole
    BY DEF Whole, MainBuilt
  <2>2. appended \in Seq(Row) /\ size = m /\ Len(values) = m /\ n \in Nat /\ m \in Nat
    BY <2>1, LenProperties DEF DeltaWhole, DeltaTyped, DeltaSized
  <2>3. n <= MaxId
    BY <2>1, <2>2, BoundsAssumption, IdAssumption
  <2>4. /\ MainSize = n
        /\ \A i \in 0..(n - 1) :
             /\ ColumnIsNull(main, i) <=> initial[i + 1] = Null
             /\ initial[i + 1] # Null =>
                  /\ initial[i + 1] \in Supported
                  /\ main.dictionary[main.codes[i + 1] + 1] = Canonical(initial[i + 1])
    BY <2>1, <2>3, ShortFits, EncodedRows DEF MainSize
  <2>5. \A i \in 0..(m - 1) : DeltaRow(i) = appended[i + 1]
    BY <2>1, <2>2, DeltaRows
  <2>6. /\ Len(Reference) = n + m
        /\ \A k \in 1..(n + m) : Reference[k] = IF k <= n THEN initial[k] ELSE appended[k - n]
    BY <2>1, <2>2, ConcatProperties DEF Reference
  <2> HIDE DEF n, m
  <2>7. ASSUME NEW row \in 0..(n + m - 1)
        PROVE  Canonical(PointRead(row)) = Canonical(Reference[row + 1])
    <3>1. CASE row < n
      <4>1. row \in 0..(n - 1) /\ row + 1 \in 1..(n + m) /\ row + 1 <= n
        BY <2>2, <3>1
      <4>2. PointRead(row) = DecodedRow(main, row)
        BY <2>4, <3>1, <4>1 DEF PointRead, Resolve
      <4>3. Reference[row + 1] = initial[row + 1]
        BY <2>6, <4>1
      <4>4. CASE initial[row + 1] = Null
        BY <2>4, <4>1, <4>2, <4>3, <4>4 DEF DecodedRow
      <4>5. CASE initial[row + 1] # Null
        <5>1. initial[row + 1] \in Supported
              /\ DecodedRow(main, row) = Canonical(initial[row + 1])
          BY <2>4, <4>1, <4>5 DEF DecodedRow, ColumnValue
        <5> QED
          BY <4>2, <4>3, <5>1, CanonicalValue
      <4> QED
        BY <4>4, <4>5
    <3>2. CASE ~(row < n)
      <4>1. row - n \in 0..(m - 1) /\ row + 1 \in 1..(n + m) /\ ~(row + 1 <= n)
            /\ row - n + 1 = row + 1 - n
        BY <2>2, <3>2
      <4>2. PointRead(row) = DeltaRow(row - n)
        BY <2>2, <2>4, <3>2, <4>1 DEF PointRead, Resolve
      <4>3. Reference[row + 1] = appended[row + 1 - n]
        BY <2>2, <2>6, <4>1
      <4>4. DeltaRow(row - n) = appended[row - n + 1]
        BY <2>5, <4>1
      <4> QED
        BY <4>1, <4>2, <4>3, <4>4
    <3> QED
      BY <3>1, <3>2
  <2>8. LogicalSize = n + m /\ Len(Reference) = n + m
    BY <2>2, <2>4, <2>6 DEF LogicalSize
  <2>9. ASSUME NEW row \in 0..(LogicalSize - 1)
        PROVE  Canonical(PointRead(row)) = Canonical(Reference[row + 1])
    <3>1. row \in 0..(n + m - 1)
      BY <2>2, <2>8
    <3> QED
      BY <2>7, <3>1
  <2> QED
    BY <2>8, <2>9 DEF PointReadsMatch
<1> QED
  BY <1>1, WholeInvariant, PTL

\* A query over the main and the delta returns the RowIds that a scan of all rows would, in
\* row order, or throws exactly when such a query has to, if there are ids enough for the
\* main: whatever the values, also across the boundary, with nulls and with both zeros.
THEOREM QueriesAreScans ==
  ASSUME MaxMainRows <= MaxId
  PROVE  Spec => []QueriesMatch
<1>1. Whole => QueriesMatch
  <2> SUFFICES ASSUME Whole, NEW op \in Ops, NEW target \in Values
               PROVE  MainDeltaQuery(op, target) = QueryOf(Reference, op, target)
    BY DEF QueriesMatch
  <2>1. /\ initial \in Seq(Row) /\ Encodable(initial) /\ Len(initial) <= MaxMainRows
        /\ main = BuildEncoded(initial) /\ DeltaWhole
    BY DEF Whole, MainBuilt
  <2>2. appended \in Seq(Row) /\ ColumnRows = appended
    BY <2>1, DeltaRows DEF DeltaWhole, DeltaTyped
  <2>3. Len(initial) <= MaxId
    BY <2>1, LenProperties, BoundsAssumption, IdAssumption
  <2>4. Fits(initial)
    BY <2>1, <2>3, ShortFits
  <2>5. MainSize = Len(initial)
    BY <2>1, <2>4, EncodedRows DEF MainSize
  <2>6. QueryOf(initial \o appended, op, target) =
          IF MainMatches(main, op, target) = Thrown THEN Thrown
          ELSE MainMatches(main, op, target)
                 \o RawMatches(appended, Len(initial), op, target)
    BY <2>1, <2>2, <2>4, QueryJoin
  <2> QED
    BY <2>2, <2>5, <2>6 DEF MainDeltaQuery, Reference
<1> QED
  BY <1>1, WholeInvariant, PTL
=============================================================================
