-------------------------- MODULE SortedDictionary --------------------------
(***************************************************************************)
(* SortedDictionary<T> (src/susano/sorted_dictionary.hpp): the distinct    *)
(* values of a column in ascending order, a value's id being its position  *)
(* counted from 0.                                                         *)
(***************************************************************************)
EXTENDS ColumnValues, FiniteSets

CONSTANTS
  Rank,    \* where a value lies on the number line; a NaN lies nowhere
  NoId,    \* std::nullopt
  MaxId    \* the largest ValueId

ASSUME RankAssumption ==
  /\ Values \ Unsupported \subseteq DOMAIN Rank /\ DOMAIN Rank \subseteq Values
  /\ \A x \in DOMAIN Rank : Rank[x] \in Int
  /\ \A x, y \in DOMAIN Rank : Rank[x] = Rank[y] <=> Canonical(x) = Canonical(y)

ASSUME IdAssumption == NoId \notin Nat /\ MaxId \in Nat

\* operator< and operator== of T.
Less(x, y) == {x, y} \subseteq DOMAIN Rank /\ Rank[x] < Rank[y]
Same(x, y) == {x, y} \subseteq DOMAIN Rank /\ Rank[x] = Rank[y]

IsSupported(v) == v \notin Unsupported

\* Seeded fault: no canonicalization; std::unique keeps one of the zeros.
Dictionary_RawZeros(input) ==
  LET distinct == IF NegZero \in input THEN input \ {PosZero} ELSE input
  IN  CHOOSE d \in [1..Cardinality(distinct) -> distinct] :
        \A i, j \in DOMAIN d : i < j => Less(d[i], d[j])

\* The constructor: canonicalize, sort, drop duplicates.
Dictionary(input) ==
  LET distinct == {Canonical(v) : v \in input}
  IN  CHOOSE d \in [1..Cardinality(distinct) -> distinct] :
        \A i, j \in DOMAIN d : i < j => Less(d[i], d[j])

\* Seeded fault: as many values as there are ids.
FitsIds_EveryId(dictionary) == Len(dictionary) <= MaxId + 1

\* The constructor throws length_error unless the ids, and the bound after the
\* last of them, can be counted.
FitsIds(dictionary) == Len(dictionary) <= MaxId

\* static_cast<ValueId>
ValueId(position) == position % (MaxId + 1)

\* std::lower_bound and std::upper_bound on the sorted values.
LowerBound(dictionary, v) == Cardinality({k \in DOMAIN dictionary : Less(dictionary[k], v)})
UpperBound(dictionary, v) == Cardinality({k \in DOMAIN dictionary : ~Less(v, dictionary[k])})

\* The id of v, if v is in the dictionary.
Find(dictionary, v) ==
  LET position == LowerBound(dictionary, Canonical(v))
  IN  IF /\ IsSupported(v)
         /\ position < Len(dictionary)
         /\ Same(dictionary[position + 1], v)
      THEN ValueId(position) ELSE NoId

\* lower_bound_id and upper_bound_id, whose target has to be supported.
LowerBoundId(dictionary, target) == ValueId(LowerBound(dictionary, Canonical(target)))
UpperBoundId(dictionary, target) == ValueId(UpperBound(dictionary, Canonical(target)))
=============================================================================
