-------------------------- MODULE AdaptationProofs --------------------------
(***************************************************************************)
(* The control loop, for every set of amounts and gaps and every history   *)
(* size.  The output and the level are in their limits for all integers;   *)
(* a ratio is a natural number because no cost is negative; both timelines *)
(* are arrangements of one history, so that they end in the same total and *)
(* are equal when nothing came late.                                       *)
(*                                                                         *)
(* Timestamps are what a wall clock reads, so nothing is assumed of their  *)
(* order; the invariant is the types, and that no ratio is below 1.00.     *)
(***************************************************************************)
EXTENDS Adaptation, SumTheorems, FunctionTheorems, SequenceTheorems

-----------------------------------------------------------------------------
(* The controller.                                                         *)

Strictest == [QueueSize |-> MinQueueSize, Timeout |-> MinTimeout]
Loosest == [QueueSize |-> MaxQueueSize, Timeout |-> MaxTimeout]

\* Limiting keeps to the limits.
LEMMA BetweenIsBetween ==
    ASSUME NEW x \in Int, NEW low \in Int, NEW high \in Int, low <= high
    PROVE  Between(x, low, high) \in low..high
BY DEF Between

\* A greater value is not limited to a smaller one.
LEMMA BetweenRises ==
    ASSUME NEW x \in Int, NEW y \in Int, x <= y,
           NEW low \in Int, NEW high \in Int, low <= high
    PROVE  Between(x, low, high) <= Between(y, low, high)
BY DEF Between

\* What is rounded and limited; queue and timeout have the same limits.
Quotient(output) == (2000000000 - 990 * (output + 1000000)) \div 2000000

\* The mapping limits the quotient.
LEMMA MappedQuotient ==
    ASSUME NEW output \in Int
    PROVE  Quotient(output) \in Int /\ Mapped(output, 10, 1000) = Between(Quotient(output), 10, 1000)
BY SMT DEF Quotient, Mapped, OutputLimit

\* The quotient falls as the output rises.
LEMMA QuotientFalls ==
    ASSUME NEW low \in Int, NEW high \in Int, low <= high
    PROVE  Quotient(high) <= Quotient(low)
BY SMT DEF Quotient

\* However large the sum has grown and however small the gap, the output
\* stays in its limits (controller.go:152-197).
THEOREM OutputLimited ==
    ASSUME NEW error \in Int, NEW total \in Int, NEW change \in Int, NEW gap \in Nat
    PROVE  PIDOutput(error, total, change, gap) \in -OutputLimit..OutputLimit
<1>1. Derivative(change, gap) \in Int
  <2>1. CASE gap > 1
    BY <2>1, SMT DEF Derivative, Derived
  <2>2. CASE ~ gap > 1
    BY <2>2 DEF Derivative, Derived
  <2> QED BY <2>1, <2>2
<1>2. OutputLimit \in Int /\ -OutputLimit \in Int /\ -OutputLimit <= OutputLimit
  BY SMT DEF OutputLimit
<1>3. 100 * error + total \div 1000 + Derivative(change, gap) \in Int
  <2> DEFINE proportional == 100 * error
             accumulated == total \div 1000
  <2>1. proportional \in Int /\ accumulated \in Int
    BY SMT
  <2> HIDE DEF proportional, accumulated
  <2>2. proportional + accumulated + Derivative(change, gap) \in Int
    BY <1>1, <2>1
  <2> QED BY <2>2 DEF proportional, accumulated
<1>4. \A x \in Int : Between(x, -OutputLimit, OutputLimit) \in -OutputLimit..OutputLimit
  BY <1>2, BetweenIsBetween
<1>5. QED BY <1>3, <1>4, Zenon DEF PIDOutput

\* Every level the controller returns has a length that the dispatcher's
\* channel holds and a timeout its ticker accepts; a greater output never
\* loosens it; its ends are the strictest and the loosest level
\* (controller.go:200-232).
THEOREM LevelsFollowTheOutput ==
    /\ \A output \in Int :
          MapOutputToCL(output) \in [QueueSize : MinQueueSize..MaxQueueSize,
                                     Timeout : MinTimeout..MaxTimeout]
    /\ \A low, high \in Int : low <= high =>
          /\ MapOutputToCL(high).QueueSize <= MapOutputToCL(low).QueueSize
          /\ MapOutputToCL(high).Timeout <= MapOutputToCL(low).Timeout
    /\ MapOutputToCL(OutputLimit) = Strictest /\ MapOutputToCL(-OutputLimit) = Loosest
<1> DEFINE level(output) == Mapped(output, 10, 1000)
           allowed == 10..1000
<1>0. /\ allowed = MinQueueSize..MaxQueueSize
      /\ allowed = MinTimeout..MaxTimeout
  BY DEF MinQueueSize, MaxQueueSize, MinTimeout, MaxTimeout
<1>1. \A output : MapOutputToCL(output) = [QueueSize |-> level(output), Timeout |-> level(output)]
  BY DEF MapOutputToCL, MinQueueSize, MaxQueueSize, MinTimeout, MaxTimeout
<1>2. ASSUME NEW output \in Int PROVE level(output) \in allowed
  <2>1. PICK q \in Int : level(output) = Between(q, 10, 1000)
    BY MappedQuotient
  <2>2. Between(q, 10, 1000) \in 10..1000
    BY SMT DEF Between
  <2>3. QED BY <2>1, <2>2
<1>3. ASSUME NEW low \in Int, NEW high \in Int, low <= high
      PROVE  level(high) <= level(low)
  <2>1. /\ Quotient(low) \in Int /\ level(low) = Between(Quotient(low), 10, 1000)
        /\ Quotient(high) \in Int /\ level(high) = Between(Quotient(high), 10, 1000)
    BY MappedQuotient
  <2>2. Quotient(high) <= Quotient(low)
    BY <1>3, QuotientFalls
  <2>3. QED BY <2>1, <2>2, BetweenRises
<1>4. level(OutputLimit) = 10 /\ level(-OutputLimit) = 1000
  BY SMT DEF Mapped, Between, OutputLimit
<1>5. OutputLimit \in Int /\ -OutputLimit \in Int
  BY SMT DEF OutputLimit
<1> HIDE DEF level, allowed
<1>6. ASSUME NEW output \in Int
      PROVE  MapOutputToCL(output) \in [QueueSize : MinQueueSize..MaxQueueSize,
                                        Timeout : MinTimeout..MaxTimeout]
  <2>1. MapOutputToCL(output) \in [QueueSize : allowed, Timeout : allowed]
    BY <1>1, <1>2
  <2> QED
    BY <1>0, <2>1
<1>7. ASSUME NEW low \in Int, NEW high \in Int, low <= high
      PROVE  /\ MapOutputToCL(high).QueueSize <= MapOutputToCL(low).QueueSize
             /\ MapOutputToCL(high).Timeout <= MapOutputToCL(low).Timeout
  BY <1>1, <1>3, <1>7
<1>8. MapOutputToCL(OutputLimit) = Strictest /\ MapOutputToCL(-OutputLimit) = Loosest
  BY <1>1, <1>4 DEF MinQueueSize, MaxQueueSize, MinTimeout, MaxTimeout, Strictest, Loosest
<1>9. QED BY <1>6, <1>7, <1>8

-----------------------------------------------------------------------------
(* Arrangements of entries.                                                *)

\* With different keys, the places of the positions are 1, 2, ..., each once.
LEMMA PlacesAreNumbers ==
    ASSUME NEW positions, IsFiniteSet(positions), NEW key \in [positions -> Int],
           \A i, j \in positions : key[i] = key[j] => i = j
    PROVE  [i \in positions |-> Place(positions, key, i)]
               \in Bijection(positions, 1..Cardinality(positions))
<1> DEFINE upTo(i) == {j \in positions : key[j] <= key[i]}
           place == [i \in positions |-> Place(positions, key, i)]
           many == Cardinality(positions)
<1>1. many \in Nat
    BY FS_CardinalityType
<1>2. ASSUME NEW i \in positions
      PROVE  IsFiniteSet(upTo(i)) /\ Cardinality(upTo(i)) \in 1..many
    <2>1. upTo(i) \in SUBSET positions
        OBVIOUS
    <2>2. IsFiniteSet(upTo(i)) /\ Cardinality(upTo(i)) <= many
        BY <2>1, FS_Subset
    <2>3. i \in upTo(i)
        OBVIOUS
    <2>4. Cardinality(upTo(i)) \in Nat /\ Cardinality(upTo(i)) # 0
        BY <2>2, <2>3, FS_CardinalityType, FS_EmptySet
    <2> QED
        BY <1>1, <2>2, <2>4
<1>3. ASSUME NEW i \in positions, NEW j \in positions, key[i] < key[j]
      PROVE  Cardinality(upTo(i)) # Cardinality(upTo(j))
    <2>1. upTo(i) \in SUBSET upTo(j)
        BY <1>3
    <2>2. j \in upTo(j) /\ j \notin upTo(i)
        BY <1>3
    <2> QED
        BY <1>2, <2>1, <2>2, FS_Subset
<1>4. place \in [positions -> 1..many]
    BY <1>2 DEF Place
<1>5. \A i \in positions : place[i] = Cardinality(upTo(i))
    BY DEF Place
<1>6. ASSUME NEW i \in positions, NEW j \in positions, place[i] = place[j]
      PROVE  i = j
    <2>1. key[i] \in Int /\ key[j] \in Int
        OBVIOUS
    <2>2. ~ key[i] < key[j] /\ ~ key[j] < key[i]
        <3>1. Cardinality(upTo(i)) = Cardinality(upTo(j))
            BY <1>5, <1>6
        <3> HIDE DEF upTo, place
        <3> QED BY <1>3, <3>1
    <2> QED
        BY <2>1, <2>2
<1> HIDE DEF place, many
<1>7. place \in Injection(positions, 1..many)
    BY <1>4, <1>6, Fun_IsInj
<1>8. IsFiniteSet(1..many) /\ Cardinality(1..many) = Cardinality(positions)
    BY <1>1, FS_Interval DEF many
<1>9. place \in Surjection(positions, 1..many)
    BY <1>7, <1>8, FS_Injection
<1> QED
    BY <1>7, <1>9 DEF Bijection, place, many

\* at gives each number the position that has it, and the entries follow it.
ArrangedBy(at, entries, positions, key) ==
    /\ at \in Bijection(1..Cardinality(positions), positions)
    /\ \A k \in 1..Cardinality(positions) : Place(positions, key, at[k]) = k
    /\ Arranged(entries, positions, key) = [k \in 1..Cardinality(positions) |-> entries[at[k]]]

\* Every arrangement is one of the entries at the positions, each once.
LEMMA Arrangement ==
    ASSUME NEW entries, NEW positions, IsFiniteSet(positions), NEW key \in [positions -> Int],
           \A i, j \in positions : key[i] = key[j] => i = j
    PROVE  \E at : ArrangedBy(at, entries, positions, key)
<1> DEFINE many == Cardinality(positions)
           at == [k \in 1..many |-> CHOOSE i \in positions : Place(positions, key, i) = k]
<1>1. PICK place \in Bijection(positions, 1..many) :
          \A i \in positions : place[i] = Place(positions, key, i)
    <2> DEFINE it == [i \in positions |-> Place(positions, key, i)]
    <2>1. it \in Bijection(positions, 1..many)
        BY PlacesAreNumbers
    <2>2. \A i \in positions : it[i] = Place(positions, key, i)
        OBVIOUS
    <2> HIDE DEF it
    <2> QED BY <2>1, <2>2
<1>2. /\ place \in [positions -> 1..many]
      /\ \A i, j \in positions : place[i] = place[j] => i = j
      /\ \A k \in 1..many : \E i \in positions : place[i] = k
    <2> HIDE DEF many
    <2> QED BY DEF Bijection, Injection, IsInjective, Surjection
<1>3. ASSUME NEW k \in 1..many PROVE \E i \in positions : Place(positions, key, i) = k
    BY <1>1, <1>2
<1>4. \A k \in 1..many : at[k] \in positions /\ Place(positions, key, at[k]) = k
    BY <1>3
<1>5. at \in [1..many -> positions]
    BY <1>4
<1>6. \A i \in positions : at[Place(positions, key, i)] = i
    BY <1>1, <1>2, <1>4
<1>7. \A i \in positions : Place(positions, key, i) \in 1..many
    BY <1>1, <1>2
<1>8. Arranged(entries, positions, key) = [k \in 1..many |-> entries[at[k]]]
    BY DEF Arranged
<1>9. at \in Bijection(1..many, positions)
    <2> HIDE DEF at
    <2>1. \A k, l \in 1..many : at[k] = at[l] => k = l
        BY <1>4
    <2>2. \A i \in positions : \E k \in 1..many : at[k] = i
        BY <1>6, <1>7
    <2> HIDE DEF many
    <2> QED
        BY <1>5, <2>1, <2>2, Fun_IsBij
<1> HIDE DEF at
<1> QED
    BY <1>4, <1>8, <1>9 DEF ArrangedBy

Identity(positions) == [i \in positions |-> i]

\* What is selected are the entries at the positions.
LEMMA SelectedFrom ==
    ASSUME NEW S, NEW entries \in Seq(S), NEW positions \in SUBSET (1..Len(entries))
    PROVE  /\ IsFiniteSet(positions) /\ Cardinality(positions) \in Nat
           /\ Selected(entries, positions) \in Seq(S)
           /\ Len(Selected(entries, positions)) = Cardinality(positions)
           /\ \E at : /\ ArrangedBy(at, entries, positions, Identity(positions))
                      /\ \A k \in 1..Cardinality(positions) :
                             Selected(entries, positions)[k] = entries[at[k]]
<1>1. Len(entries) \in Nat /\ \A i \in 1..Len(entries) : entries[i] \in S
    BY LenProperties
<1>2. IsFiniteSet(1..Len(entries))
    <2>1. 1 \in Int /\ Len(entries) \in Int
        BY <1>1
    <2> QED BY <2>1, FS_Interval
<1>3. IsFiniteSet(positions)
    BY <1>2, FS_Subset
<1>4. PICK many \in Nat : many = Cardinality(positions)
    BY <1>3, FS_CardinalityType
<1>5. Identity(positions) \in [positions -> Int] /\ \A i \in positions : Identity(positions)[i] = i
    BY DEF Identity
<1>6. \A i, j \in positions : Identity(positions)[i] = Identity(positions)[j] => i = j
    BY <1>5
<1>7. PICK at : ArrangedBy(at, entries, positions, Identity(positions))
    BY <1>3, <1>5, <1>6, Arrangement
<1>8. Selected(entries, positions) = [k \in 1..many |-> entries[at[k]]]
    BY <1>4, <1>7 DEF Selected, Identity, ArrangedBy
<1>9. \A k \in 1..many : at[k] \in positions
    BY <1>4, <1>7 DEF ArrangedBy, Bijection, Injection
<1>10. \A k \in 1..many : entries[at[k]] \in S
    BY <1>1, <1>9
<1>11. [k \in 1..many |-> entries[at[k]]] \in Seq(S)
    BY <1>10, IsASeq
<1>12. Len([k \in 1..many |-> entries[at[k]]]) = many
    OBVIOUS
<1>13. \A k \in 1..many : [l \in 1..many |-> entries[at[l]]][k] = entries[at[k]]
    OBVIOUS
<1> QED
    BY <1>3, <1>4, <1>7, <1>8, <1>11, <1>12, <1>13

\* The positions of a stretch give the entries of the stretch in their order.
LEMMA SelectedStretch ==
    ASSUME NEW S, NEW entries \in Seq(S), NEW first \in Int, NEW last \in Int,
           first >= 1, last <= Len(entries)
    PROVE  \A k \in 1..Cardinality(first..last) :
               Selected(entries, first..last)[k] = entries[first + k - 1]
<1> DEFINE positions == first..last
<1>1. Len(entries) \in Nat
    BY LenProperties
<1>2. positions \in SUBSET (1..Len(entries))
    BY <1>1
<1>3. PICK at : /\ ArrangedBy(at, entries, positions, Identity(positions))
                /\ \A k \in 1..Cardinality(positions) :
                       Selected(entries, positions)[k] = entries[at[k]]
    <2> HIDE DEF positions
    <2> QED BY <1>2, SelectedFrom
<1>4. ASSUME NEW i \in positions PROVE Place(positions, Identity(positions), i) = i - first + 1
    <2>1. {j \in positions : Identity(positions)[j] <= Identity(positions)[i]} = first..i
        BY DEF Identity
    <2>2. Cardinality(first..i) = i - first + 1
        BY FS_Interval
    <2> HIDE DEF positions
    <2> QED BY <2>1, <2>2 DEF Place
<1>5. ASSUME NEW k \in 1..Cardinality(positions) PROVE at[k] = first + k - 1
    <2>1. at[k] \in positions
        BY <1>3 DEF ArrangedBy, Bijection, Injection
    <2>2. k = at[k] - first + 1
        BY <1>3, <1>4, <2>1 DEF ArrangedBy
    <2>3. at[k] \in Int
        BY <2>1
    <2> QED
        BY <2>2, <2>3
<1> QED
    BY <1>3, <1>5

\* A later time, or the same time at a later position, has a greater key.
LEMMA KeysRise ==
    ASSUME NEW n \in Nat, NEW a \in Nat, NEW b \in Nat, NEW i \in 1..n, NEW j \in 1..n,
           a < b \/ (a = b /\ i < j)
    PROVE  a * (n + 1) + i < b * (n + 1) + j
<1>1. CASE a < b
    <2>1. PICK d \in Nat : b = (a + 1) + d
        <3>1. b - (a + 1) \in Nat /\ b = (a + 1) + (b - (a + 1))
            BY <1>1
        <3> QED BY <3>1
    <2>2. PICK m \in Nat : m = n + 1
        OBVIOUS
    <2>3. a * m \in Nat /\ d * m \in Nat /\ b * m = a * m + m + d * m
        BY <2>1
    <2>4. i < m /\ 0 < j
        BY <2>2
    <2> QED BY <2>2, <2>3, <2>4
<1>2. CASE a = b /\ i < j
    <2>1. a * (n + 1) \in Nat
        OBVIOUS
    <2> QED BY <1>2, <2>1
<1> QED
    BY <1>1, <1>2

SortKeys(entries) == [i \in 1..Len(entries) |-> entries[i].at * (Len(entries) + 1) + i]

\* The keys are different integers; they follow the positions unless the clock
\* was put back.
LEMMA SortKeysOrder ==
    ASSUME NEW entries \in Seq(Entries)
    PROVE  /\ SortKeys(entries) \in [1..Len(entries) -> Int]
           /\ \A i, j \in 1..Len(entries) : SortKeys(entries)[i] = SortKeys(entries)[j] => i = j
           /\ \A i, j \in 1..Len(entries) : i < j /\ ~ entries[i].at > entries[j].at =>
                  SortKeys(entries)[i] < SortKeys(entries)[j]
<1>1. PICK n \in Nat : n = Len(entries)
    BY LenProperties
<1>2. \A i \in 1..n : entries[i].at \in Nat
    <2>1. \A i \in 1..n : entries[i] \in Entries
        BY <1>1, LenProperties
    <2> QED BY <2>1, InputsAssumption DEF Entries
<1>3. PICK key : key = SortKeys(entries)
    OBVIOUS
<1>4. \A i \in 1..n : key[i] = entries[i].at * (n + 1) + i
    BY <1>1, <1>3 DEF SortKeys
<1>5. \A i \in 1..n : entries[i].at * (n + 1) + i \in Int
    BY <1>2
<1>6. key \in [1..n -> Int]
    BY <1>1, <1>3, <1>5 DEF SortKeys
<1>7. \A i, j \in 1..n :
          entries[i].at < entries[j].at \/ (entries[i].at = entries[j].at /\ i < j) => key[i] < key[j]
    <2> SUFFICES ASSUME NEW i \in 1..n, NEW j \in 1..n,
                        entries[i].at < entries[j].at \/ (entries[i].at = entries[j].at /\ i < j)
                 PROVE  key[i] < key[j]
        OBVIOUS
    <2>1. PICK a \in Nat, b \in Nat : a = entries[i].at /\ b = entries[j].at
        BY <1>2
    <2>2. a < b \/ (a = b /\ i < j)
        BY <2>1
    <2>3. a * (n + 1) + i < b * (n + 1) + j
        BY <2>2, KeysRise
    <2>4. key[i] = a * (n + 1) + i /\ key[j] = b * (n + 1) + j
        BY <1>4, <2>1
    <2> QED BY <2>3, <2>4
<1>8. ASSUME NEW i \in 1..n, NEW j \in 1..n, key[i] = key[j] PROVE i = j
    <2>1. key[i] \in Int /\ ~ key[i] < key[j] /\ ~ key[j] < key[i]
        BY <1>6, <1>8
    <2>2. ~ (i < j /\ entries[i].at = entries[j].at) /\ ~ entries[i].at < entries[j].at
          /\ ~ (j < i /\ entries[j].at = entries[i].at) /\ ~ entries[j].at < entries[i].at
        BY <1>7, <2>1
    <2>3. entries[i].at \in Nat /\ entries[j].at \in Nat
        BY <1>2
    <2> QED BY <2>2, <2>3
<1>9. ASSUME NEW i \in 1..n, NEW j \in 1..n, i < j, ~ entries[i].at > entries[j].at
      PROVE  key[i] < key[j]
    <2>1. entries[i].at < entries[j].at \/ entries[i].at = entries[j].at
        BY <1>2, <1>9
    <2> QED BY <1>7, <1>9, <2>1
<1> QED
    BY <1>1, <1>3, <1>6, <1>8, <1>9

\* Sorting arranges the entries by their keys.
LEMMA SortedBy ==
    ASSUME NEW entries \in Seq(Entries)
    PROVE  \E at : /\ ArrangedBy(at, entries, 1..Len(entries), SortKeys(entries))
                   /\ at \in Bijection(1..Len(entries), 1..Len(entries))
                   /\ Sorted(entries) = [k \in 1..Len(entries) |-> entries[at[k]]]
<1>1. PICK n \in Nat : n = Len(entries)
    BY LenProperties
<1>2. PICK key \in [1..n -> Int] :
          key = SortKeys(entries) /\ \A i, j \in 1..n : key[i] = key[j] => i = j
    BY <1>1, SortKeysOrder
<1>3. PICK positions : positions = 1..n
    OBVIOUS
<1>4. IsFiniteSet(positions) /\ Cardinality(positions) = n
    <2>1. 1 \in Int /\ n \in Int
        OBVIOUS
    <2>2. IsFiniteSet(1..n) /\ Cardinality(1..n) = n
        BY <2>1, FS_Interval
    <2> QED BY <1>3, <2>2
<1>5. PICK at : ArrangedBy(at, entries, positions, key)
    BY <1>2, <1>3, <1>4, Arrangement
<1>6. Sorted(entries) = Arranged(entries, positions, key)
    BY <1>1, <1>2, <1>3, LenProperties DEF Sorted, SortKeys
<1>7. /\ at \in Bijection(1..n, positions)
      /\ Arranged(entries, positions, key) = [k \in 1..n |-> entries[at[k]]]
    BY <1>4, <1>5 DEF ArrangedBy
<1>8. /\ ArrangedBy(at, entries, 1..n, SortKeys(entries))
      /\ at \in Bijection(1..n, 1..n)
      /\ Sorted(entries) = [k \in 1..n |-> entries[at[k]]]
    BY <1>2, <1>3, <1>5, <1>6, <1>7
<1> QED
    BY <1>1, <1>8

\* Sorting entries that are in the order of their times changes nothing.
LEMMA SortedStays ==
    ASSUME NEW entries \in Seq(Entries),
           \A i, j \in 1..Len(entries) : i < j => ~ entries[i].at > entries[j].at
    PROVE  Sorted(entries) = entries
<1>1. PICK n \in Nat : n = Len(entries)
    BY LenProperties
<1>2. PICK key \in [1..n -> Int] :
          key = SortKeys(entries) /\ \A i, j \in 1..n : i < j => key[i] < key[j]
    BY <1>1, SortKeysOrder
<1>3. PICK positions : positions = 1..n
    OBVIOUS
<1>4. PICK at : /\ ArrangedBy(at, entries, positions, key)
                /\ at \in Bijection(1..n, 1..n)
                /\ Sorted(entries) = [k \in 1..n |-> entries[at[k]]]
    BY <1>1, <1>2, <1>3, SortedBy
<1>5. \A i, j \in positions : key[i] <= key[j] <=> i <= j
    <2> SUFFICES ASSUME NEW i \in 1..n, NEW j \in 1..n PROVE key[i] <= key[j] <=> i <= j
        BY <1>3
    <2>1. i \in Int /\ j \in Int /\ key[i] \in Int /\ key[j] \in Int
        OBVIOUS
    <2>2. (i < j => key[i] < key[j]) /\ (j < i => key[j] < key[i])
        BY <1>2
    <2> QED BY <2>1, <2>2
<1>6. ASSUME NEW i \in 1..n PROVE Place(positions, key, i) = i
    <2>1. {j \in positions : key[j] <= key[i]} = {j \in positions : j <= i}
        BY <1>3, <1>5
    <2>2. {j \in 1..n : j <= i} = 1..i
        OBVIOUS
    <2>3. i \in Int /\ 1 \in Int /\ ~ 1 > i
        OBVIOUS
    <2>4. Cardinality(1..i) = i
        BY <2>3, FS_Interval
    <2> QED BY <1>3, <2>1, <2>2, <2>4 DEF Place
<1>7. Cardinality(positions) = n
    <2>1. 1 \in Int /\ n \in Int
        OBVIOUS
    <2>2. Cardinality(1..n) = n
        BY <2>1, FS_Interval
    <2> QED BY <1>3, <2>2
<1>8. ASSUME NEW k \in 1..n PROVE at[k] = k
    <2>1. at[k] \in 1..n
        BY <1>4 DEF Bijection, Injection
    <2>2. Place(positions, key, at[k]) = k
        BY <1>4, <1>7 DEF ArrangedBy
    <2> QED BY <1>6, <2>1, <2>2
<1>9. entries = [k \in 1..n |-> entries[k]]
    BY <1>1, LenProperties
<1> QED
    BY <1>4, <1>8, <1>9

-----------------------------------------------------------------------------
(* Sums, costs and ratios.                                                 *)

\* A timeline has an integer for each entry.
LEMMA TotalsAreIntegers ==
    ASSUME NEW n \in Nat, NEW entries, Len(entries) = n,
           \A i \in 1..n : entries[i].amount \in Int
    PROVE  /\ RunningTotals(entries) \in Seq(Int)
           /\ Len(RunningTotals(entries)) = n
           /\ \A i \in 1..n : RunningTotals(entries)[i] = SumFunction([j \in 1..i |-> entries[j].amount])
<1> DEFINE total(i) == SumFunction([j \in 1..i |-> entries[j].amount])
<1>1. ASSUME NEW i \in 1..n PROVE total(i) \in Int
    <2>1. IsFiniteSet(1..i)
        <3>1. 1 \in Int /\ i \in Int
            OBVIOUS
        <3> QED BY <3>1, FS_Interval
    <2>2. [j \in 1..i |-> entries[j].amount] \in [1..i -> Int]
        OBVIOUS
    <2> QED
        BY <2>1, <2>2, SumType
<1>2. RunningTotals(entries) = [i \in 1..n |-> total(i)]
    BY DEF RunningTotals
<1> HIDE DEF total
<1>3. [i \in 1..n |-> total(i)] \in Seq(Int)
    BY <1>1, IsASeq
<1>4. Len([i \in 1..n |-> total(i)]) = n
    OBVIOUS
<1>5. \A i \in 1..n : [k \in 1..n |-> total(k)][i] = total(i)
    OBVIOUS
<1> QED
    BY <1>2, <1>3, <1>4, <1>5 DEF total

\* One more value adds its square and moves the mean.
LEMMA OneMoreValue ==
    ASSUME NEW n \in Nat, NEW squares \in Int, NEW sum \in Int, NEW x \in Int,
           n * squares - sum * sum >= 0, n = 0 => squares = 0 /\ sum = 0
    PROVE  (n + 1) * (squares + x * x) - (sum + x) * (sum + x) >= 0
<1> DEFINE more == squares + n * (x * x) - 2 * (sum * x)
<1>1. (n + 1) * (squares + x * x) - (sum + x) * (sum + x) = (n * squares - sum * sum) + more
    OBVIOUS
<1>2. CASE n = 0
    BY <1>1, <1>2
<1>3. CASE n > 0
    <2>1. n * more = (n * squares - sum * sum) + (sum - n * x) * (sum - n * x)
        OBVIOUS
    <2>2. \A y \in Int : y * y >= 0
        OBVIOUS
    <2>3. sum - n * x \in Int
        OBVIOUS
    <2>4. (sum - n * x) * (sum - n * x) >= 0
        BY <2>2, <2>3
    <2>5. n * more >= 0
        BY <2>1, <2>4
    <2>6. \A m \in Int : n * m >= 0 => m >= 0
        BY <1>3
    <2>7. more \in Int
        OBVIOUS
    <2>8. more >= 0
        BY <2>5, <2>6, <2>7
    <2> QED
        BY <1>1, <2>7, <2>8
<1> QED
    BY <1>2, <1>3

\* The square of the sum is at most the sum of the squares, times their number:
\* no timeline has a negative cost.  By induction on its length.
LEMMA CostNotNegative ==
    ASSUME NEW timeline \in Seq(Int)
    PROVE  Cost(timeline) \in Nat
<1> DEFINE values(n) == [i \in 1..n |-> timeline[i]]
           squares(n) == [i \in 1..n |-> timeline[i] * timeline[i]]
           spread(n) == n * SumFunction(squares(n)) - SumFunction(values(n)) * SumFunction(values(n))
           wrong == {n \in 0..Len(timeline) : ~ spread(n) >= 0}
<1>1. Len(timeline) \in Nat /\ \A i \in 1..Len(timeline) : timeline[i] \in Int
    BY LenProperties
<1>2. ASSUME NEW n \in 0..Len(timeline)
      PROVE  /\ values(n) \in [1..n -> Int] /\ squares(n) \in [1..n -> Int]
             /\ IsFiniteSet(1..n)
             /\ SumFunction(values(n)) \in Int /\ SumFunction(squares(n)) \in Int
    <2>1. values(n) \in [1..n -> Int]
        BY <1>1
    <2>2. squares(n) \in [1..n -> Int]
        BY <1>1
    <2>3. IsFiniteSet(1..n)
        BY FS_Interval
    <2> HIDE DEF values, squares
    <2> QED
        BY <2>1, <2>2, <2>3, SumType
<1>3. SumFunction(values(0)) = 0 /\ SumFunction(squares(0)) = 0
    <2>1. values(0) \in [{} -> Int] /\ squares(0) \in [{} -> Int]
        OBVIOUS
    <2> HIDE DEF values, squares
    <2> QED
        BY <2>1, SumNothing
<1>4. ASSUME NEW n \in 0..Len(timeline) - 1
      PROVE  /\ SumFunction(values(n + 1)) = SumFunction(values(n)) + timeline[n + 1]
             /\ SumFunction(squares(n + 1)) = SumFunction(squares(n)) + timeline[n + 1] * timeline[n + 1]
    <2>1. n \in 0..Len(timeline) /\ n + 1 \in 0..Len(timeline) /\ n + 1 \in 1..(n + 1)
        BY <1>1
    <2>2. 1..n = (1..(n + 1)) \ {n + 1}
        BY <1>1
    <2>3. /\ \A i \in 1..n : values(n)[i] = values(n + 1)[i] /\ squares(n)[i] = squares(n + 1)[i]
          /\ values(n + 1)[n + 1] = timeline[n + 1]
          /\ squares(n + 1)[n + 1] = timeline[n + 1] * timeline[n + 1]
        BY <1>1
    <2>4. /\ values(n) \in [1..n -> Int] /\ squares(n) \in [1..n -> Int]
          /\ values(n + 1) \in [1..(n + 1) -> Int] /\ squares(n + 1) \in [1..(n + 1) -> Int]
          /\ IsFiniteSet(1..(n + 1))
          /\ SumFunction(values(n)) \in Int /\ SumFunction(squares(n)) \in Int
        BY <1>2, <2>1
    <2>5. timeline[n + 1] \in Int /\ timeline[n + 1] * timeline[n + 1] \in Int
        BY <1>1
    <2>6. n + 1 \in Int
        OBVIOUS
    <2> HIDE DEF values, squares
    <2>7. ASSUME NEW f \in [1..(n + 1) -> Int], NEW g \in [1..n -> Int],
                 \A i \in 1..n : g[i] = f[i]
          PROVE  SumFunction(f) = f[n + 1] + SumFunction(g)
        BY <2>1, <2>7, n \in Nat, SumTakeLast, Zenon
    <2>8. SumFunction(values(n + 1)) = timeline[n + 1] + SumFunction(values(n))
        BY <2>3, <2>4, <2>7
    <2>9. SumFunction(squares(n + 1)) = timeline[n + 1] * timeline[n + 1] + SumFunction(squares(n))
        BY <2>3, <2>4, <2>7
    <2>10. ASSUME NEW a \in Int, NEW b \in Int PROVE a + b = b + a
        OBVIOUS
    <2> QED
        BY <2>4, <2>5, <2>8, <2>9, <2>10
<1>5. Cost(timeline) = spread(Len(timeline))
    <2>1. timeline = values(Len(timeline))
        BY LenProperties
    <2>2. [i \in DOMAIN timeline |-> timeline[i] * timeline[i]] = squares(Len(timeline))
        BY LenProperties
    <2> HIDE DEF values, squares
    <2> QED
        BY <2>1, <2>2 DEF Cost
<1> HIDE DEF values, squares
<1>6. wrong = {}
    <2> SUFFICES ASSUME wrong # {} PROVE FALSE
        OBVIOUS
    <2>1. wrong \subseteq Nat
        BY <1>1
    <2>2. PICK m \in wrong : \A k \in wrong : ~ (<<k, m>> \in OpToRel(<, Nat))
        <3> HIDE DEF wrong
        <3> QED BY <2>1, NatLessThanWellFounded, WFMin
    <2>3. m \in 0..Len(timeline) /\ ~ spread(m) >= 0
        OBVIOUS
    <2>4. m # 0
        BY <1>3, <2>3
    <2>5. m - 1 \in 0..Len(timeline) - 1 /\ m - 1 \in 0..Len(timeline) /\ m - 1 \in Nat /\ m \in Nat
        BY <1>1, <2>3, <2>4
    <2>6. m - 1 \notin wrong
        <3>1. <<m - 1, m>> \in OpToRel(<, Nat)
            BY <2>5 DEF OpToRel
        <3> HIDE DEF wrong
        <3> QED BY <2>2, <3>1
    <2>7. spread(m - 1) >= 0
        BY <2>5, <2>6
    <2>8. PICK n \in Nat : n = m - 1 /\ m = n + 1
        BY <2>5
    <2>9. PICK squared \in Int, sum \in Int :
              squared = SumFunction(squares(n)) /\ sum = SumFunction(values(n))
        BY <1>2, <2>5, <2>8
    <2>10. n = 0 => squared = 0 /\ sum = 0
        BY <1>3, <2>9
    <2>11. n * squared - sum * sum >= 0
        BY <2>7, <2>8, <2>9
    <2>12. PICK x \in Int : x = timeline[n + 1]
        BY <1>1, <2>5, <2>8
    <2>13. (n + 1) * (squared + x * x) - (sum + x) * (sum + x) >= 0
        BY <2>10, <2>11, OneMoreValue
    <2>14. SumFunction(values(n + 1)) = sum + x /\ SumFunction(squares(n + 1)) = squared + x * x
        BY <1>4, <2>5, <2>8, <2>9, <2>12
    <2> QED
        BY <2>3, <2>8, <2>13, <2>14
<1>7. Len(timeline) \in 0..Len(timeline)
    BY <1>1
<1>8. spread(Len(timeline)) >= 0
    BY <1>6, <1>7
<1>9. spread(Len(timeline)) \in Int
    <2>1. /\ Len(timeline) \in Int /\ SumFunction(squares(Len(timeline))) \in Int
          /\ SumFunction(values(Len(timeline))) \in Int
        BY <1>1, <1>2, <1>7
    <2>2. ASSUME NEW n \in Int, NEW squared \in Int, NEW sum \in Int
          PROVE  n * squared - sum * sum \in Int
        OBVIOUS
    <2> QED BY <2>1, <2>2
<1> QED
    BY <1>5, <1>8, <1>9

\* The ratio is a natural number and at least 1.00, also where there is no
\* variance to divide by.
LEMMA RatioOfCosts ==
    ASSUME NEW suboptimal \in Seq(Int), NEW optimal \in Seq(Int), NEW unit \in Nat \ {0},
           Len(suboptimal) \in Nat \ {0}, Len(optimal) \in Nat \ {0}
    PROVE  Ratio(suboptimal, optimal, unit) \in Nat /\ Ratio(suboptimal, optimal, unit) >= One
<1>1. PICK s \in Nat, o \in Nat : s = Cost(suboptimal) /\ o = Cost(optimal)
    BY CostNotNegative
<1>2. PICK m \in Nat \ {0}, n \in Nat \ {0} : m = Len(suboptimal) /\ n = Len(optimal)
    OBVIOUS
<1>3. ASSUME NEW a \in Nat, NEW b \in Nat \ {0} PROVE a \div b \in Nat
    BY <1>3
<1>4. ASSUME NEW a \in Nat, NEW b \in Nat PROVE a * b \in Nat /\ (a > 0 /\ b > 0 => a * b > 0)
    BY <1>4
<1>5. n * n \in Nat \ {0} /\ m * m \in Nat \ {0} /\ unit * m \in Nat \ {0}
    BY <1>4
<1>6. (unit * m) * (unit * m) \in Nat \ {0}
    BY <1>4, <1>5
<1>7. One * (s * (n * n)) \in Nat /\ One * s \in Nat
    BY <1>4, <1>5 DEF One
<1>8. o > 0 => o * (m * m) \in Nat \ {0}
    BY <1>4, <1>5
<1>9. CASE o > 0
    <2>1. (One * (s * (n * n))) \div (o * (m * m)) \in Nat
        BY <1>3, <1>7, <1>8, <1>9
    <2>2. Ratio(suboptimal, optimal, unit) = AtLeastOne((One * (s * (n * n))) \div (o * (m * m)))
        BY <1>1, <1>2, <1>9 DEF Ratio
    <2> QED
        BY <2>1, <2>2 DEF AtLeastOne, One
<1>10. CASE ~ o > 0
    <2>1. (One * s) \div ((unit * m) * (unit * m)) \in Nat
        BY <1>3, <1>6, <1>7
    <2>2. Ratio(suboptimal, optimal, unit) = One + (One * s) \div ((unit * m) * (unit * m))
        BY <1>1, <1>2, <1>10 DEF Ratio
    <2> QED
        BY <2>1, <2>2 DEF One
<1> QED
    BY <1>9, <1>10

\* The ratio of a timeline to itself is 1.00, whatever its variance.
LEMMA RatioOfEquals ==
    ASSUME NEW timeline \in Seq(Int), NEW unit \in Nat \ {0}, Len(timeline) \in Nat \ {0}
    PROVE  Ratio(timeline, timeline, unit) = One
<1>1. PICK c \in Nat : c = Cost(timeline)
    BY CostNotNegative
<1>2. PICK n \in Nat \ {0} : n = Len(timeline)
    OBVIOUS
<1>3. ASSUME NEW a \in Nat, NEW b \in Nat PROVE a * b \in Nat /\ (a > 0 /\ b > 0 => a * b > 0)
    BY <1>3
<1>4. n * n \in Nat \ {0} /\ unit * n \in Nat \ {0}
    BY <1>3
<1>5. (unit * n) * (unit * n) \in Nat \ {0}
    BY <1>3, <1>4
<1>6. CASE c > 0
    <2>1. c * (n * n) \in Nat \ {0}
        BY <1>3, <1>4, <1>6
    <2>2. ASSUME NEW b \in Nat \ {0} PROVE (One * b) \div b = One
        BY <2>2 DEF One
    <2>3. Ratio(timeline, timeline, unit) = AtLeastOne((One * (c * (n * n))) \div (c * (n * n)))
        BY <1>1, <1>2, <1>6 DEF Ratio
    <2> QED
        BY <2>1, <2>2, <2>3 DEF AtLeastOne, One
<1>7. CASE c = 0
    <2>1. ASSUME NEW b \in Nat \ {0} PROVE 0 \div b = 0
        BY <2>1
    <2>2. One * c = 0
        BY <1>7 DEF One
    <2>3. Ratio(timeline, timeline, unit) = One + (One * c) \div ((unit * n) * (unit * n))
        BY <1>1, <1>2, <1>7 DEF Ratio
    <2> QED
        BY <1>5, <2>1, <2>2, <2>3 DEF One
<1> QED
    BY <1>6, <1>7

-----------------------------------------------------------------------------
(* The two timelines of a history.                                         *)

Locals(h) == {i \in DOMAIN h : ~h[i].remote}
Remotes(h) == {i \in DOMAIN h : h[i].remote}
Rearranged(h) == LocalEntries(h) \o RemoteEntries(h)

\* Every entry is local or remote, and the rearranged history is as long.
LEMMA Sides ==
    ASSUME NEW h \in Seq(Entries)
    PROVE  /\ Len(h) \in Nat /\ DOMAIN h = 1..Len(h)
           /\ \A i \in 1..Len(h) : h[i] \in Entries /\ h[i].amount \in Int /\ h[i].at \in Nat
           /\ Locals(h) \in SUBSET (1..Len(h)) /\ Remotes(h) \in SUBSET (1..Len(h))
           /\ Locals(h) \cup Remotes(h) = 1..Len(h) /\ Locals(h) \cap Remotes(h) = {}
           /\ LocalEntries(h) = Selected(h, Locals(h)) /\ RemoteEntries(h) = Selected(h, Remotes(h))
           /\ LocalEntries(h) \in Seq(Entries) /\ RemoteEntries(h) \in Seq(Entries)
           /\ Len(LocalEntries(h)) = Cardinality(Locals(h))
           /\ Len(RemoteEntries(h)) = Cardinality(Remotes(h))
           /\ Cardinality(Locals(h)) \in Nat /\ Cardinality(Remotes(h)) \in Nat
           /\ Cardinality(Locals(h)) + Cardinality(Remotes(h)) = Len(h)
           /\ Rearranged(h) \in Seq(Entries) /\ Len(Rearranged(h)) = Len(h)
           /\ \A k \in 1..Len(h) : Rearranged(h)[k] =
                  IF k <= Cardinality(Locals(h)) THEN LocalEntries(h)[k]
                  ELSE RemoteEntries(h)[k - Cardinality(Locals(h))]
<1>1. Len(h) \in Nat /\ DOMAIN h = 1..Len(h) /\ \A i \in 1..Len(h) : h[i] \in Entries
    BY LenProperties
<1>2. \A i \in 1..Len(h) : h[i].amount \in Int /\ h[i].at \in Nat
    BY <1>1, InputsAssumption DEF Entries
<1>3. /\ Locals(h) \in SUBSET (1..Len(h)) /\ Remotes(h) \in SUBSET (1..Len(h))
      /\ Locals(h) \cup Remotes(h) = 1..Len(h) /\ Locals(h) \cap Remotes(h) = {}
    BY <1>1 DEF Locals, Remotes
<1>4. LocalEntries(h) = Selected(h, Locals(h)) /\ RemoteEntries(h) = Selected(h, Remotes(h))
    BY DEF LocalEntries, RemoteEntries, Locals, Remotes
<1>5. /\ IsFiniteSet(Locals(h)) /\ IsFiniteSet(Remotes(h))
      /\ Cardinality(Locals(h)) \in Nat /\ Cardinality(Remotes(h)) \in Nat
      /\ LocalEntries(h) \in Seq(Entries) /\ RemoteEntries(h) \in Seq(Entries)
      /\ Len(LocalEntries(h)) = Cardinality(Locals(h))
      /\ Len(RemoteEntries(h)) = Cardinality(Remotes(h))
    BY <1>3, <1>4, SelectedFrom
<1>6. Cardinality(Locals(h)) + Cardinality(Remotes(h)) = Len(h)
    <2>1. PICK n \in Nat : n = Len(h)
        BY <1>1
    <2>2. Cardinality(1..n) = n
        <3>1. 1 \in Int /\ n \in Int
            OBVIOUS
        <3>2. Cardinality(1..n) = IF 1 > n THEN 0 ELSE n - 1 + 1
            BY <3>1, FS_Interval
        <3> QED BY <3>2
    <2>3. Cardinality(Locals(h) \cup Remotes(h))
              = Cardinality(Locals(h)) + Cardinality(Remotes(h)) - Cardinality(Locals(h) \cap Remotes(h))
        BY <1>5, FS_Union
    <2>4. Cardinality(Locals(h) \cap Remotes(h)) = 0
        BY <1>3, FS_EmptySet
    <2>5. Cardinality(Locals(h) \cup Remotes(h)) = n
        BY <1>3, <2>1, <2>2
    <2>6. PICK l \in Nat, r \in Nat : l = Cardinality(Locals(h)) /\ r = Cardinality(Remotes(h))
        BY <1>5
    <2>7. n = l + r - 0
        BY <2>3, <2>4, <2>5, <2>6
    <2> QED
        BY <2>1, <2>6, <2>7
<1>7. /\ Rearranged(h) \in Seq(Entries)
      /\ Len(Rearranged(h)) = Len(LocalEntries(h)) + Len(RemoteEntries(h))
      /\ \A k \in 1..Len(LocalEntries(h)) + Len(RemoteEntries(h)) : Rearranged(h)[k] =
             IF k <= Len(LocalEntries(h)) THEN LocalEntries(h)[k]
             ELSE RemoteEntries(h)[k - Len(LocalEntries(h))]
    BY <1>5, ConcatProperties DEF Rearranged
<1> QED
    BY <1>1, <1>2, <1>3, <1>4, <1>5, <1>6, <1>7

\* The rearranged history has the entries of the history, each at one place.
LEMMA RearrangedBy ==
    ASSUME NEW h \in Seq(Entries)
    PROVE  \E at \in Bijection(1..Len(h), 1..Len(h)) :
               \A k \in 1..Len(h) : Rearranged(h)[k] = h[at[k]]
<1>1. PICK n \in Nat, m \in Nat, r \in Nat :
          n = Len(h) /\ m = Cardinality(Locals(h)) /\ r = Cardinality(Remotes(h))
    BY Sides
<1>2. m + r = n
    BY <1>1, Sides
<1>3. PICK one : /\ ArrangedBy(one, h, Locals(h), Identity(Locals(h)))
                 /\ \A k \in 1..m : LocalEntries(h)[k] = h[one[k]]
    <2>1. Locals(h) \in SUBSET (1..Len(h)) /\ LocalEntries(h) = Selected(h, Locals(h))
        BY Sides
    <2>2. \E at : /\ ArrangedBy(at, h, Locals(h), Identity(Locals(h)))
                  /\ \A k \in 1..Cardinality(Locals(h)) : Selected(h, Locals(h))[k] = h[at[k]]
        BY <2>1, SelectedFrom
    <2> QED BY <1>1, <2>1, <2>2
<1>4. PICK two : /\ ArrangedBy(two, h, Remotes(h), Identity(Remotes(h)))
                 /\ \A k \in 1..r : RemoteEntries(h)[k] = h[two[k]]
    <2>1. Remotes(h) \in SUBSET (1..Len(h)) /\ RemoteEntries(h) = Selected(h, Remotes(h))
        BY Sides
    <2>2. \E at : /\ ArrangedBy(at, h, Remotes(h), Identity(Remotes(h)))
                  /\ \A k \in 1..Cardinality(Remotes(h)) : Selected(h, Remotes(h))[k] = h[at[k]]
        BY <2>1, SelectedFrom
    <2> QED BY <1>1, <2>1, <2>2
<1>5. /\ one \in [1..m -> Locals(h)] /\ \A k, l \in 1..m : one[k] = one[l] => k = l
      /\ \A i \in Locals(h) : \E k \in 1..m : one[k] = i
    BY <1>1, <1>3 DEF ArrangedBy, Bijection, Injection, IsInjective, Surjection
<1>6. /\ two \in [1..r -> Remotes(h)] /\ \A k, l \in 1..r : two[k] = two[l] => k = l
      /\ \A i \in Remotes(h) : \E k \in 1..r : two[k] = i
    BY <1>1, <1>4 DEF ArrangedBy, Bijection, Injection, IsInjective, Surjection
<1>7. /\ \A i : i \in Locals(h) => i \in 1..n /\ i \notin Remotes(h)
      /\ \A i : i \in Remotes(h) => i \in 1..n
      /\ \A i \in 1..n : i \in Locals(h) \/ i \in Remotes(h)
    BY <1>1, Sides
<1> DEFINE at == [k \in 1..n |-> IF k <= m THEN one[k] ELSE two[k - m]]
<1>8. \A k \in 1..n : /\ k <= m => at[k] = one[k] /\ k \in 1..m
                      /\ ~ k <= m => at[k] = two[k - m] /\ k - m \in 1..r
    BY <1>2
<1>9. \A k \in 1..r : k + m \in 1..n /\ ~ k + m <= m /\ (k + m) - m = k
    BY <1>2
<1>10. \A k \in 1..m : k \in 1..n /\ k <= m
    BY <1>2
<1>11. at \in [1..n -> 1..n]
    BY <1>5, <1>6, <1>7, <1>8
<1> HIDE DEF at
<1>12. \A k, l \in 1..n : at[k] = at[l] => k = l
    <2> SUFFICES ASSUME NEW k \in 1..n, NEW l \in 1..n, at[k] = at[l] PROVE k = l
        OBVIOUS
    <2>1. CASE k <= m /\ l <= m
        BY <1>5, <1>8, <2>1
    <2>2. CASE ~ k <= m /\ ~ l <= m
        <3>1. k - m = l - m
            BY <1>6, <1>8, <2>2
        <3> QED BY <3>1
    <2>3. CASE k <= m /\ ~ l <= m
        BY <1>5, <1>6, <1>7, <1>8, <2>3
    <2>4. CASE ~ k <= m /\ l <= m
        BY <1>5, <1>6, <1>7, <1>8, <2>4
    <2> QED
        BY <2>1, <2>2, <2>3, <2>4
<1>13. \A i \in 1..n : \E k \in 1..n : at[k] = i
    <2> SUFFICES ASSUME NEW i \in 1..n PROVE \E k \in 1..n : at[k] = i
        OBVIOUS
    <2>1. CASE i \in Locals(h)
        <3>1. PICK k \in 1..m : one[k] = i
            BY <1>5, <2>1
        <3> QED BY <1>8, <1>10, <3>1
    <2>2. CASE i \in Remotes(h)
        <3>1. PICK k \in 1..r : two[k] = i
            BY <1>6, <2>2
        <3>2. k + m \in 1..n /\ at[k + m] = two[(k + m) - m] /\ (k + m) - m = k
            BY <1>8, <1>9
        <3> QED BY <3>1, <3>2
    <2> QED
        BY <1>7, <2>1, <2>2
<1>14. at \in Bijection(1..n, 1..n)
    BY <1>11, <1>12, <1>13, Fun_IsBij
<1>15. \A k \in 1..n : Rearranged(h)[k] =
           IF k <= m THEN LocalEntries(h)[k] ELSE RemoteEntries(h)[k - m]
    BY <1>1, Sides
<1>16. \A k \in 1..n : Rearranged(h)[k] = h[at[k]]
    BY <1>3, <1>4, <1>8, <1>15
<1> QED
    BY <1>1, <1>14, <1>16

\* When the local entries precede the remote ones, nothing is rearranged.
LEMMA RearrangedStays ==
    ASSUME NEW h \in Seq(Entries),
           \A i, j \in 1..Len(h) : i < j /\ h[i].remote => h[j].remote
    PROVE  Rearranged(h) = h
<1>1. PICK n \in Nat : n = Len(h)
    BY Sides
<1>2. \E first \in 1..(n + 1) : Locals(h) = 1..(first - 1) /\ Remotes(h) = first..n
    <2>1. CASE Remotes(h) = {}
        <3>1. Locals(h) = 1..n
            BY <1>1, <2>1, Sides
        <3>2. n + 1 \in 1..(n + 1) /\ (n + 1) - 1 = n /\ (n + 1)..n = {}
            OBVIOUS
        <3> QED BY <2>1, <3>1, <3>2
    <2>2. CASE Remotes(h) # {}
        <3>1. Remotes(h) \subseteq Nat
            BY <1>1, Sides
        <3>2. PICK first \in Remotes(h) : \A k \in Remotes(h) : ~ (<<k, first>> \in OpToRel(<, Nat))
            BY <2>2, <3>1, NatLessThanWellFounded, WFMin
        <3>3. first \in 1..n /\ h[first].remote /\ DOMAIN h = 1..n
            BY <1>1, Sides DEF Remotes
        <3>4. \A k \in Remotes(h) : k >= first
            <4> SUFFICES ASSUME NEW k \in Remotes(h) PROVE k >= first
                OBVIOUS
            <4>1. k \in Nat /\ first \in Nat /\ ~ k < first
                BY <3>1, <3>2 DEF OpToRel
            <4> QED BY <4>1
        <3>5. \A k \in 1..n : k >= first => k \in Remotes(h)
            BY <1>1, <3>3 DEF Remotes
        <3>6. \A k : k \in Remotes(h) <=> k \in first..n
            BY <1>1, <3>3, <3>4, <3>5 DEF Remotes
        <3>7. \A k : k \in Locals(h) <=> k \in 1..n /\ k \notin Remotes(h)
            BY <3>3 DEF Locals, Remotes
        <3>8. \A k : k \in Locals(h) <=> k \in 1..(first - 1)
            BY <3>3, <3>6, <3>7
        <3>9. Locals(h) = 1..(first - 1) /\ Remotes(h) = first..n
            BY <3>6, <3>8
        <3>10. first \in 1..(n + 1)
            BY <3>3
        <3> QED BY <3>9, <3>10
    <2> QED
        BY <2>1, <2>2
<1>3. PICK first \in 1..(n + 1) : Locals(h) = 1..(first - 1) /\ Remotes(h) = first..n
    BY <1>2
<1>4. PICK m \in Nat : m = first - 1
    OBVIOUS
<1>5. 1 \in Int /\ first \in Int /\ first - 1 \in Int /\ n \in Int /\ 1 >= 1 /\ first >= 1
      /\ first - 1 <= n /\ n <= n
    OBVIOUS
<1>6. Cardinality(Locals(h)) = m
    <2>1. Cardinality(1..(first - 1)) = IF 1 > first - 1 THEN 0 ELSE (first - 1) - 1 + 1
        BY <1>5, FS_Interval
    <2> QED BY <1>3, <1>4, <2>1
<1>7. Cardinality(Remotes(h)) = n - m
    BY <1>1, <1>6, Sides
<1>8. \A k \in 1..m : LocalEntries(h)[k] = h[1 + k - 1]
    <2>1. \A k \in 1..Cardinality(1..(first - 1)) : Selected(h, 1..(first - 1))[k] = h[1 + k - 1]
        BY <1>1, <1>5, SelectedStretch
    <2>2. LocalEntries(h) = Selected(h, Locals(h))
        BY Sides
    <2> QED BY <1>3, <1>6, <2>1, <2>2
<1>9. \A k \in 1..(n - m) : RemoteEntries(h)[k] = h[first + k - 1]
    <2>1. \A k \in 1..Cardinality(first..n) : Selected(h, first..n)[k] = h[first + k - 1]
        BY <1>1, <1>5, SelectedStretch
    <2>2. RemoteEntries(h) = Selected(h, Remotes(h))
        BY Sides
    <2> QED BY <1>3, <1>7, <2>1, <2>2
<1>10. ASSUME NEW k \in 1..n PROVE Rearranged(h)[k] = h[k]
    <2>1. Rearranged(h)[k] = IF k <= m THEN LocalEntries(h)[k] ELSE RemoteEntries(h)[k - m]
        BY <1>1, <1>6, Sides
    <2>2. CASE k <= m
        <3>1. k \in 1..m /\ 1 + k - 1 = k
            BY <2>2
        <3> QED BY <1>8, <2>1, <2>2, <3>1
    <2>3. CASE ~ k <= m
        <3>1. k - m \in 1..(n - m) /\ first + (k - m) - 1 = k
            BY <1>4, <2>3
        <3> QED BY <1>9, <2>1, <2>3, <3>1
    <2> QED BY <2>2, <2>3
<1> QED
    BY <1>1, <1>10, Sides, SeqEqual

\* Sorted entries are entries of the history, each at one place.
LEMMA SortedFrom ==
    ASSUME NEW h \in Seq(Entries)
    PROVE  /\ Len(Sorted(h)) = Len(h)
           /\ \A i \in 1..Len(h) : Sorted(h)[i].amount \in Int
           /\ \E at \in Bijection(1..Len(h), 1..Len(h)) : \A k \in 1..Len(h) : Sorted(h)[k] = h[at[k]]
<1>1. PICK n \in Nat : n = Len(h)
    BY Sides
<1>2. PICK at \in Bijection(1..n, 1..n) : Sorted(h) = [k \in 1..n |-> h[at[k]]]
    BY <1>1, SortedBy
<1>3. at \in [1..n -> 1..n]
    BY <1>2 DEF Bijection, Injection
<1>4. \A i \in 1..n : h[i] \in Entries /\ h[i].amount \in Int
    BY <1>1, Sides
<1>5. Sorted(h) \in [1..n -> Entries]
    BY <1>2, <1>3, <1>4
<1>6. Sorted(h) \in Seq(Entries)
    <2>1. n \in Nat /\ Seq(Entries) = UNION {[1..k -> Entries] : k \in Nat}
        BY SeqDef
    <2>2. \E k \in Nat : Sorted(h) \in [1..k -> Entries]
        BY <1>5, <2>1
    <2> QED BY <2>1, <2>2, Zenon
<1>7. Len(Sorted(h)) = n
    <2>1. DOMAIN Sorted(h) = 1..n /\ DOMAIN Sorted(h) = 1..Len(Sorted(h)) /\ Len(Sorted(h)) \in Nat
        BY <1>5, <1>6, LenProperties
    <2> QED BY <2>1
<1>8. \A k \in 1..n : Sorted(h)[k] = h[at[k]]
    BY <1>2
<1>9. \A i \in 1..n : Sorted(h)[i].amount \in Int
    BY <1>3, <1>4, <1>8
<1> QED
    BY <1>1, <1>7, <1>8, <1>9

\* What is judged has a ratio: both timelines are not empty.
LEMMA PhiType ==
    ASSUME NEW h \in Seq(Entries), Judged(h)
    PROVE  /\ Len(h) \in Nat \ {0}
           /\ Suboptimal(h) = RunningTotals(Rearranged(h)) /\ Optimal(h) = RunningTotals(Sorted(h))
           /\ Suboptimal(h) \in Seq(Int) /\ Optimal(h) \in Seq(Int)
           /\ Len(Suboptimal(h)) = Len(h) /\ Len(Optimal(h)) = Len(h)
           /\ Phi(h) \in Nat /\ Phi(h) >= One
<1>1. PICK n \in Nat : n = Len(h)
    BY Sides
<1>2. n \in Nat \ {0}
    BY <1>1 DEF Judged
<1>3. Suboptimal(h) = RunningTotals(Rearranged(h))
    BY DEF Suboptimal, Rearranged
<1>4. Optimal(h) = RunningTotals(Sorted(h))
    BY DEF Optimal
<1>5. Rearranged(h) \in Seq(Entries) /\ Len(Rearranged(h)) = n
    BY <1>1, Sides
<1>6. Len(Sorted(h)) = n /\ \A i \in 1..n : Sorted(h)[i].amount \in Int
    BY <1>1, SortedFrom
<1>7. \A i \in 1..n : Rearranged(h)[i].amount \in Int
    <2>1. \A i \in 1..n : Rearranged(h)[i] \in Entries
        BY <1>5, LenProperties
    <2> QED BY <2>1 DEF Entries
<1>8. Optimal(h) \in Seq(Int) /\ Len(Optimal(h)) = n
    BY <1>1, <1>4, <1>6, TotalsAreIntegers
<1>9. Suboptimal(h) \in Seq(Int) /\ Len(Suboptimal(h)) = n
    BY <1>3, <1>5, <1>7, TotalsAreIntegers
<1>10. 1 \in Nat \ {0}
    OBVIOUS
<1>11. Phi(h) \in Nat /\ Phi(h) >= One
    BY <1>2, <1>8, <1>9, <1>10, RatioOfCosts DEF Phi
<1> QED
    BY <1>1, <1>2, <1>3, <1>4, <1>8, <1>9, <1>11

\* A timeline ends in the sum of all amounts.
LEMMA TotalOfAll ==
    ASSUME NEW n \in Nat \ {0}, NEW entries, Len(entries) = n,
           \A i \in 1..n : entries[i].amount \in Int
    PROVE  Total(RunningTotals(entries)) = SumFunction([j \in 1..n |-> entries[j].amount])
<1>1. n \in 1..n /\ n \in Nat
    OBVIOUS
<1> QED
    BY <1>1, TotalsAreIntegers DEF Total

\* The entries in another order have the same total.
LEMMA TotalPermuted ==
    ASSUME NEW h \in Seq(Entries), NEW n \in Nat \ {0}, n = Len(h),
           NEW s, Len(s) = n,
           \E at \in Bijection(1..n, 1..n) : \A k \in 1..n : s[k] = h[at[k]]
    PROVE  Total(RunningTotals(s)) = SumFunction([j \in 1..n |-> h[j].amount])
<1>2. PICK at \in Bijection(1..n, 1..n) : \A k \in 1..n : s[k] = h[at[k]]
    OBVIOUS
<1>3. at \in [1..n -> 1..n]
    BY <1>2 DEF Bijection, Injection
<1>4. \A i \in 1..n : h[i].amount \in Int
    BY Sides
<1>5. \A i \in 1..n : s[i].amount \in Int
    BY <1>2, <1>3, <1>4
<1>7. PICK f, g : f = [j \in 1..n |-> h[j].amount] /\ g = [j \in 1..n |-> s[j].amount]
    OBVIOUS
<1>8. Total(RunningTotals(s)) = SumFunction(g)
    BY <1>5, <1>7, TotalOfAll
<1>9. f \in [1..n -> Int] /\ g \in [1..n -> Int] /\ \A k \in 1..n : g[k] = f[at[k]]
    BY <1>2, <1>3, <1>4, <1>5, <1>7
<1>10. IsFiniteSet(1..n)
    <2>1. 1 \in Int /\ n \in Int
        OBVIOUS
    <2> QED BY <2>1, FS_Interval
<1>11. SumFunction(g) = SumFunction(f)
    <2>1. PICK D : D = 1..n
        OBVIOUS
    <2>2. /\ IsFiniteSet(D) /\ at \in Bijection(D, D) /\ f \in [D -> Int] /\ g \in [D -> Int]
          /\ \A k \in D : g[k] = f[at[k]]
        BY <1>2, <1>9, <1>10, <2>1
    <2> QED
        BY <2>2, SumRenamed, SMTT(30)
<1> QED
    BY <1>7, <1>8, <1>11

\* Both timelines end in the sum of the same amounts in two orders.
LEMMA SameTotal ==
    ASSUME NEW h \in Seq(Entries), Judged(h)
    PROVE  Total(Suboptimal(h)) = Total(Optimal(h))
<1>1. PICK n \in Nat \ {0} : n = Len(h)
    BY PhiType
<1>2. /\ Len(Rearranged(h)) = n
      /\ \E at \in Bijection(1..n, 1..n) : \A k \in 1..n : Rearranged(h)[k] = h[at[k]]
    BY <1>1, RearrangedBy, Sides
<1>3. /\ Len(Sorted(h)) = n
      /\ \E at \in Bijection(1..n, 1..n) : \A k \in 1..n : Sorted(h)[k] = h[at[k]]
    BY <1>1, SortedFrom
<1>4. Total(RunningTotals(Rearranged(h))) = SumFunction([j \in 1..n |-> h[j].amount])
    BY <1>1, <1>2, TotalPermuted
<1>5. Total(RunningTotals(Sorted(h))) = SumFunction([j \in 1..n |-> h[j].amount])
    BY <1>1, <1>3, TotalPermuted
<1> QED
    BY <1>4, <1>5, PhiType

\* A history in the order of its times in which no local entry follows a
\* remote one is not regretted.
LEMMA NothingLateNoRegret ==
    ASSUME NEW h \in Seq(Entries), Judged(h),
           \A i, j \in 1..Len(h) : i < j => ~ h[i].at > h[j].at,
           \A i, j \in 1..Len(h) : i < j /\ h[i].remote => h[j].remote
    PROVE  Phi(h) = One
<1>1. Rearranged(h) = h
    BY RearrangedStays
<1>2. Sorted(h) = h
    BY SortedStays
<1>3. Suboptimal(h) = Optimal(h) /\ Optimal(h) \in Seq(Int) /\ Len(Optimal(h)) \in Nat \ {0}
    BY <1>1, <1>2, PhiType
<1>4. 1 \in Nat \ {0}
    OBVIOUS
<1> QED
    BY <1>3, <1>4, RatioOfEquals DEF Phi

-----------------------------------------------------------------------------
(* The invariant.                                                          *)

\* No ratio in hand is below 1.00.
AtLeastOnes == \A r \in reports : r.phi >= One

LoopInv == TypeOK /\ AtLeastOnes

\* The first state has no history.
LEMMA InitLoop == Init => LoopInv
<1> SUFFICES ASSUME Init PROVE LoopInv
    OBVIOUS
<1>1. history = << >> /\ << >> \in Seq(Entries) /\ Len(<< >>) = 0
    BY EmptySeq DEF Init
<1>2. currentCL \in Levels
    BY InitialCLAssumption DEF Init, Levels
<1>3. 0 \in 0..MaxOps
    BY SizesAssumption
<1>4. TypeOK
    <2>1. history \in Seq(Entries)
        BY <1>1
    <2>2. checks \subseteq Nat /\ reports \subseteq Reports
        BY DEF Init
    <2>3. updates \in 0..MaxOps /\ integral \in Int /\ lastError \in Int
        BY <1>3 DEF Init
    <2> QED
        BY <1>2, <2>1, <2>2, <2>3 DEF Init, TypeOK
<1> QED
    BY <1>4 DEF Init, LoopInv, AtLeastOnes

\* Pruning a history leaves one.
LEMMA PrunedTyped ==
    ASSUME NEW h \in Seq(Entries)
    PROVE  Pruned(h) \in Seq(Entries)
<1>1. PICK n \in Nat, max \in Nat : n = Len(h) /\ max = MaxHistory /\ max > 0
    BY Sides, SizesAssumption
<1>2. CASE ~ n > max
    BY <1>1, <1>2 DEF Pruned
<1>3. CASE n > max
    <2>1. PICK first \in Nat : first = n - max + 1 /\ first >= 1
        BY <1>3
    <2>2. Pruned(h) = SubSeq(h, first, n)
        BY <1>1, <1>3, <2>1 DEF Pruned
    <2>3. \A i \in first..n : h[i] \in Entries
        BY <1>1, <2>1, Sides
    <2>4. first \in Int /\ n \in Int
        OBVIOUS
    <2> QED
        BY <2>2, <2>3, <2>4, SubSeqProperties
<1> QED
    BY <1>2, <1>3

\* So does recording an update.
LEMMA RecordTyped ==
    ASSUME history \in Seq(Entries), NEW amount \in Int, NEW remote \in BOOLEAN, Record(amount, remote)
    PROVE  history' \in Seq(Entries)
<1>1. PICK now \in Times :
          history' = Pruned(Append(history, [at |-> now, amount |-> amount, remote |-> remote]))
    BY DEF Record
<1>2. [at |-> now, amount |-> amount, remote |-> remote] \in Entries
    BY DEF Entries
<1>3. PICK h : h = Append(history, [at |-> now, amount |-> amount, remote |-> remote])
    OBVIOUS
<1>4. h \in Seq(Entries)
    BY <1>2, <1>3
<1> QED
    BY <1>1, <1>3, <1>4, PrunedTyped

\* The output's range is one of integers around zero.
LEMMA OutputRange ==
    /\ 0 \in -OutputLimit..OutputLimit
    /\ \A output \in -OutputLimit..OutputLimit : output \in Int
<1>1. OutputLimit \in Int /\ -OutputLimit \in Int /\ -OutputLimit <= 0 /\ 0 <= OutputLimit
    BY SMT DEF OutputLimit
<1> QED
    BY <1>1

\* A report is replaced by another of the same ratio.
LEMMA BecomesTyped ==
    ASSUME reports \subseteq Reports, AtLeastOnes,
           NEW r \in reports, NEW s \in Reports, s.phi = r.phi, Becomes(r, s)
    PROVE  reports' \subseteq Reports /\ AtLeastOnes'
BY DEF Becomes, AtLeastOnes

\* The fields of a report.
LEMMA ReportFields ==
    ASSUME NEW r \in Reports
    PROVE  /\ r.id \in Nat /\ r.phi \in Nat /\ r.stage \in Stages /\ r.gap \in Nat
           /\ r.integral \in Int /\ r.change \in Int /\ r.output \in -OutputLimit..OutputLimit
           /\ Error(r) \in Int /\ r.output \in Int
<1>1. TargetPhi \in Int
    BY TargetAssumption
<1>2. /\ r.id \in Nat /\ r.phi \in Nat /\ r.stage \in Stages /\ r.gap \in Nat
      /\ r.integral \in Int /\ r.change \in Int /\ r.output \in -OutputLimit..OutputLimit
    BY DEF Reports
<1>3. r.output \in Int
    BY <1>2, OutputRange
<1>4. Error(r) \in Int
    BY <1>1, <1>2 DEF Error
<1> QED
    BY <1>2, <1>3, <1>4

\* Every step of every goroutine keeps the types.
LEMMA NextLoop == LoopInv /\ [Next]_vars => LoopInv'
<1> SUFFICES ASSUME LoopInv, [Next]_vars PROVE LoopInv'
    OBVIOUS
<1>1. history \in Seq(Entries) /\ updates \in 0..MaxOps /\ updates \in Nat /\ checks \subseteq Nat
      /\ reports \subseteq Reports /\ integral \in Int /\ lastError \in Int
      /\ updated \in BOOLEAN /\ currentCL \in Levels /\ AtLeastOnes
    BY SizesAssumption DEF LoopInv, TypeOK
<1>2. ASSUME UNCHANGED reports PROVE AtLeastOnes'
    BY <1>1, <1>2 DEF AtLeastOnes
<1>3. ASSUME updates < MaxOps, updates' = updates + 1 PROVE updates' \in 0..MaxOps
    BY <1>1, <1>3, SizesAssumption
<1>4. ASSUME NEW a \in Amounts, LocalUpdate(a) PROVE LoopInv'
    <2>1. a \in Int /\ FALSE \in BOOLEAN
        BY InputsAssumption
    <2>2. history' \in Seq(Entries)
        BY <1>1, <1>4, <2>1, RecordTyped DEF LocalUpdate
    <2> QED
        BY <1>1, <1>2, <1>3, <1>4, <2>2 DEF LocalUpdate, pidVars, LoopInv, TypeOK
<1>5. ASSUME NEW a \in Amounts, RemoteUpdate(a) PROVE LoopInv'
    <2>1. a \in Int /\ TRUE \in BOOLEAN
        BY InputsAssumption
    <2>2. history' \in Seq(Entries)
        <3>1. CASE a # 0
            BY <1>1, <1>5, <2>1, <3>1, RecordTyped DEF RemoteUpdate
        <3>2. CASE a = 0
            BY <1>1, <1>5, <3>2 DEF RemoteUpdate
        <3> QED BY <3>1, <3>2
    <2>3. checks' \subseteq Nat
        BY <1>1, <1>5 DEF RemoteUpdate
    <2>4. updates' \in 0..MaxOps /\ AtLeastOnes'
        BY <1>2, <1>3, <1>5 DEF RemoteUpdate
    <2> QED
        BY <1>1, <1>5, <2>2, <2>3, <2>4 DEF RemoteUpdate, pidVars, LoopInv, TypeOK
<1>6. ASSUME NEW id \in checks, Check(id) PROVE LoopInv'
    <2>1. ASSUME Judged(history) PROVE Report(id, Phi(history)) \in Reports
        <3>1. Phi(history) \in Nat
            BY <1>1, <2>1, PhiType
        <3>2. id \in Nat
            BY <1>1
        <3> QED
            BY <3>1, <3>2, OutputRange DEF Report, Reports, Stages
    <2>2. reports' \subseteq Reports
        BY <1>1, <1>6, <2>1 DEF Check
    <2>3. Judged(history) => Report(id, Phi(history)).phi >= One
        BY <1>1, PhiType DEF Report
    <2>4. AtLeastOnes'
        BY <1>1, <1>6, <2>3 DEF Check, AtLeastOnes
    <2>5. checks' \subseteq Nat
        BY <1>1, <1>6 DEF Check
    <2> QED
        BY <1>1, <1>6, <2>2, <2>4, <2>5 DEF Check, pidVars, LoopInv, TypeOK
<1>7. ASSUME NEW r \in reports, ReadTime(r) PROVE LoopInv'
    <2>0. PICK given \in IF updated THEN Gaps ELSE {FirstGap} :
              Becomes(r, [r EXCEPT !.stage = "mark", !.gap = Elapsed(given)])
        BY <1>7 DEF ReadTime
    <2>1. PICK gap \in Nat : gap = Elapsed(given)
        BY InputsAssumption DEF Elapsed
    <2>2. Becomes(r, [r EXCEPT !.stage = "mark", !.gap = gap])
        BY <2>0, <2>1
    <2>3. /\ [r EXCEPT !.stage = "mark", !.gap = gap] \in Reports
          /\ [r EXCEPT !.stage = "mark", !.gap = gap].phi = r.phi
        BY <1>1, <2>1 DEF Reports, Stages
    <2>4. reports' \subseteq Reports /\ AtLeastOnes'
        BY <1>1, <2>2, <2>3, BecomesTyped
    <2> QED
        BY <1>1, <1>7, <2>4 DEF ReadTime, pidVars, LoopInv, TypeOK
<1>8. ASSUME NEW r \in reports, MarkTime(r) PROVE LoopInv'
    <2>1. TRUE \in BOOLEAN
        OBVIOUS
    <2>2. Becomes(r, [r EXCEPT !.stage = "load"])
        BY <1>8 DEF MarkTime
    <2>3. /\ [r EXCEPT !.stage = "load"] \in Reports
          /\ [r EXCEPT !.stage = "load"].phi = r.phi
        BY <1>1, <2>1 DEF Reports, Stages
    <2>4. reports' \subseteq Reports /\ AtLeastOnes'
        BY <1>1, <2>2, <2>3, BecomesTyped
    <2> QED
        BY <1>1, <1>8, <2>4 DEF MarkTime, pidVars, LoopInv, TypeOK
<1>9. ASSUME NEW r \in reports, LoadIntegral(r) PROVE LoopInv'
    <2>1. PICK total \in Int : total = Integrated(integral, Error(r), r.gap)
        <3>1. Error(r) \in Int /\ r.gap \in Nat
            BY <1>1, ReportFields
        <3> QED BY <1>1, <3>1 DEF Integrated
    <2>2. Becomes(r, [r EXCEPT !.stage = "store", !.integral = total])
        BY <1>9, <2>1 DEF LoadIntegral
    <2>3. /\ [r EXCEPT !.stage = "store", !.integral = total] \in Reports
          /\ [r EXCEPT !.stage = "store", !.integral = total].phi = r.phi
        BY <1>1, <2>1 DEF Reports, Stages
    <2>4. reports' \subseteq Reports /\ AtLeastOnes'
        BY <1>1, <2>2, <2>3, BecomesTyped
    <2> QED
        BY <1>1, <1>9, <2>4 DEF LoadIntegral, pidVars, LoopInv, TypeOK
<1>10. ASSUME NEW r \in reports, StoreIntegral(r) PROVE LoopInv'
    <2>1. r.integral \in Int
        BY <1>1, ReportFields
    <2>2. Becomes(r, [r EXCEPT !.stage = "reload"])
        BY <1>10 DEF StoreIntegral
    <2>3. /\ [r EXCEPT !.stage = "reload"] \in Reports
          /\ [r EXCEPT !.stage = "reload"].phi = r.phi
        BY <1>1, <2>1 DEF Reports, Stages
    <2>4. reports' \subseteq Reports /\ AtLeastOnes'
        BY <1>1, <2>2, <2>3, BecomesTyped
    <2> QED
        BY <1>1, <1>10, <2>1, <2>4 DEF StoreIntegral, pidVars, LoopInv, TypeOK
<1>11. ASSUME NEW r \in reports, ReloadIntegral(r) PROVE LoopInv'
    <2>1. PICK next \in Stages : next = IF Derived(r.gap) THEN "compare" ELSE "note"
        BY DEF Stages
    <2>2. Becomes(r, [r EXCEPT !.stage = next, !.integral = integral])
        BY <1>11, <2>1 DEF ReloadIntegral
    <2>3. /\ [r EXCEPT !.stage = next, !.integral = integral] \in Reports
          /\ [r EXCEPT !.stage = next, !.integral = integral].phi = r.phi
        BY <1>1, <2>1 DEF Reports, Stages
    <2>4. reports' \subseteq Reports /\ AtLeastOnes'
        BY <1>1, <2>2, <2>3, BecomesTyped
    <2> QED
        BY <1>1, <1>11, <2>4 DEF ReloadIntegral, pidVars, LoopInv, TypeOK
<1>12. ASSUME NEW r \in reports, CompareError(r) PROVE LoopInv'
    <2>1. PICK change \in Int : change = Error(r) - lastError
        <3>1. Error(r) \in Int
            BY <1>1, ReportFields
        <3> QED BY <1>1, <3>1
    <2>2. Becomes(r, [r EXCEPT !.stage = "note", !.change = change])
        BY <1>12, <2>1 DEF CompareError
    <2>3. /\ [r EXCEPT !.stage = "note", !.change = change] \in Reports
          /\ [r EXCEPT !.stage = "note", !.change = change].phi = r.phi
        BY <1>1, <2>1 DEF Reports, Stages
    <2>4. reports' \subseteq Reports /\ AtLeastOnes'
        BY <1>1, <2>2, <2>3, BecomesTyped
    <2> QED
        BY <1>1, <1>12, <2>4 DEF CompareError, pidVars, LoopInv, TypeOK
<1>13. ASSUME NEW r \in reports, NoteError(r) PROVE LoopInv'
    <2>1. Error(r) \in Int /\ r.integral \in Int /\ r.change \in Int /\ r.gap \in Nat
          /\ r.id \in Nat /\ r.phi \in Nat
        BY <1>1, ReportFields
    <2>2. PICK output \in -OutputLimit..OutputLimit :
              output = PIDOutput(Error(r), r.integral, r.change, r.gap)
        BY <2>1, OutputLimited
    <2>3. PICK s : s = [Report(r.id, r.phi) EXCEPT !.stage = "apply", !.output = output]
        OBVIOUS
    <2>4. Becomes(r, s)
        BY <1>13, <2>2, <2>3 DEF NoteError
    <2>5. s \in Reports /\ s.phi = r.phi
        <3>1. s = [id |-> r.id, phi |-> r.phi, stage |-> "apply", gap |-> 0,
                   integral |-> 0, change |-> 0, output |-> output]
            BY <2>3 DEF Report
        <3> QED
            BY <2>1, <3>1 DEF Reports, Stages
    <2>6. reports' \subseteq Reports /\ AtLeastOnes'
        BY <1>1, <2>4, <2>5, BecomesTyped
    <2> QED
        BY <1>1, <1>13, <2>1, <2>6 DEF NoteError, LoopInv, TypeOK
<1>14. ASSUME NEW r \in reports, Apply(r) PROVE LoopInv'
    <2>1. r.output \in Int
        BY <1>1, ReportFields
    <2>2. MapOutputToCL(r.output) \in Levels
        BY <2>1, LevelsFollowTheOutput DEF Levels
    <2>3. reports' \subseteq Reports /\ AtLeastOnes'
        BY <1>1, <1>14 DEF Apply, AtLeastOnes
    <2> QED
        BY <1>1, <1>14, <2>2, <2>3 DEF Apply, pidVars, LoopInv, TypeOK
<1>15. CASE UNCHANGED vars
    BY <1>1, <1>2, <1>15 DEF vars, pidVars, LoopInv, TypeOK
<1> QED
    BY <1>4, <1>5, <1>6, <1>7, <1>8, <1>9, <1>10, <1>11, <1>12, <1>13, <1>14, <1>15
       DEF Next, Updating, Adjust, Rest

\* However the goroutines of checks and reports interleave, the ratio handed to
\* the controller is a natural number (pi/inspector.go:108-127), the output is
\* in its limits and the dispatcher gets a level it can use (ac.go:155-180).
THEOREM AdaptationTypes == SafeSpec => []TypeOK
<1>1. LoopInv => TypeOK
    BY DEF LoopInv
<1> QED
    BY <1>1, InitLoop, NextLoop, PTL DEF SafeSpec

\* No report has a ratio below 1.00, also where the optimum has no variance and
\* the clamp is passed by: no cost is negative (pi/inspector.go:108-127).
THEOREM NoRatioBelowOne == SafeSpec => []AtLeastOnes
<1>1. LoopInv => AtLeastOnes
    BY DEF LoopInv
<1> QED
    BY <1>1, InitLoop, NextLoop, PTL DEF SafeSpec

\* The two timelines of a judged history end in the same total, whatever was
\* pruned, in whatever order updates came and whatever the clock read (pi/inspector.go:233-322).
THEOREM TimelinesAlwaysMeet == SafeSpec => []TimelinesMeet
<1>1. LoopInv => TimelinesMeet
    BY SameTotal DEF LoopInv, TypeOK, TimelinesMeet
<1> QED
    BY <1>1, InitLoop, NextLoop, PTL DEF SafeSpec

\* Only a check makes a report that has read no time yet.
LEMMA NewReports ==
    ASSUME LoopInv, [Next]_vars, NEW r \in reports' \ reports, r.stage = "time"
    PROVE  Judged(history) /\ r.phi = Phi(history)
<1>1. ASSUME NEW s, NEW t \in reports, Becomes(t, s), s.stage # "time" PROVE FALSE
    BY <1>1 DEF Becomes
<1>2. reports' # reports /\ reports \subseteq Reports
    BY DEF LoopInv, TypeOK
<1>3. CASE \E id \in checks : Check(id)
    BY <1>3 DEF Check, Report
<1>4. CASE Updating
    BY <1>2, <1>4 DEF Updating, LocalUpdate, RemoteUpdate
<1>5. ASSUME NEW t \in reports, ReadTime(t) PROVE FALSE
    <2>1. PICK gap : Becomes(t, [t EXCEPT !.stage = "mark", !.gap = gap])
        BY <1>5 DEF ReadTime
    <2>2. [t EXCEPT !.stage = "mark", !.gap = gap].stage # "time"
        BY <1>2 DEF Reports
    <2> QED BY <1>1, <2>1, <2>2
<1>6. ASSUME NEW t \in reports, MarkTime(t) PROVE FALSE
    <2>1. Becomes(t, [t EXCEPT !.stage = "load"])
        BY <1>6 DEF MarkTime
    <2>2. [t EXCEPT !.stage = "load"].stage # "time"
        BY <1>2 DEF Reports
    <2> QED BY <1>1, <2>1, <2>2
<1>7. ASSUME NEW t \in reports, LoadIntegral(t) PROVE FALSE
    <2>1. PICK total : Becomes(t, [t EXCEPT !.stage = "store", !.integral = total])
        BY <1>7 DEF LoadIntegral
    <2>2. [t EXCEPT !.stage = "store", !.integral = total].stage # "time"
        BY <1>2 DEF Reports
    <2> QED BY <1>1, <2>1, <2>2
<1>8. ASSUME NEW t \in reports, StoreIntegral(t) PROVE FALSE
    <2>1. Becomes(t, [t EXCEPT !.stage = "reload"])
        BY <1>8 DEF StoreIntegral
    <2>2. [t EXCEPT !.stage = "reload"].stage # "time"
        BY <1>2 DEF Reports
    <2> QED BY <1>1, <2>1, <2>2
<1>9. ASSUME NEW t \in reports, ReloadIntegral(t) PROVE FALSE
    <2>1. PICK next \in {"compare", "note"} :
              Becomes(t, [t EXCEPT !.stage = next, !.integral = integral])
        BY <1>9 DEF ReloadIntegral
    <2>2. [t EXCEPT !.stage = next, !.integral = integral].stage # "time"
        BY <1>2 DEF Reports
    <2> QED BY <1>1, <2>1, <2>2
<1>10. ASSUME NEW t \in reports, CompareError(t) PROVE FALSE
    <2>1. PICK change : Becomes(t, [t EXCEPT !.stage = "note", !.change = change])
        BY <1>10 DEF CompareError
    <2>2. [t EXCEPT !.stage = "note", !.change = change].stage # "time"
        BY <1>2 DEF Reports
    <2> QED BY <1>1, <2>1, <2>2
<1>11. ASSUME NEW t \in reports, NoteError(t) PROVE FALSE
    <2>1. PICK output : Becomes(t, [Report(t.id, t.phi) EXCEPT !.stage = "apply", !.output = output])
        BY <1>11 DEF NoteError
    <2>2. [Report(t.id, t.phi) EXCEPT !.stage = "apply", !.output = output].stage # "time"
        BY DEF Report
    <2> QED BY <1>1, <2>1, <2>2
<1>12. ASSUME NEW t \in reports, Apply(t) PROVE FALSE
    BY <1>12 DEF Apply
<1>13. CASE UNCHANGED vars
    BY <1>2, <1>13 DEF vars
<1> QED
    BY <1>3, <1>4, <1>5, <1>6, <1>7, <1>8, <1>9, <1>10, <1>11, <1>12, <1>13 DEF Next, Adjust, Rest

\* A reported ratio above 1.00 comes of a history in which a local operation
\* follows a remote update, or the clock was put back (pi/inspector.go:89-127).
THEOREM RegretIsLate == SafeSpec => RegretNeedsLateness
<1> DEFINE late == \E i, j \in 1..Len(history) :
                       /\ i < j
                       /\ \/ history[i].remote /\ ~history[j].remote
                          \/ history[i].at > history[j].at
           step == \A r \in reports' \ reports : r.stage = "time" /\ r.phi > One => late
<1>1. ASSUME LoopInv, [Next]_vars PROVE step
    <2> SUFFICES ASSUME NEW r \in reports' \ reports, r.stage = "time", r.phi > One, ~late
                 PROVE  FALSE
        OBVIOUS
    <2>1. Judged(history) /\ r.phi = Phi(history)
        BY <1>1, NewReports
    <2>2. history \in Seq(Entries)
        BY <1>1 DEF LoopInv, TypeOK
    <2>3. \A i, j \in 1..Len(history) : i < j => ~ history[i].at > history[j].at
        OBVIOUS
    <2>4. \A i, j \in 1..Len(history) : i < j /\ history[i].remote => history[j].remote
        OBVIOUS
    <2>5. Phi(history) = One
        BY <2>1, <2>2, <2>3, <2>4, NothingLateNoRegret
    <2> QED
        BY <2>1, <2>5 DEF One
<1> HIDE DEF step
<1>2. SafeSpec => [][step]_vars
    BY <1>1, InitLoop, NextLoop, PTL DEF SafeSpec
<1> QED
    BY <1>2 DEF RegretNeedsLateness, step

\* Nothing selected is the empty sequence.
LEMMA SelectedNothing ==
    ASSUME NEW S, NEW entries \in Seq(S)
    PROVE  DOMAIN Selected(entries, {}) = {}
<1>1. {} \in SUBSET (1..Len(entries))
    OBVIOUS
<1>2. Cardinality({}) = 0
    BY FS_EmptySet
<1>3. Selected(entries, {}) \in Seq(S) /\ Len(Selected(entries, {})) = 0
    BY <1>1, <1>2, SelectedFrom
<1> QED
    BY <1>3, LenProperties

\* An update between whose origin and receipt this node did nothing is not
\* regretted.
LEMMA NothingBetweenNoRegret ==
    ASSUME NEW own \in Seq(Entries), NEW update \in [origin : Nat, receive : Nat, amount : Int],
           \A i \in DOMAIN own : /\ ~ (update.origin <= own[i].at /\ own[i].at < update.receive)
                                 /\ ~ (update.receive <= own[i].at /\ own[i].at < update.origin)
    PROVE  PhiWith(own, update) = One
<1> DEFINE early == {i \in DOMAIN own : own[i].at < update.receive}
           S == Entries \cup [origin : Nat, receive : Nat, amount : Int]
           known == Append(Before(own, update.receive), update)
           scaled == Scaled(10, known)
           redecided(late) == [i \in DOMAIN late |-> Redecided(late[i], update)]
<1>1. \A i \in DOMAIN own : own[i].at \in Int /\ update.origin \in Int /\ update.receive \in Int
    <2>1. \A i \in DOMAIN own : own[i].at \in Nat
        BY Sides
    <2>2. update.origin \in Nat /\ update.receive \in Nat
        OBVIOUS
    <2> QED BY <2>1, <2>2
<1>2. {i \in DOMAIN own : own[i].at < update.origin} = early
    BY <1>1
<1>3. Before(own, update.receive) = Selected(own, early)
    BY DEF Before
<1>4. Before(own, update.origin) = Before(own, update.receive)
    BY <1>2, <1>3 DEF Before
<1>5. Late(own, update) = Selected(own, {})
    <2>1. {i \in DOMAIN own : update.origin <= own[i].at /\ own[i].at < update.receive} = {}
        OBVIOUS
    <2> QED BY <2>1 DEF Late
<1>6. DOMAIN Late(own, update) = {}
    BY <1>5, SelectedNothing
<1>7. early \in SUBSET (1..Len(own))
    BY Sides
<1>8. Selected(own, early) \in Seq(Entries)
    <2> HIDE DEF early
    <2> QED BY <1>7, SelectedFrom
<1>9. Before(own, update.receive) \in Seq(S)
    <2>1. Entries \subseteq S
        OBVIOUS
    <2> HIDE DEF early, S
    <2> QED BY <1>3, <1>8, <2>1, SeqMonotonic
<1>10. \A e \in S : e.amount \in Int
    BY DEF Entries
<1>11. update \in S
    OBVIOUS
<1> HIDE DEF S
<1>12. known \in Seq(S) /\ Len(known) = Len(Before(own, update.receive)) + 1
       /\ Len(Before(own, update.receive)) \in Nat
    BY <1>9, <1>11
<1> HIDE DEF known
<1>13. PICK n \in Nat \ {0} : n = Len(known)
    BY <1>12
<1>14. DOMAIN known = 1..n /\ \A i \in 1..n : known[i] \in S
    BY <1>12, <1>13, LenProperties
<1>15. \A i \in 1..n : known[i].amount \in Int
    BY <1>10, <1>14
<1>16. scaled = [i \in 1..n |-> [amount |-> 10 * known[i].amount]]
    BY <1>14 DEF Scaled
<1>17. \A i \in 1..n : [amount |-> 10 * known[i].amount] \in [amount : Int]
    BY <1>15
<1>18. scaled \in Seq([amount : Int]) /\ Len(scaled) = n
    <2>1. scaled \in [1..n -> [amount : Int]]
        BY <1>16, <1>17
    <2> HIDE DEF scaled
    <2>2. scaled \in Seq([amount : Int])
        <3>1. n \in Nat /\ Seq([amount : Int]) = UNION {[1..k -> [amount : Int]] : k \in Nat}
            BY SeqDef
        <3>2. \E k \in Nat : scaled \in [1..k -> [amount : Int]]
            BY <2>1, <3>1
        <3> QED BY <3>1, <3>2, Zenon
    <2>3. DOMAIN scaled = 1..n /\ DOMAIN scaled = 1..Len(scaled) /\ Len(scaled) \in Nat
        BY <2>1, <2>2, LenProperties
    <2> QED BY <2>2, <2>3
<1>19. redecided(Late(own, update)) = << >>
    BY <1>6
<1>20. scaled \o << >> = scaled
    BY <1>18, ConcatEmptySeq
<1>21. SuboptimalWith(own, update) = RunningTotals(scaled)
    BY DEF SuboptimalWith, known
<1>22. OptimalWith(own, update) = RunningTotals(scaled \o redecided(Late(own, update)))
    BY <1>4 DEF OptimalWith, known
<1>23. \A i \in 1..n : scaled[i].amount \in Int
    <2> HIDE DEF scaled
    <2>1. \A i \in 1..n : scaled[i] \in [amount : Int]
        BY <1>18, LenProperties
    <2> QED BY <2>1
<1> HIDE DEF scaled, redecided
<1>24. OptimalWith(own, update) = RunningTotals(scaled)
    BY <1>19, <1>20, <1>22
<1>25. RunningTotals(scaled) \in Seq(Int) /\ Len(RunningTotals(scaled)) = n
    BY <1>18, <1>23, TotalsAreIntegers
<1>26. 10 \in Nat \ {0}
    OBVIOUS
<1>27. Ratio(RunningTotals(scaled), RunningTotals(scaled), 10) = One
    BY <1>25, <1>26, RatioOfEquals
<1> QED
    BY <1>21, <1>24, <1>27 DEF PhiWith

\* The check with a remote update reports a ratio above 1.00 only if this node
\* did something between the update's origin and its receipt, in whichever order
\* the two clocks put them (pi/inspector.go:156-183).
THEOREM RegretAlwaysBetween == SafeSpec => []RegretLiesBetween
<1>1. LoopInv => RegretLiesBetween
    <2> SUFFICES ASSUME LoopInv, NEW update \in Given,
                        PhiWith(LocalEntries(history), update) > One,
                        ~ \E i \in DOMAIN LocalEntries(history) :
                              \/ /\ update.origin <= LocalEntries(history)[i].at
                                 /\ LocalEntries(history)[i].at < update.receive
                              \/ /\ update.receive <= LocalEntries(history)[i].at
                                 /\ LocalEntries(history)[i].at < update.origin
                 PROVE  FALSE
        BY DEF RegretLiesBetween
    <2>1. LocalEntries(history) \in Seq(Entries)
        BY Sides DEF LoopInv, TypeOK
    <2>2. update \in [origin : Nat, receive : Nat, amount : Int]
        <3>1. update \in [origin : Times, receive : Times, amount : Amounts]
            BY DEF Given
        <3> QED BY <3>1, InputsAssumption
    <2>3. PhiWith(LocalEntries(history), update) = One
        BY <2>1, <2>2, NothingBetweenNoRegret
    <2> QED
        BY <2>3 DEF One
<1> QED
    BY <1>1, InitLoop, NextLoop, PTL DEF SafeSpec
=============================================================================
