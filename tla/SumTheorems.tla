----------------------------- MODULE SumTheorems -----------------------------
(***************************************************************************)
(* Facts about SumFunction, the sum of a function's values, for functions  *)
(* from a finite set to the integers.  SumFunction is a recursive function *)
(* over the subsets of the domain; that such a function exists is shown by *)
(* giving one: a sum of natural numbers is the number of its units.        *)
(***************************************************************************)
EXTENDS Integers, FiniteSets, Functions, FiniteSetTheorems, WellFoundedInduction, TLAPS

\* The units of an element, of the elements of S, and how many those are.
UnitsOf(f, x) == {x} \X (1..f[x])
Units(f, S) == UNION {UnitsOf(f, x) : x \in S}
Count(f, S) == Cardinality(Units(f, S))

\* The units of one element are as many as its value.
LEMMA UnitsOfFinite ==
    ASSUME NEW D, NEW f \in [D -> Nat], NEW x \in D
    PROVE  IsFiniteSet(UnitsOf(f, x)) /\ Cardinality(UnitsOf(f, x)) = f[x]
<1>1. f[x] \in Nat
    OBVIOUS
<1>2. IsFiniteSet(1..f[x]) /\ Cardinality(1..f[x]) = f[x]
    BY <1>1, FS_Interval
<1>3. IsFiniteSet({x}) /\ Cardinality({x}) = 1
    BY FS_Singleton
<1>4. PICK one, range : one = {x} /\ range = 1..f[x]
    OBVIOUS
<1>5. IsFiniteSet(one \X range) /\ Cardinality(one \X range) = Cardinality(one) * Cardinality(range)
    BY <1>2, <1>3, <1>4, FS_Product
<1>6. Cardinality(one) * Cardinality(range) = f[x]
    BY <1>1, <1>2, <1>3, <1>4
<1>7. UnitsOf(f, x) = one \X range
    BY <1>4 DEF UnitsOf
<1> QED
    BY <1>5, <1>6, <1>7

\* Finitely many elements have finitely many units.
LEMMA UnitsFinite ==
    ASSUME NEW D, NEW f \in [D -> Nat], NEW S \in SUBSET D, IsFiniteSet(S)
    PROVE  IsFiniteSet(Units(f, S)) /\ Count(f, S) \in Nat
<1> DEFINE parts == {UnitsOf(f, x) : x \in S}
           part == [x \in S |-> UnitsOf(f, x)]
<1>1. part \in Surjection(S, parts)
    BY DEF Surjection
<1>2. IsFiniteSet(parts)
    BY <1>1, FS_Surjection
<1>3. \A p \in parts : IsFiniteSet(p)
    BY UnitsOfFinite
<1>4. IsFiniteSet(Units(f, S))
    BY <1>2, <1>3, FS_UNION DEF Units
<1> QED
    BY <1>4, FS_CardinalityType DEF Count

\* The units of one element are none of the others'.
LEMMA CountTake ==
    ASSUME NEW D, NEW f \in [D -> Nat], NEW S \in SUBSET D, IsFiniteSet(S), NEW x \in S
    PROVE  Count(f, S) = f[x] + Count(f, S \ {x})
<1>1. Units(f, S) = UnitsOf(f, x) \cup Units(f, S \ {x})
    BY DEF Units
<1>2. UnitsOf(f, x) \cap Units(f, S \ {x}) = {}
    BY DEF Units, UnitsOf
<1>3. IsFiniteSet(S \ {x}) /\ S \ {x} \in SUBSET D
    BY FS_RemoveElement
<1>4. IsFiniteSet(Units(f, S \ {x})) /\ Count(f, S \ {x}) \in Nat
    BY <1>3, UnitsFinite
<1>5. IsFiniteSet(UnitsOf(f, x)) /\ Cardinality(UnitsOf(f, x)) = f[x] /\ f[x] \in Nat
    BY UnitsOfFinite
<1>6. Cardinality({}) = 0
    BY FS_EmptySet
<1> DEFINE one == UnitsOf(f, x)
           others == Units(f, S \ {x})
<1>7. one \cup others = Units(f, S) /\ one \cap others = {}
    BY <1>1, <1>2
<1>8. IsFiniteSet(one) /\ IsFiniteSet(others) /\ Cardinality(one) = f[x]
      /\ Cardinality(others) = Count(f, S \ {x})
    BY <1>4, <1>5 DEF Count
<1> HIDE DEF one, others
<1>9. Cardinality(one \cup others) = Cardinality(one) + Cardinality(others) - Cardinality(one \cap others)
    BY <1>8, FS_Union
<1>10. Cardinality(one \cup others) = Count(f, S) /\ Cardinality(one \cap others) = 0
    BY <1>6, <1>7 DEF Count
<1> QED
    BY <1>4, <1>5, <1>8, <1>9, <1>10

\* Nothing has no units.
LEMMA CountNone ==
    ASSUME NEW f
    PROVE  Count(f, {}) = 0
<1>1. Units(f, {}) = {}
    BY DEF Units
<1> QED
    BY <1>1, FS_EmptySet DEF Count

\* An integer is the difference of two natural numbers.
Positive(f) == [x \in DOMAIN f |-> IF f[x] > 0 THEN f[x] ELSE 0]
Negative(f) == [x \in DOMAIN f |-> IF f[x] < 0 THEN -f[x] ELSE 0]
Tally(f, S) == Count(Positive(f), S) - Count(Negative(f), S)

\* A tally is an integer, and any one element may be counted apart.
LEMMA TallyTake ==
    ASSUME NEW D, NEW f \in [D -> Int], NEW S \in SUBSET D, IsFiniteSet(S)
    PROVE  /\ Tally(f, S) \in Int
           /\ \A x \in S : Tally(f, S) = f[x] + Tally(f, S \ {x})
<1>1. Positive(f) \in [D -> Nat] /\ Negative(f) \in [D -> Nat]
    BY DEF Positive, Negative
<1>2. Count(Positive(f), S) \in Nat /\ Count(Negative(f), S) \in Nat
    BY <1>1, UnitsFinite
<1>3. ASSUME NEW x \in S PROVE Tally(f, S) = f[x] + Tally(f, S \ {x})
    <2>1. IsFiniteSet(S \ {x}) /\ S \ {x} \in SUBSET D
        BY FS_RemoveElement
    <2>2. Count(Positive(f), S \ {x}) \in Nat /\ Count(Negative(f), S \ {x}) \in Nat
        BY <1>1, <2>1, UnitsFinite
    <2>3. /\ Count(Positive(f), S) = Positive(f)[x] + Count(Positive(f), S \ {x})
          /\ Count(Negative(f), S) = Negative(f)[x] + Count(Negative(f), S \ {x})
        BY <1>1, CountTake
    <2>4. f[x] \in Int /\ f[x] = Positive(f)[x] - Negative(f)[x]
          /\ Positive(f)[x] \in Nat /\ Negative(f)[x] \in Nat
        BY DEF Positive, Negative
    <2> QED
        BY <2>2, <2>3, <2>4 DEF Tally
<1> QED
    BY <1>2, <1>3 DEF Tally

\* The recursion in SumFunction.
Chosen(S) == CHOOSE x \in S : TRUE
Recursion(f, it) == [S \in SUBSET DOMAIN f |-> IF S = {} THEN 0 ELSE f[Chosen(S)] + it[S \ {Chosen(S)}]]
PartialSums(f) == CHOOSE it : it = Recursion(f, it)

\* What the fold of the library stands for.
LEMMA SumUnfolded ==
    ASSUME NEW f
    PROVE  SumFunction(f) = PartialSums(f)[DOMAIN f]
BY DEF PartialSums, Recursion, Chosen, SumFunction, SumFunctionOnSet, FoldFunctionOnSet, MapThenFoldSet

\* The tallies of the subsets satisfy the recursion.
LEMMA TallyIsRecursive ==
    ASSUME NEW D, IsFiniteSet(D), NEW f \in [D -> Int]
    PROVE  LET it == [S \in SUBSET D |-> Tally(f, S)] IN it = Recursion(f, it)
<1> DEFINE it == [S \in SUBSET D |-> Tally(f, S)]
<1> SUFFICES ASSUME NEW S \in SUBSET D
             PROVE  Tally(f, S) = IF S = {} THEN 0 ELSE f[Chosen(S)] + Tally(f, S \ {Chosen(S)})
    BY DEF Recursion
<1>1. CASE S = {}
    BY <1>1, CountNone DEF Tally
<1>2. CASE S # {}
    <2>1. Chosen(S) \in S
        BY <1>2 DEF Chosen
    <2>2. IsFiniteSet(S)
        BY FS_Subset
    <2> QED
        BY <1>2, <2>1, <2>2, TallyTake
<1> QED
    BY <1>1, <1>2

\* Only one function does, so that the sum is the tally.
LEMMA SumIsTally ==
    ASSUME NEW D, IsFiniteSet(D), NEW f \in [D -> Int]
    PROVE  SumFunction(f) = Tally(f, D)
<1> DEFINE it == [S \in SUBSET D |-> Tally(f, S)]
           sums == PartialSums(f)
           wrong == {S \in SUBSET D : sums[S] # it[S]}
<1>1. it = Recursion(f, it)
    BY TallyIsRecursive
<1>2. sums = Recursion(f, sums)
    BY <1>1 DEF PartialSums
<1>3. wrong = {}
    <2> SUFFICES ASSUME wrong # {} PROVE FALSE
        OBVIOUS
    <2>1. IsWellFoundedOn(StrictSubsetOrdering(D), SUBSET D)
        BY FS_StrictSubsetOrderingWellFounded, FS_FiniteSubsetsOfFinite
    <2>2. PICK S \in wrong : \A T \in wrong : ~ (<<T, S>> \in StrictSubsetOrdering(D))
        <3> HIDE DEF wrong
        <3>1. wrong \subseteq SUBSET D
            BY DEF wrong
        <3> QED
            BY <2>1, <3>1, WFMin
    <2>3. S \in SUBSET D /\ sums[S] # it[S]
        OBVIOUS
    <2>4. /\ sums[S] = IF S = {} THEN 0 ELSE f[Chosen(S)] + sums[S \ {Chosen(S)}]
          /\ it[S] = IF S = {} THEN 0 ELSE f[Chosen(S)] + it[S \ {Chosen(S)}]
        <3> HIDE DEF sums, it
        <3>1. DOMAIN f = D
            OBVIOUS
        <3>2. \A g : g = Recursion(f, g) => g[S] = IF S = {} THEN 0 ELSE f[Chosen(S)] + g[S \ {Chosen(S)}]
            BY <2>3, <3>1 DEF Recursion
        <3> QED
            BY <1>1, <1>2, <3>2
    <2>5. S # {} /\ Chosen(S) \in S
        BY <2>3, <2>4 DEF Chosen
    <2>6. S \ {Chosen(S)} \in wrong
        <3> HIDE DEF sums, it
        <3> QED BY <2>3, <2>4, <2>5
    <2>7. <<S \ {Chosen(S)}, S>> \in StrictSubsetOrdering(D)
        BY <2>3, <2>5 DEF StrictSubsetOrdering
    <2> QED
        BY <2>2, <2>6, <2>7
<1>4. DOMAIN f = D /\ D \in SUBSET D
    OBVIOUS
<1> QED
    BY <1>3, <1>4, SumUnfolded

-----------------------------------------------------------------------------
(* What the proofs about the components use.                               *)

\* Only the values on S matter.
LEMMA TallyDependsOn ==
    ASSUME NEW D, NEW E, NEW f \in [D -> Int], NEW g \in [E -> Int], NEW S,
           S \subseteq D, S \subseteq E, \A x \in S : f[x] = g[x]
    PROVE  Tally(f, S) = Tally(g, S)
<1>1. \A x \in S : Positive(f)[x] = Positive(g)[x] /\ Negative(f)[x] = Negative(g)[x]
    BY DEF Positive, Negative
<1>2. \A x \in S : UnitsOf(Positive(f), x) = UnitsOf(Positive(g), x)
    BY <1>1 DEF UnitsOf
<1>3. \A x \in S : UnitsOf(Negative(f), x) = UnitsOf(Negative(g), x)
    BY <1>1 DEF UnitsOf
<1>4. Units(Positive(f), S) = Units(Positive(g), S)
    BY <1>2 DEF Units
<1>5. Units(Negative(f), S) = Units(Negative(g), S)
    BY <1>3 DEF Units
<1> QED
    BY <1>4, <1>5 DEF Tally, Count

\* A sum of integers is one.
LEMMA SumType ==
    ASSUME NEW D, IsFiniteSet(D), NEW f \in [D -> Int]
    PROVE  SumFunction(f) \in Int
<1>1. D \in SUBSET D
    OBVIOUS
<1> QED
    BY <1>1, SumIsTally, TallyTake

\* Nothing adds up to zero.
LEMMA SumNothing ==
    ASSUME NEW f \in [{} -> Int]
    PROVE  SumFunction(f) = 0
<1>1. SumFunction(f) = Tally(f, {})
    BY SumIsTally, FS_EmptySet
<1> QED
    BY <1>1, CountNone DEF Tally

\* One element may be counted apart from the others.
LEMMA SumTake ==
    ASSUME NEW D, IsFiniteSet(D), NEW f \in [D -> Int], NEW x \in D, NEW E, E = D \ {x},
           NEW g \in [E -> Int], \A y \in E : g[y] = f[y]
    PROVE  SumFunction(f) = f[x] + SumFunction(g)
<1>1. D \in SUBSET D
    OBVIOUS
<1>2. SumFunction(f) = Tally(f, D) /\ Tally(f, D) = f[x] + Tally(f, D \ {x})
    BY <1>1, SumIsTally, TallyTake
<1>3. IsFiniteSet(E)
    BY FS_RemoveElement
<1>4. SumFunction(g) = Tally(g, E)
    BY <1>3, SumIsTally
<1>5. Tally(g, E) = Tally(f, E)
    BY TallyDependsOn
<1> QED
    BY <1>2, <1>4, <1>5

\* When one value changes, the sum changes by as much.
LEMMA SumChange ==
    ASSUME NEW D, IsFiniteSet(D), NEW f \in [D -> Int], NEW g \in [D -> Int],
           NEW x \in D, \A y \in D : y # x => g[y] = f[y]
    PROVE  SumFunction(g) = SumFunction(f) - f[x] + g[x]
<1> DEFINE rest == [y \in D \ {x} |-> f[y]]
<1>1. rest \in [D \ {x} -> Int] /\ \A y \in D \ {x} : rest[y] = f[y] /\ rest[y] = g[y]
    OBVIOUS
<1>2. IsFiniteSet(D \ {x})
    BY FS_RemoveElement
<1> HIDE DEF rest
<1>3. SumFunction(f) = f[x] + SumFunction(rest)
    BY <1>1, SumTake
<1>4. SumFunction(g) = g[x] + SumFunction(rest)
    BY <1>1, SumTake
<1>5. SumFunction(rest) \in Int /\ f[x] \in Int /\ g[x] \in Int
    BY <1>1, <1>2, SumType
<1> QED
    BY <1>3, <1>4, <1>5

\* A function that is zero everywhere adds up to zero.
LEMMA SumZeros ==
    ASSUME NEW D, IsFiniteSet(D), NEW f \in [D -> Int], \A x \in D : f[x] = 0
    PROVE  SumFunction(f) = 0
<1>1. \A x \in D : UnitsOf(Positive(f), x) = {} /\ UnitsOf(Negative(f), x) = {}
    BY DEF UnitsOf, Positive, Negative
<1>2. Units(Positive(f), D) = {} /\ Units(Negative(f), D) = {}
    BY <1>1 DEF Units
<1> QED
    BY <1>2, SumIsTally, FS_EmptySet DEF Tally, Count

\* Where no value is negative, the sum is not, and no value exceeds it.
LEMMA SumNat ==
    ASSUME NEW D, IsFiniteSet(D), NEW f \in [D -> Nat]
    PROVE  /\ SumFunction(f) \in Nat
           /\ \A x \in D : f[x] <= SumFunction(f)
<1>1. f \in [D -> Int]
    OBVIOUS
<1>2. Positive(f) = f
    BY DEF Positive
<1>3. Count(Negative(f), D) = 0
    <2>1. \A x \in D : UnitsOf(Negative(f), x) = {}
        BY DEF UnitsOf, Negative
    <2>2. Units(Negative(f), D) = {}
        BY <2>1 DEF Units
    <2> QED
        BY <2>2, FS_EmptySet DEF Count
<1>4. D \in SUBSET D
    OBVIOUS
<1>5. Count(f, D) \in Nat
    BY <1>4, UnitsFinite
<1>6. SumFunction(f) = Count(f, D)
    BY <1>1, <1>2, <1>3, <1>5, SumIsTally DEF Tally
<1>7. ASSUME NEW x \in D PROVE f[x] <= Count(f, D)
    <2>1. Count(f, D) = f[x] + Count(f, D \ {x})
        BY <1>4, CountTake
    <2>2. Count(f, D \ {x}) \in Nat
        BY FS_RemoveElement, UnitsFinite
    <2>3. f[x] \in Nat
        OBVIOUS
    <2> QED
        BY <2>1, <2>2, <2>3
<1> QED
    BY <1>5, <1>6, <1>7

\* The values may be added up under other names.
LEMMA UnitsRenamed ==
    ASSUME NEW D, NEW E, IsFiniteSet(E), NEW p \in Bijection(E, D),
           NEW f \in [D -> Nat], NEW g \in [E -> Nat], \A x \in E : g[x] = f[p[x]]
    PROVE  Count(g, E) = Count(f, D)
<1> DEFINE renamed == [u \in Units(g, E) |-> <<p[u[1]], u[2]>>]
<1>1. p \in [E -> D] /\ \A x, y \in E : p[x] = p[y] => x = y
    BY DEF Bijection, Injection, IsInjective
<1>2. \A y \in D : \E x \in E : p[x] = y
    BY DEF Bijection, Surjection
<1>3. \A u : u \in Units(g, E) <=> \E x \in E : \E n \in 1..g[x] : u = <<x, n>>
    BY DEF Units, UnitsOf
<1>4. \A u : u \in Units(f, D) <=> \E y \in D : \E n \in 1..f[y] : u = <<y, n>>
    BY DEF Units, UnitsOf
<1>5. renamed \in [Units(g, E) -> Units(f, D)]
    BY <1>1, <1>3, <1>4
<1>6. ASSUME NEW u \in Units(g, E), NEW v \in Units(g, E), renamed[u] = renamed[v]
      PROVE  u = v
    BY <1>1, <1>3, <1>6
<1>7. ASSUME NEW v \in Units(f, D) PROVE \E u \in Units(g, E) : renamed[u] = v
    <2>1. PICK y \in D, n \in Nat : n \in 1..f[y] /\ v = <<y, n>>
        BY <1>4
    <2>2. PICK x \in E : p[x] = y
        BY <1>2
    <2>3. <<x, n>> \in Units(g, E)
        BY <1>3, <2>1, <2>2
    <2>4. renamed[<<x, n>>] = v
        BY <2>1, <2>2, <2>3
    <2> QED
        BY <2>3, <2>4
<1>8. renamed \in Bijection(Units(g, E), Units(f, D))
    <2> HIDE DEF renamed
    <2> QED BY <1>5, <1>6, <1>7 DEF Bijection, Injection, IsInjective, Surjection
<1>9. E \in SUBSET E
    OBVIOUS
<1>10. IsFiniteSet(Units(g, E))
    BY <1>9, UnitsFinite
<1> QED
    BY <1>8, <1>10, FS_Bijection DEF ExistsBijection, Count

LEMMA SumRenamed ==
    ASSUME NEW D, IsFiniteSet(D), NEW E, IsFiniteSet(E), NEW p \in Bijection(E, D),
           NEW f \in [D -> Int], NEW g \in [E -> Int], \A x \in E : g[x] = f[p[x]]
    PROVE  SumFunction(g) = SumFunction(f)
<1>1. p \in [E -> D]
    BY DEF Bijection, Injection
<1>2. /\ Positive(f) \in [D -> Nat] /\ Positive(g) \in [E -> Nat]
      /\ Negative(f) \in [D -> Nat] /\ Negative(g) \in [E -> Nat]
    BY DEF Positive, Negative
<1>3. \A x \in E : /\ Positive(g)[x] = Positive(f)[p[x]]
                   /\ Negative(g)[x] = Negative(f)[p[x]]
    BY <1>1 DEF Positive, Negative
<1>4. Count(Positive(g), E) = Count(Positive(f), D)
    BY <1>2, <1>3, UnitsRenamed
<1>5. Count(Negative(g), E) = Count(Negative(f), D)
    BY <1>2, <1>3, UnitsRenamed
<1> QED
    BY <1>4, <1>5, SumIsTally DEF Tally

\* The last value may be counted apart.
LEMMA SumTakeLast ==
    ASSUME NEW n \in Nat, NEW f \in [1..(n + 1) -> Int], NEW g \in [1..n -> Int],
           \A i \in 1..n : g[i] = f[i]
    PROVE  SumFunction(f) = f[n + 1] + SumFunction(g)
<1>1. 1 \in Int /\ n \in Int /\ n + 1 \in Int
    OBVIOUS
<1>2. IsFiniteSet(1..n) /\ IsFiniteSet(1..(n + 1))
    BY <1>1, FS_Interval
<1>3. SumFunction(f) = Tally(f, 1..(n + 1))
    BY <1>2, SumIsTally
<1>4. SumFunction(g) = Tally(g, 1..n)
    BY <1>2, SumIsTally
<1>5. 1..(n + 1) \in SUBSET (1..(n + 1)) /\ n + 1 \in 1..(n + 1)
    OBVIOUS
<1>6. Tally(f, 1..(n + 1)) = f[n + 1] + Tally(f, (1..(n + 1)) \ {n + 1})
    BY <1>2, <1>5, TallyTake
<1>7. (1..(n + 1)) \ {n + 1} = 1..n
    OBVIOUS
<1>8. 1..n \subseteq 1..n /\ 1..n \subseteq 1..(n + 1)
    OBVIOUS
<1>9. Tally(g, 1..n) = Tally(f, 1..n)
    <2>1. PICK D, E : D = 1..(n + 1) /\ E = 1..n
        OBVIOUS
    <2>2. f \in [D -> Int] /\ g \in [E -> Int] /\ E \subseteq E /\ E \subseteq D /\ \A i \in E : g[i] = f[i]
        BY <1>8, <2>1
    <2>3. Tally(g, E) = Tally(f, E)
        BY <2>2, TallyDependsOn, SMTT(60)
    <2> QED
        BY <2>1, <2>3
<1> QED
    BY <1>3, <1>4, <1>6, <1>7, <1>9

\* The difference of two sums depends only on the differences of the values: a
\* smallest set on which it did not would have an element to leave out.
LEMMA SumDifferences ==
    ASSUME NEW D, IsFiniteSet(D), NEW f \in [D -> Int], NEW g \in [D -> Int],
           NEW h \in [D -> Int], NEW k \in [D -> Int], \A x \in D : f[x] - g[x] = h[x] - k[x]
    PROVE  SumFunction(f) - SumFunction(g) = SumFunction(h) - SumFunction(k)
<1> DEFINE Agree(S) == Tally(f, S) - Tally(g, S) = Tally(h, S) - Tally(k, S)
           wrong == {n \in Nat : \E S \in SUBSET D : Cardinality(S) = n /\ ~Agree(S)}
<1>1. ASSUME NEW S \in SUBSET D
      PROVE  /\ IsFiniteSet(S) /\ Cardinality(S) \in Nat
             /\ Tally(f, S) \in Int /\ Tally(g, S) \in Int /\ Tally(h, S) \in Int /\ Tally(k, S) \in Int
    BY FS_Subset, FS_CardinalityType, TallyTake
<1>2. Agree({})
    BY CountNone DEF Tally
<1>3. ASSUME NEW S \in SUBSET D, NEW x \in S, Agree(S \ {x}) PROVE Agree(S)
    <2>1. S \ {x} \in SUBSET D
        OBVIOUS
    <2>2. /\ Tally(f, S) = f[x] + Tally(f, S \ {x}) /\ Tally(g, S) = g[x] + Tally(g, S \ {x})
          /\ Tally(h, S) = h[x] + Tally(h, S \ {x}) /\ Tally(k, S) = k[x] + Tally(k, S \ {x})
        BY <1>1, TallyTake
    <2>3. f[x] - g[x] = h[x] - k[x] /\ f[x] \in Int /\ g[x] \in Int /\ h[x] \in Int /\ k[x] \in Int
        OBVIOUS
    <2> QED
        BY <1>1, <1>3, <2>1, <2>2, <2>3
<1> HIDE DEF Agree
<1>4. wrong = {}
    <2> SUFFICES ASSUME wrong # {} PROVE FALSE
        OBVIOUS
    <2>1. PICK n \in wrong : \A m \in wrong : ~(<<m, n>> \in OpToRel(<, Nat))
        <3>1. wrong \subseteq Nat
            OBVIOUS
        <3> HIDE DEF wrong
        <3> QED
            BY <3>1, NatLessThanWellFounded, WFMin
    <2>2. PICK S \in SUBSET D : Cardinality(S) = n /\ ~Agree(S)
        BY <2>1
    <2>3. PICK x \in S : TRUE
        BY <1>2, <2>2
    <2>4. S \ {x} \in SUBSET D /\ Cardinality(S \ {x}) = n - 1 /\ n - 1 \in Nat /\ n \in Nat
        <3>1. IsFiniteSet(S) /\ Cardinality(S) = n
            BY <1>1, <2>2
        <3>2. Cardinality(S \ {x}) = n - 1 /\ IsFiniteSet(S \ {x})
            BY <3>1, <2>3, FS_RemoveElement
        <3>3. Cardinality(S \ {x}) \in Nat /\ n \in Nat
            BY <3>2, <2>1, FS_CardinalityType
        <3> QED
            BY <3>2, <3>3
    <2>5. n - 1 \notin wrong
        <3>1. <<n - 1, n>> \in OpToRel(<, Nat)
            BY <2>4 DEF OpToRel
        <3> HIDE DEF wrong
        <3> QED
            BY <2>1, <3>1
    <2>6. Agree(S \ {x})
        BY <2>4, <2>5
    <2> QED
        BY <1>3, <2>2, <2>3, <2>6
<1>5. Agree(D)
    <2>1. D \in SUBSET D
        OBVIOUS
    <2> QED
        BY <1>1, <1>4, <2>1
<1> QED
    BY <1>5, SumIsTally DEF Agree

\* A sum of larger values is larger.
LEMMA SumMonotone ==
    ASSUME NEW D, IsFiniteSet(D), NEW f \in [D -> Int], NEW g \in [D -> Int],
           \A x \in D : f[x] <= g[x]
    PROVE  SumFunction(f) <= SumFunction(g)
<1> DEFINE more == [x \in D |-> g[x] - f[x]]
           none == [x \in D |-> 0]
<1>1. more \in [D -> Nat] /\ none \in [D -> Int]
    OBVIOUS
<1>2. \A x \in D : g[x] - f[x] = more[x] - none[x] /\ none[x] = 0
    OBVIOUS
<1> HIDE DEF more, none
<1>3. SumFunction(more) \in Nat /\ SumFunction(none) = 0
    BY <1>1, <1>2, SumNat, SumZeros
<1>4. more \in [D -> Int]
    BY <1>1
<1>5. SumFunction(g) - SumFunction(f) = SumFunction(more) - SumFunction(none)
    BY <1>1, <1>2, <1>4, SumDifferences
<1>6. SumFunction(f) \in Int /\ SumFunction(g) \in Int
    BY SumType
<1> QED
    BY <1>3, <1>5, <1>6

\* Where each value makes up for another function's, so does the sum.
LEMMA SumsCover ==
    ASSUME NEW D, IsFiniteSet(D), NEW f \in [D -> Int], NEW g \in [D -> Int],
           \A x \in D : -f[x] <= g[x]
    PROVE  SumFunction(f) + SumFunction(g) >= 0
<1> DEFINE h == [x \in D |-> -f[x]]
<1>1. h \in [D -> Int] /\ \A x \in D : h[x] <= g[x]
    OBVIOUS
<1>2. SumFunction(h) = -SumFunction(f)
    <2>1. D \in SUBSET D /\ DOMAIN f = D /\ DOMAIN h = D
        OBVIOUS
    <2>2. Positive(h) = Negative(f) /\ Negative(h) = Positive(f)
        <3>1. \A x \in D : f[x] \in Int /\ h[x] = -f[x]
            OBVIOUS
        <3>2. \A x \in D : h[x] > 0 <=> f[x] < 0
            BY <3>1
        <3>3. \A x \in D : h[x] < 0 <=> f[x] > 0
            BY <3>1
        <3>4. \A x \in D : -h[x] = f[x]
            BY <3>1
        <3> HIDE DEF h
        <3> QED
            BY <2>1, <3>1, <3>2, <3>3, <3>4 DEF Positive, Negative
    <2>3. Count(Positive(f), D) \in Nat /\ Count(Negative(f), D) \in Nat
        <3>1. Positive(f) \in [D -> Nat] /\ Negative(f) \in [D -> Nat]
            BY DEF Positive, Negative
        <3> QED
            BY <2>1, <3>1, UnitsFinite
    <2>4. SumFunction(f) = Tally(f, D) /\ SumFunction(h) = Tally(h, D)
        BY <1>1, SumIsTally
    <2> QED
        BY <2>2, <2>3, <2>4 DEF Tally
<1>3. SumFunction(f) \in Int /\ SumFunction(g) \in Int /\ SumFunction(h) \in Int
    BY <1>1, SumType
<1>4. SumFunction(h) <= SumFunction(g)
    <2> HIDE DEF h
    <2> QED
        BY <1>1, SumMonotone
<1> QED
    BY <1>2, <1>3, <1>4

\* The same value everywhere is counted once for every element.
LEMMA SumConstant ==
    ASSUME NEW D, IsFiniteSet(D), NEW c \in Nat
    PROVE  SumFunction([x \in D |-> c]) = Cardinality(D) * c
<1> DEFINE all == [x \in D |-> c]
<1>1. all \in [D -> Int] /\ \A x \in D : all[x] = c
    OBVIOUS
<1>2. \A x \in D : Positive(all)[x] = c /\ Negative(all)[x] = 0
    BY DEF Positive, Negative
<1> HIDE DEF all
<1>3. Units(Positive(all), D) = D \X (1..c)
    BY <1>2 DEF Units, UnitsOf
<1>4. Units(Negative(all), D) = {}
    BY <1>2 DEF Units, UnitsOf
<1>5. IsFiniteSet(1..c) /\ Cardinality(1..c) = c
    BY FS_Interval
<1>6. Cardinality(D \X (1..c)) = Cardinality(D) * c
    BY <1>5, FS_Product
<1>7. Cardinality(D) * c \in Nat
    BY FS_CardinalityType
<1>8. Count(Positive(all), D) = Cardinality(D) * c /\ Count(Negative(all), D) = 0
    BY <1>3, <1>4, <1>6, FS_EmptySet DEF Count
<1>9. SumFunction(all) = Cardinality(D) * c
    BY <1>1, <1>7, <1>8, SumIsTally DEF Tally
<1> QED
    BY <1>9 DEF all

\* No value is above c, and one is known.
LEMMA SumBound ==
    ASSUME NEW D, IsFiniteSet(D), NEW c \in Nat, NEW f \in [D -> Int], \A y \in D : f[y] <= c, NEW x \in D
    PROVE  SumFunction(f) <= f[x] + (Cardinality(D) - 1) * c
<1> DEFINE all == [y \in D |-> c]
           most == [y \in D |-> IF y = x THEN f[x] ELSE c]
<1>1. /\ all \in [D -> Int] /\ most \in [D -> Int] /\ all[x] = c /\ most[x] = f[x]
      /\ \A y \in D : y # x => most[y] = all[y]
      /\ \A y \in D : f[y] <= most[y]
    OBVIOUS
<1>2. SumFunction(all) = Cardinality(D) * c
    BY SumConstant
<1> HIDE DEF all, most
<1>3. SumFunction(most) = SumFunction(all) - all[x] + most[x]
    BY <1>1, SumChange
<1>4. SumFunction(f) <= SumFunction(most)
    BY <1>1, SumMonotone
<1>5. SumFunction(f) \in Int /\ f[x] \in Int
    BY SumType
<1>6. Cardinality(D) \in Nat
    BY FS_CardinalityType
<1>7. (Cardinality(D) - 1) * c = Cardinality(D) * c - c /\ Cardinality(D) * c \in Int
    BY <1>6
<1> QED
    BY <1>1, <1>2, <1>3, <1>4, <1>5, <1>7
=============================================================================
