------------------------ MODULE CounterReplicasProofs ------------------------
(***************************************************************************)
(* The merge of the counter is the least upper bound of a lattice, and so  *)
(* no replica of CounterReplicas ever runs ahead of an entry's owner or    *)
(* forgets what it has seen, and replicas that have seen everything agree, *)
(* for any set of replicas and any number of operations.                   *)
(***************************************************************************)
EXTENDS CounterReplicas, TLAPS

\* Merging stays within the maps.
LEMMA MergeType ==
    ASSUME NEW a \in Maps, NEW b \in Maps
    PROVE  MergeMap(a, b) \in Maps
BY DEF MergeMap, Maps

\* The order in which two states are merged does not matter.
LEMMA MergeCommutes ==
    ASSUME NEW a \in Maps, NEW b \in Maps
    PROVE  MergeMap(a, b) = MergeMap(b, a)
<1>1. \A n \in Nodes : (IF b[n] > a[n] THEN b[n] ELSE a[n]) = (IF a[n] > b[n] THEN a[n] ELSE b[n])
  BY DEF Maps
<1>2. QED BY <1>1 DEF MergeMap

\* Nor does how three states are grouped.
LEMMA MergeAssociates ==
    ASSUME NEW a \in Maps, NEW b \in Maps, NEW c \in Maps
    PROVE  MergeMap(MergeMap(a, b), c) = MergeMap(a, MergeMap(b, c))
<1>1. ASSUME NEW n \in Nodes
      PROVE  MergeMap(MergeMap(a, b), c)[n] = MergeMap(a, MergeMap(b, c))[n]
  BY DEF MergeMap, Maps
<1>2. QED BY <1>1 DEF MergeMap

\* A state merged a second time changes nothing.
LEMMA MergeIdempotent ==
    ASSUME NEW a \in Maps, NEW b \in Maps
    PROVE  MergeMap(MergeMap(a, b), b) = MergeMap(a, b)
<1>1. ASSUME NEW n \in Nodes
      PROVE  MergeMap(MergeMap(a, b), b)[n] = MergeMap(a, b)[n]
  BY DEF MergeMap, Maps
<1>2. QED BY <1>1 DEF MergeMap

\* A merge is the least map above both of its arguments.
LEMMA MergeIsLeastUpperBound ==
    ASSUME NEW a \in Maps, NEW b \in Maps
    PROVE  /\ AtMost(a, MergeMap(a, b))
           /\ AtMost(b, MergeMap(a, b))
           /\ \A c \in Maps : AtMost(a, c) /\ AtMost(b, c) => AtMost(MergeMap(a, b), c)
BY DEF AtMost, MergeMap, Maps

-----------------------------------------------------------------------------
\* The typing of every replica's maps and of every copy.
THEOREM TypeCorrect == SafeSpec => []TypeOK
<1>1. Init => TypeOK
  BY MaxOpsAssumption DEF Init, TypeOK, Maps, Empty
<1>2. TypeOK /\ [Next]_vars => TypeOK'
  <2> SUFFICES ASSUME TypeOK, [Next]_vars PROVE TypeOK'
    OBVIOUS
  <2> USE MaxOpsAssumption DEF TypeOK
  <2>1. CASE UNCHANGED vars
    BY <2>1 DEF vars
  <2>2. ASSUME NEW n \in Nodes, Increment(n) PROVE TypeOK'
    BY <2>2 DEF Increment, Plus, Maps
  <2>3. ASSUME NEW n \in Nodes, Decrement(n) PROVE TypeOK'
    BY <2>3 DEF Decrement, Plus, Maps
  <2>4. ASSUME NEW n \in Nodes, GetState(n) PROVE TypeOK'
    BY <2>4 DEF GetState, State, Copies
  <2>5. ASSUME NEW n \in Nodes, NEW s \in states, Merge(n, s) PROVE TypeOK'
    <3>1. s.incr \in Maps /\ s.decr \in Maps
      BY DEF Copies
    <3>2. MergeMap(incr[n], s.incr) \in Maps /\ MergeMap(decr[n], s.decr) \in Maps
      BY <3>1, MergeType
    <3>3. QED BY <2>5, <3>2 DEF Merge
  <2>6. QED BY <2>1, <2>2, <2>3, <2>4, <2>5 DEF Next
<1>3. QED BY <1>1, <1>2, PTL DEF SafeSpec

\* The inductive form of NeverAhead: copies under way are behind the owner too.
CopiesBehind ==
    \A s \in states, n \in Nodes : s.incr[n] <= incr[n][n] /\ s.decr[n] <= decr[n][n]

\* Both are kept together.
LEMMA AlwaysBehind == SafeSpec => [](TypeOK /\ NeverAhead /\ CopiesBehind)
<1>1. Init => NeverAhead /\ CopiesBehind
  BY DEF Init, NeverAhead, CopiesBehind, Empty
<1>2. TypeOK /\ NeverAhead /\ CopiesBehind /\ [Next]_vars => NeverAhead' /\ CopiesBehind'
  <2> SUFFICES ASSUME TypeOK, NeverAhead, CopiesBehind, [Next]_vars
               PROVE  NeverAhead' /\ CopiesBehind'
    OBVIOUS
  <2> USE DEF TypeOK, NeverAhead, CopiesBehind
  <2>1. CASE UNCHANGED vars
    BY <2>1 DEF vars
  <2>2. ASSUME NEW n \in Nodes, Increment(n) PROVE NeverAhead' /\ CopiesBehind'
    <3>1. \A i, j \in Nodes : incr'[i][j] = IF i = n /\ j = n THEN incr[i][j] + 1 ELSE incr[i][j]
      BY <2>2 DEF Increment, Plus, Maps
    <3>2. \A i, j \in Nodes : incr[i][j] \in Nat
      BY DEF Maps
    <3>3. \A s \in states, j \in Nodes : s.incr[j] \in Nat
      BY DEF Copies, Maps
    <3>4. QED BY <2>2, <3>1, <3>2, <3>3 DEF Increment
  <2>3. ASSUME NEW n \in Nodes, Decrement(n) PROVE NeverAhead' /\ CopiesBehind'
    <3>1. \A i, j \in Nodes : decr'[i][j] = IF i = n /\ j = n THEN decr[i][j] + 1 ELSE decr[i][j]
      BY <2>3 DEF Decrement, Plus, Maps
    <3>2. \A i, j \in Nodes : decr[i][j] \in Nat
      BY DEF Maps
    <3>3. \A s \in states, j \in Nodes : s.decr[j] \in Nat
      BY DEF Copies, Maps
    <3>4. QED BY <2>3, <3>1, <3>2, <3>3 DEF Decrement
  <2>4. ASSUME NEW n \in Nodes, GetState(n) PROVE NeverAhead' /\ CopiesBehind'
    BY <2>4 DEF GetState, State
  <2>5. ASSUME NEW n \in Nodes, NEW s \in states, Merge(n, s) PROVE NeverAhead' /\ CopiesBehind'
    <3>1. \A i, j \in Nodes :
            /\ incr'[i][j] = IF i = n /\ s.incr[j] > incr[n][j] THEN s.incr[j] ELSE incr[i][j]
            /\ decr'[i][j] = IF i = n /\ s.decr[j] > decr[n][j] THEN s.decr[j] ELSE decr[i][j]
      BY <2>5 DEF Merge, MergeMap
    <3>2. \A j \in Nodes : s.incr[j] <= incr[j][j] /\ s.decr[j] <= decr[j][j]
      OBVIOUS
    <3>3. \A i, j \in Nodes : incr[i][j] \in Nat /\ decr[i][j] \in Nat
      BY DEF Maps
    <3>4. \A j \in Nodes : s.incr[j] \in Nat /\ s.decr[j] \in Nat
      BY DEF Copies, Maps
    <3>5. \A j \in Nodes : incr'[j][j] = incr[j][j] /\ decr'[j][j] = decr[j][j]
      BY <3>1, <3>2, <3>3, <3>4
    <3>6. states' = states
      BY <2>5 DEF Merge
    <3>7. QED BY <3>1, <3>2, <3>5, <3>6
  <2>6. QED BY <2>1, <2>2, <2>3, <2>4, <2>5 DEF Next
<1>3. QED BY <1>1, <1>2, TypeCorrect, PTL DEF SafeSpec

\* No replica holds more of a node's operations than the node has done.
THEOREM ReplicasNeverAhead == SafeSpec => []NeverAhead
BY AlwaysBehind, PTL

\* No step lowers an entry of any replica.
THEOREM ReplicasNeverForget == SafeSpec => NeverForgets
<1>1. TypeOK /\ [Next]_vars =>
        [\A n \in Nodes : AtMost(incr[n], incr'[n]) /\ AtMost(decr[n], decr'[n])]_vars
  <2> SUFFICES ASSUME TypeOK, Next
               PROVE  \A n \in Nodes : AtMost(incr[n], incr'[n]) /\ AtMost(decr[n], decr'[n])
    OBVIOUS
  <2>1. \A i, j \in Nodes : incr[i][j] \in Nat /\ decr[i][j] \in Nat
    BY DEF TypeOK, Maps
  <2>2. ASSUME NEW n \in Nodes, Increment(n)
        PROVE  \A i, j \in Nodes : incr[i][j] <= incr'[i][j] /\ decr[i][j] <= decr'[i][j]
    BY <2>1, <2>2 DEF TypeOK, Maps, Increment, Plus
  <2>3. ASSUME NEW n \in Nodes, Decrement(n)
        PROVE  \A i, j \in Nodes : incr[i][j] <= incr'[i][j] /\ decr[i][j] <= decr'[i][j]
    BY <2>1, <2>3 DEF TypeOK, Maps, Decrement, Plus
  <2>4. ASSUME NEW n \in Nodes, GetState(n)
        PROVE  \A i, j \in Nodes : incr[i][j] <= incr'[i][j] /\ decr[i][j] <= decr'[i][j]
    BY <2>1, <2>4 DEF GetState
  <2>5. ASSUME NEW n \in Nodes, NEW s \in states, Merge(n, s)
        PROVE  \A i, j \in Nodes : incr[i][j] <= incr'[i][j] /\ decr[i][j] <= decr'[i][j]
    BY <2>1, <2>5 DEF TypeOK, Copies, Maps, Merge, MergeMap
  <2>6. QED BY <2>2, <2>3, <2>4, <2>5 DEF Next, AtMost
<1>2. QED BY <1>1, TypeCorrect, PTL DEF SafeSpec, NeverForgets

-----------------------------------------------------------------------------
(* What Converges rests on, without the fairness it needs.                 *)

Owned(maps) == [n \in Nodes |-> maps[n][n]]

\* A replica that has seen whatever any replica holds.
Informed(m) == \A n \in Nodes : AtMost(incr[n], incr[m]) /\ AtMost(decr[n], decr[m])

\* Merging the latest copy of a replica brings one up to it.
LEMMA MergeInforms ==
    ASSUME TypeOK, NEW n \in Nodes, NEW m \in Nodes, Merge(m, State(n))
    PROVE  AtMost(incr[n], incr'[m]) /\ AtMost(decr[n], decr'[m])
<1>1. incr[n] \in Maps /\ decr[n] \in Maps /\ incr[m] \in Maps /\ decr[m] \in Maps
  BY DEF TypeOK
<1>2. incr'[m] = MergeMap(incr[m], incr[n]) /\ decr'[m] = MergeMap(decr[m], decr[n])
  BY DEF Merge, State, TypeOK
<1>3. QED BY <1>1, <1>2, MergeIsLeastUpperBound

\* Informed replicas have exactly the operations done, and so the same value
\* (pn_counter.go:89-130).
Agreement ==
    \A m \in Nodes : Informed(m) =>
        /\ incr[m] = Owned(incr) /\ decr[m] = Owned(decr)
        /\ Value(incr[m], decr[m]) = SumFunction(Owned(incr)) - SumFunction(Owned(decr))

THEOREM InformedReplicasAgree == SafeSpec => []Agreement
<1>1. TypeOK /\ NeverAhead => Agreement
  <2> SUFFICES ASSUME TypeOK, NeverAhead, NEW m \in Nodes, Informed(m)
               PROVE  incr[m] = Owned(incr) /\ decr[m] = Owned(decr)
    BY DEF Agreement, Value
  <2>1. \A i, j \in Nodes : incr[i][j] \in Nat /\ decr[i][j] \in Nat
    BY DEF TypeOK, Maps
  <2>2. \A n \in Nodes : incr[m][n] = incr[n][n] /\ decr[m][n] = decr[n][n]
    BY <2>1 DEF NeverAhead, Informed, AtMost
  <2>3. incr[m] = [n \in Nodes |-> incr[m][n]] /\ decr[m] = [n \in Nodes |-> decr[m][n]]
    BY DEF TypeOK, Maps
  <2>4. QED BY <2>2, <2>3 DEF Owned
<1>2. QED BY <1>1, AlwaysBehind, PTL

\* Until somebody updates again an informed replica stays informed, whatever
\* copies are taken and merged, however old.
THEOREM InformedStays ==
    SafeSpec => [][UNCHANGED ops => \A m \in Nodes : Informed(m) => Informed(m)']_vars
<1>1. TypeOK /\ NeverAhead /\ CopiesBehind /\ [Next]_vars =>
        [UNCHANGED ops => \A m \in Nodes : Informed(m) => Informed(m)']_vars
  <2> SUFFICES ASSUME TypeOK, NeverAhead, CopiesBehind, Next, UNCHANGED ops,
                      NEW m \in Nodes, Informed(m)
               PROVE  Informed(m)'
    OBVIOUS
  <2>1. \A i, j \in Nodes : incr[i][j] \in Nat /\ decr[i][j] \in Nat
    BY DEF TypeOK, Maps
  <2>2. \A i, j \in Nodes : incr[i][j] <= incr[m][j] /\ decr[i][j] <= decr[m][j]
    BY DEF Informed, AtMost
  <2>3. ASSUME NEW n \in Nodes, Increment(n) \/ Decrement(n) PROVE FALSE
    BY <2>3 DEF Increment, Decrement, TypeOK
  <2>4. ASSUME NEW n \in Nodes, GetState(n) PROVE Informed(m)'
    BY <2>4 DEF GetState, Informed
  <2>5. ASSUME NEW n \in Nodes, NEW s \in states, Merge(n, s) PROVE Informed(m)'
    <3>1. \A i, j \in Nodes :
            /\ incr'[i][j] = IF i = n /\ s.incr[j] > incr[n][j] THEN s.incr[j] ELSE incr[i][j]
            /\ decr'[i][j] = IF i = n /\ s.decr[j] > decr[n][j] THEN s.decr[j] ELSE decr[i][j]
      BY <2>5 DEF Merge, MergeMap, TypeOK
    <3>2. \A j \in Nodes : s.incr[j] \in Nat /\ s.decr[j] \in Nat
      BY DEF TypeOK, Copies, Maps
    <3>3. \A j \in Nodes : s.incr[j] <= incr[j][j] /\ s.decr[j] <= decr[j][j]
      BY DEF CopiesBehind
    <3>4. \A j \in Nodes : s.incr[j] <= incr[m][j] /\ s.decr[j] <= decr[m][j]
      BY <2>1, <2>2, <3>2, <3>3
    <3>5. \A i, j \in Nodes : incr'[i][j] <= incr'[m][j] /\ decr'[i][j] <= decr'[m][j]
      BY <2>1, <2>2, <3>1, <3>2, <3>4
    <3>6. QED BY <3>5 DEF Informed, AtMost
  <2>6. QED BY <2>3, <2>4, <2>5 DEF Next
<1>2. QED BY <1>1, AlwaysBehind, PTL DEF SafeSpec
=============================================================================
