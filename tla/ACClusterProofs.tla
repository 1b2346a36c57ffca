--------------------------- MODULE ACClusterProofs ---------------------------
(***************************************************************************)
(* For any set of managers, any amounts and any number of updates, with or *)
(* without losses: types, no node runs ahead of an entry's owner, a        *)
(* successful send has reached every peer that could take it, a node's own *)
(* part of the value is exactly what it accepted, and what a peer holds of *)
(* it is one of its updates; without losses the largest, and with one      *)
(* update for each node all agree whenever nothing is under way.           *)
(***************************************************************************)
EXTENDS ACCluster, SumTheorems

-----------------------------------------------------------------------------
(* The counters, as tables: one map for each node.                         *)

Tables == [Nodes -> Maps]

\* No node's map is ahead of the owner's.
Bounded(table) == \A n, m \in Nodes : table[m][n] <= table[n][n]

Grows(table, later) == \A n, m \in Nodes : table[m][n] <= later[m][n]

\* What Plus and MergeMap do to one entry.
LEMMA EntryAdded ==
    ASSUME NEW table \in Tables, NEW n \in Nodes, NEW v \in Nat,
           NEW later, later = [table EXCEPT ![n] = Plus(@, n, v)]
    PROVE  \A i, j \in Nodes : later[i][j] = IF i = n /\ j = n THEN table[i][j] + v ELSE table[i][j]
BY DEF Tables, Maps, Plus

LEMMA EntryMerged ==
    ASSUME NEW table \in Tables, NEW n \in Nodes, NEW p \in Nodes, NEW v \in Nat,
           NEW later, later = [table EXCEPT ![p] = MergeMap(@, Only(n, v))]
    PROVE  \A i, j \in Nodes :
             later[i][j] = IF i = p /\ j = n /\ v > table[i][j] THEN v ELSE table[i][j]
<1>1. \A i, j \in Nodes : table[i][j] \in Nat
  BY DEF Tables, Maps
<1>2. \A j \in Nodes : Only(n, v)[j] = IF j = n THEN v ELSE 0
  BY DEF Only
<1>3. \A j \in Nodes : MergeMap(table[p], Only(n, v))[j] =
                         IF Only(n, v)[j] > table[p][j] THEN Only(n, v)[j] ELSE table[p][j]
  BY DEF MergeMap
<1>4. \A j \in Nodes : MergeMap(table[p], Only(n, v))[j] =
                         IF j = n /\ v > table[p][j] THEN v ELSE table[p][j]
  BY <1>1, <1>2, <1>3
<1>5. \A i \in Nodes : later[i] = IF i = p THEN MergeMap(table[p], Only(n, v)) ELSE table[i]
  BY DEF Tables
<1> QED
  BY <1>4, <1>5

\* An owner adds to its own entry.
LEMMA OwnerAdds ==
    ASSUME NEW table \in Tables, Bounded(table), NEW n \in Nodes, NEW v \in Nat,
           NEW later, later = [table EXCEPT ![n] = Plus(@, n, v)]
    PROVE  later \in Tables /\ Bounded(later) /\ Grows(table, later)
<1>1. \A i, j \in Nodes : table[i][j] \in Nat
  BY DEF Tables, Maps
<1>2. later \in Tables
  BY DEF Tables, Maps, Plus
<1>3. \A i, j \in Nodes : later[i][j] = IF i = n /\ j = n THEN table[i][j] + v ELSE table[i][j]
  BY DEF Tables, Maps, Plus
<1>4. Bounded(later)
  BY <1>1, <1>3 DEF Bounded
<1>5. Grows(table, later)
  BY <1>1, <1>3 DEF Grows
<1> QED
  BY <1>2, <1>4, <1>5

\* A peer merges an amount the owner has already got, and no owner's entry moves.
LEMMA PeerMerges ==
    ASSUME NEW table \in Tables, Bounded(table), NEW n \in Nodes, NEW p \in Nodes,
           NEW v \in Nat, v <= table[n][n],
           NEW later, later = [table EXCEPT ![p] = MergeMap(@, Only(n, v))]
    PROVE  /\ later \in Tables /\ Bounded(later) /\ Grows(table, later)
           /\ v <= later[p][n] /\ \A j \in Nodes : later[j][j] = table[j][j]
<1>1. \A i, j \in Nodes : table[i][j] \in Nat
  BY DEF Tables, Maps
<1>2. \A i, j \in Nodes :
        later[i][j] = IF i = p /\ j = n /\ v > table[i][j] THEN v ELSE table[i][j]
  BY EntryMerged
<1>3. later \in Tables
  <2>1. MergeMap(table[p], Only(n, v)) \in Maps
    <3>1. \A j \in Nodes : Only(n, v)[j] \in Nat /\ table[p][j] \in Nat
      BY <1>1 DEF Only
    <3> QED
      BY <3>1 DEF MergeMap, Maps
  <2> QED
    BY <2>1 DEF Tables
<1>4. \A j \in Nodes : later[j][j] = table[j][j]
  BY <1>1, <1>2
<1>5. Bounded(later)
  BY <1>1, <1>2, <1>4 DEF Bounded
<1>6. Grows(table, later)
  BY <1>1, <1>2 DEF Grows
<1> QED
  BY <1>1, <1>2, <1>3, <1>4, <1>5, <1>6

-----------------------------------------------------------------------------
(* Types.                                                                  *)

\* Plus and MergeMap keep tables.
LEMMA TablesStayTables ==
    ASSUME NEW table \in Tables, NEW n \in Nodes, NEW k \in Nodes, NEW v \in Nat
    PROVE  /\ [table EXCEPT ![n] = Plus(@, n, v)] \in Tables
           /\ [table EXCEPT ![n] = MergeMap(@, Only(k, v))] \in Tables
<1>1. Plus(table[n], n, v) \in Maps
  BY DEF Tables, Maps, Plus
<1>2. Only(k, v) \in Maps
  BY DEF Maps, Only
<1>3. MergeMap(table[n], Only(k, v)) \in Maps
  BY <1>2 DEF Tables, Maps, MergeMap
<1> QED
  BY <1>1, <1>3 DEF Tables

LEMMA AmountsAreNat ==
    ASSUME NEW d \in Deltas
    PROVE  /\ d \in Int /\ (d >= 0 => d \in Nat) /\ (~(d >= 0) => -d \in Nat)
BY DeltasAssumption

\* HandleRemoteUpdate gets back the delta that sendSingle took apart.
LEMMA WireKeepsTheDelta ==
    ASSUME NEW u \in Update
    PROVE  RemoteValue(u) = u.delta /\ u.delta \in Int /\ u.node \in Nodes
<1>1. u.delta \in Int /\ u.node \in Nodes
  BY DeltasAssumption DEF Update
<1>2. CASE u.delta < 0
  <2>1. Wire(u).op = "DECREMENT" /\ Wire(u).value = -u.delta
    BY <1>2 DEF Wire, Amount
  <2> QED
    BY <1>1, <2>1 DEF RemoteValue
<1>3. CASE ~(u.delta < 0)
  <2>1. Wire(u).op = "INCREMENT" /\ Wire(u).value = u.delta
    BY <1>3 DEF Wire, Amount
  <2> QED
    BY <1>1, <2>1 DEF RemoteValue
<1> QED
  BY <1>2, <1>3

\* Every variable of the cluster keeps its type.
THEOREM TypeCorrect == SafeSpec => []TypeOK
<1>1. Init => TypeOK
  BY MaxUpdatesAssumption, SwitchesAssumption DEF Init, TypeOK, Maps, Empty
<1>2. TypeOK /\ [Next]_vars => TypeOK'
  <2> SUFFICES ASSUME TypeOK, [Next]_vars PROVE TypeOK'
    OBVIOUS
  <2> USE DEF TypeOK
  <2>0. incr \in Tables /\ decr \in Tables
    BY DEF Tables
  <2>1. ASSUME NEW n \in Nodes, NEW d \in Deltas, BeginUpdate(n, d) PROVE TypeOK'
    <3>1. incr' \in Tables /\ decr' \in Tables
      <4>1. CASE d >= 0
        <5>1. incr' = [incr EXCEPT ![n] = Plus(@, n, d)] /\ decr' = decr
          BY <2>1, <4>1 DEF BeginUpdate, ApplyLocal
        <5> QED
          BY <2>0, <4>1, <5>1, TablesStayTables, AmountsAreNat
      <4>2. CASE ~(d >= 0)
        <5>1. decr' = [decr EXCEPT ![n] = Plus(@, n, -d)] /\ incr' = incr
          BY <2>1, <4>2 DEF BeginUpdate, ApplyLocal
        <5>2. -d \in Nat
          BY <4>2, AmountsAreNat
        <5> QED
          BY <2>0, <5>1, <5>2, TablesStayTables
      <4> QED
        BY <4>1, <4>2
    <3>2. issued[n] + 1 \in 1..MaxUpdates
      BY <2>1, MaxUpdatesAssumption DEF BeginUpdate
    <3>3. [node |-> n, seq |-> issued[n] + 1, delta |-> d] \in Update
      BY <3>2 DEF Update
    <3>4. issued' \in [Nodes -> 0..MaxUpdates] /\ entering' \subseteq Update
      BY <2>1, <3>2, <3>3, MaxUpdatesAssumption DEF BeginUpdate
    <3> QED
      BY <2>1, <3>1, <3>4 DEF BeginUpdate, Tables, historyVars
  <2>2. ASSUME NEW u \in entering, Accept(u) PROVE TypeOK'
    BY <2>2 DEF Accept, countersVars
  <2>3. ASSUME NEW u \in entering, Refuse(u) PROVE TypeOK'
    <3>1. u.node \in Nodes /\ u.delta \in Deltas
      BY DEF Update
    <3>2. incr' \in Tables /\ decr' \in Tables
      <4>1. CASE u.delta >= 0
        <5>1. decr' = [decr EXCEPT ![u.node] = Plus(@, u.node, u.delta)] /\ incr' = incr
          BY <2>3, <4>1 DEF Refuse
        <5> QED
          BY <2>0, <3>1, <4>1, <5>1, TablesStayTables, AmountsAreNat
      <4>2. CASE ~(u.delta >= 0)
        <5>1. incr' = [incr EXCEPT ![u.node] = Plus(@, u.node, -u.delta)] /\ decr' = decr
          BY <2>3, <4>2 DEF Refuse
        <5>2. -u.delta \in Nat
          BY <3>1, <4>2, AmountsAreNat
        <5> QED
          BY <2>0, <3>1, <5>1, <5>2, TablesStayTables
      <4> QED
        BY <4>1, <4>2
    <3> QED
      BY <2>3, <3>2 DEF Refuse, Tables, historyVars
  <2>4. ASSUME NEW n \in Nodes, RegisterHandler(n) PROVE TypeOK'
    BY <2>4 DEF RegisterHandler, countersVars, historyVars
  <2>5. ASSUME NEW n \in Nodes, NEW p \in Nodes, ConnectToPeer(n, p) PROVE TypeOK'
    BY <2>5 DEF ConnectToPeer, countersVars, historyVars
  <2>6. ASSUME NEW u \in outbox, BeginBroadcast(u) PROVE TypeOK'
    <3>1. clients[u.node] \subseteq Nodes
      BY DEF Update
    <3>2. [update |-> u, to |-> clients[u.node], left |-> clients[u.node], waiting |-> {},
           ok |-> TRUE] \in Broadcasting
      BY <3>1 DEF Broadcasting
    <3> QED
      BY <2>6, <3>2 DEF BeginBroadcast, countersVars, historyVars
  <2>7. ASSUME NEW b \in broadcasts, NEW p \in Nodes, SendTo(b, p) PROVE TypeOK'
    <3>1. [b EXCEPT !.left = @ \ {p}, !.waiting = {p}] \in Broadcasting
      BY DEF Broadcasting
    <3>2. [kind |-> "request", update |-> b.update, to |-> p, ok |-> TRUE] \in Messages
      BY DEF Broadcasting, Messages
    <3> QED
      BY <2>7, <3>1, <3>2 DEF SendTo, Replace, countersVars, historyVars
  <2>8. ASSUME NEW b \in broadcasts, NEW p \in Nodes, SendFails(b, p) PROVE TypeOK'
    <3>1. [b EXCEPT !.left = @ \ {p}, !.ok = FALSE] \in Broadcasting
      BY DEF Broadcasting
    <3> QED
      BY <2>8, <3>1 DEF SendFails, Replace, countersVars, historyVars
  <2>9. ASSUME NEW b \in broadcasts, NEW m \in network, ReceiveAck(b, m) PROVE TypeOK'
    <3>1. [b EXCEPT !.waiting = {}] \in Broadcasting
      BY DEF Broadcasting
    <3> QED
      BY <2>9, <3>1 DEF ReceiveAck, Replace, countersVars, historyVars
  <2>10. ASSUME NEW b \in broadcasts, GiveUp(b) PROVE TypeOK'
    <3>1. [b EXCEPT !.waiting = {}, !.ok = FALSE] \in Broadcasting
      BY DEF Broadcasting
    <3> QED
      BY <2>10, <3>1 DEF GiveUp, Replace, countersVars, historyVars
  <2>11. ASSUME NEW b \in broadcasts, EndBroadcast(b) PROVE TypeOK'
    <3>1. [update |-> b.update, to |-> b.to] \in [update : Update, to : SUBSET Nodes]
      BY DEF Broadcasting
    <3> QED
      BY <2>11, <3>1 DEF EndBroadcast, countersVars
  <2>12. ASSUME NEW m \in network, HandleRequest(m) PROVE TypeOK'
    <3>1. m \in Messages /\ m.update \in Update /\ m.to \in Nodes
      BY DEF Messages
    <3>2. \A success \in BOOLEAN : [m EXCEPT !.kind = "ack", !.ok = success] \in Messages
      BY DEF Messages
    <3>3. network' \subseteq Messages
      BY <2>12, <3>2 DEF HandleRequest, Answer
    <3>4. incr' \in Tables /\ decr' \in Tables
      <4>1. CASE m.to \in handling
        <5> DEFINE u == m.update
        <5>1. RemoteValue(u) = u.delta /\ u.delta \in Deltas /\ u.node \in Nodes
          BY <3>1, WireKeepsTheDelta DEF Update
        <5>2. MergeRemote(m.to, u)
          BY <2>12, <4>1 DEF HandleRequest
        <5> HIDE DEF u
        <5>3. CASE u.delta >= 0
          <6>1. incr' = [incr EXCEPT ![m.to] = MergeMap(@, Only(u.node, u.delta))] /\ decr' = decr
            BY <5>1, <5>2, <5>3 DEF MergeRemote
          <6> QED
            BY <2>0, <3>1, <5>1, <5>3, <6>1, TablesStayTables, AmountsAreNat
        <5>4. CASE ~(u.delta >= 0)
          <6>1. decr' = [decr EXCEPT ![m.to] = MergeMap(@, Only(u.node, -u.delta))] /\ incr' = incr
            BY <5>1, <5>2, <5>4 DEF MergeRemote
          <6>2. -u.delta \in Nat
            BY <5>1, <5>4, AmountsAreNat
          <6> QED
            BY <2>0, <3>1, <5>1, <6>1, <6>2, TablesStayTables
        <5> QED
          BY <5>3, <5>4
      <4>2. CASE m.to \notin handling
        BY <2>0, <2>12, <4>2 DEF HandleRequest, countersVars
      <4> QED
        BY <4>1, <4>2
    <3>5. unheard' \subseteq [update : Update, by : Nodes]
      <4>1. [update |-> m.update, by |-> m.to] \in [update : Update, by : Nodes]
        BY <3>1
      <4> QED
        BY <2>12, <4>1 DEF HandleRequest
    <3> QED
      BY <2>12, <3>3, <3>4, <3>5 DEF HandleRequest, Tables
  <2>13. ASSUME NEW m \in network, Lose(m) PROVE TypeOK'
    BY <2>13 DEF Lose, countersVars, historyVars
  <2>14. CASE UNCHANGED vars
    BY <2>14 DEF vars, countersVars, historyVars
  <2> QED
    BY <2>1, <2>2, <2>3, <2>4, <2>5, <2>6, <2>7, <2>8, <2>9, <2>10, <2>11, <2>12, <2>13, <2>14
    DEF Next, Calls, Startup, DispatchLoops, Network, Rest
<1> QED
  BY <1>1, <1>2, PTL DEF SafeSpec

-----------------------------------------------------------------------------
(* Nobody runs ahead.                                                      *)

\* The owner's own entry covers an update: what it stands for was done.
Known(u) == Applied(u, u.node)

\* The inductive part of NeverAhead: what is on its way to a peer is covered too.
InFlight == outbox \cup {b.update : b \in broadcasts} \cup {m.update : m \in network}
UnderWay == entering \cup InFlight

UnderWayKnown == \A u \in UnderWay : Known(u)

CountersGrow == Grows(incr, incr') /\ Grows(decr, decr') /\ unheard \subseteq unheard'

LEMMA NeverAheadIsBounded == NeverAhead <=> Bounded(incr) /\ Bounded(decr)
BY DEF NeverAhead, Bounded

LEMMA NothingMoves ==
    ASSUME TypeOK, UNCHANGED countersVars, unheard \subseteq unheard'
    PROVE  CountersGrow
<1>1. \A i, j \in Nodes : incr[i][j] \in Nat /\ decr[i][j] \in Nat
  BY DEF TypeOK, Maps
<1> QED
  BY <1>1 DEF countersVars, CountersGrow, Grows

\* Every step lets the counters grow, and none lets a peer run ahead.
LEMMA CountersStep ==
    ASSUME TypeOK, NeverAhead, UnderWayKnown, [Next]_vars
    PROVE  CountersGrow /\ NeverAhead'
<1> USE DEF TypeOK
<1>0. incr \in Tables /\ decr \in Tables /\ Bounded(incr) /\ Bounded(decr)
  BY NeverAheadIsBounded DEF Tables
<1>1. Grows(incr, incr) /\ Grows(decr, decr)
  BY <1>0 DEF Grows, Tables, Maps
<1> DEFINE Goal == CountersGrow /\ NeverAhead'
<1>2. ASSUME UNCHANGED countersVars, unheard \subseteq unheard' PROVE Goal
  BY <1>2, NothingMoves DEF NeverAhead, countersVars
<1>3. ASSUME NEW n \in Nodes, NEW d \in Deltas, BeginUpdate(n, d) PROVE Goal
  <2>1. unheard' = unheard
    BY <1>3 DEF BeginUpdate, historyVars
  <2>2. CASE d >= 0
    <3>1. incr' = [incr EXCEPT ![n] = Plus(@, n, d)] /\ decr' = decr
      BY <1>3, <2>2 DEF BeginUpdate, ApplyLocal
    <3>2. Bounded(incr') /\ Grows(incr, incr')
      BY <1>0, <2>2, <3>1, OwnerAdds, AmountsAreNat
    <3> QED
      BY <1>0, <1>1, <2>1, <3>1, <3>2 DEF CountersGrow, NeverAhead, Bounded
  <2>3. CASE ~(d >= 0)
    <3>1. decr' = [decr EXCEPT ![n] = Plus(@, n, -d)] /\ incr' = incr
      BY <1>3, <2>3 DEF BeginUpdate, ApplyLocal
    <3>2. -d \in Nat
      BY <2>3, AmountsAreNat
    <3>3. Bounded(decr') /\ Grows(decr, decr')
      BY <1>0, <3>1, <3>2, OwnerAdds
    <3> QED
      BY <1>0, <1>1, <2>1, <3>1, <3>3 DEF CountersGrow, NeverAhead, Bounded
  <2> QED
    BY <2>2, <2>3
<1>4. ASSUME NEW u \in entering, Refuse(u) PROVE Goal
  <2>1. unheard' = unheard /\ u.node \in Nodes /\ u.delta \in Deltas
    BY <1>4 DEF Refuse, historyVars, Update
  <2>2. CASE u.delta >= 0
    <3>1. decr' = [decr EXCEPT ![u.node] = Plus(@, u.node, u.delta)] /\ incr' = incr
      BY <1>4, <2>2 DEF Refuse
    <3>2. Bounded(decr') /\ Grows(decr, decr')
      BY <1>0, <2>1, <2>2, <3>1, OwnerAdds, AmountsAreNat
    <3> QED
      BY <1>0, <1>1, <2>1, <3>1, <3>2 DEF CountersGrow, NeverAhead, Bounded
  <2>3. CASE ~(u.delta >= 0)
    <3>1. incr' = [incr EXCEPT ![u.node] = Plus(@, u.node, -u.delta)] /\ decr' = decr
      BY <1>4, <2>3 DEF Refuse
    <3>2. -u.delta \in Nat
      BY <2>1, <2>3, AmountsAreNat
    <3>3. Bounded(incr') /\ Grows(incr, incr')
      BY <1>0, <2>1, <3>1, <3>2, OwnerAdds
    <3> QED
      BY <1>0, <1>1, <2>1, <3>1, <3>3 DEF CountersGrow, NeverAhead, Bounded
  <2> QED
    BY <2>2, <2>3
<1>5. ASSUME NEW m \in network, HandleRequest(m) PROVE Goal
  <2>1. unheard \subseteq unheard'
    BY <1>5 DEF HandleRequest
  <2>2. CASE m.to \notin handling
    BY <1>2, <1>5, <2>1, <2>2 DEF HandleRequest
  <2>3. CASE m.to \in handling
    <3>1. m.to \in Nodes /\ m.update \in Update /\ Known(m.update)
      BY DEF Messages, UnderWayKnown, UnderWay, InFlight
    <3> DEFINE u == m.update
    <3>2. RemoteValue(u) = u.delta /\ u.delta \in Deltas /\ u.node \in Nodes
      BY <3>1, WireKeepsTheDelta DEF Update
    <3>3. MergeRemote(m.to, u)
      BY <1>5, <2>3 DEF HandleRequest
    <3>4. Known(u)
      BY <3>1
    <3> HIDE DEF u
    <3>5. CASE u.delta >= 0
      <4>1. incr' = [incr EXCEPT ![m.to] = MergeMap(@, Only(u.node, u.delta))] /\ decr' = decr
        BY <3>2, <3>3, <3>5 DEF MergeRemote
      <4>2. u.delta \in Nat /\ u.delta <= incr[u.node][u.node]
        BY <3>2, <3>4, <3>5, AmountsAreNat DEF Known, Applied, Amount
      <4>3. Bounded(incr') /\ Grows(incr, incr')
        BY <1>0, <3>1, <3>2, <4>1, <4>2, PeerMerges
      <4> QED
        BY <1>0, <1>1, <2>1, <4>1, <4>3 DEF CountersGrow, NeverAhead, Bounded
    <3>6. CASE ~(u.delta >= 0)
      <4>1. decr' = [decr EXCEPT ![m.to] = MergeMap(@, Only(u.node, -u.delta))] /\ incr' = incr
        BY <3>2, <3>3, <3>6 DEF MergeRemote
      <4>2. -u.delta \in Nat /\ -u.delta <= decr[u.node][u.node]
        BY <3>2, <3>4, <3>6, AmountsAreNat DEF Known, Applied, Amount
      <4>3. Bounded(decr') /\ Grows(decr, decr')
        BY <1>0, <3>1, <3>2, <4>1, <4>2, PeerMerges
      <4> QED
        BY <1>0, <1>1, <2>1, <4>1, <4>3 DEF CountersGrow, NeverAhead, Bounded
    <3> QED
      BY <3>5, <3>6
  <2> QED
    BY <2>2, <2>3
<1>6. ASSUME \/ \E u \in entering : Accept(u)
             \/ Startup
             \/ DispatchLoops
             \/ \E m \in network : Lose(m)
             \/ UNCHANGED vars
      PROVE  Goal
  <2>1. UNCHANGED countersVars /\ unheard' = unheard
    BY <1>6 DEF Accept, Startup, RegisterHandler, ConnectToPeer, DispatchLoops, BeginBroadcast,
       SendTo, SendFails, ReceiveAck, GiveUp, EndBroadcast, Lose, vars, historyVars
  <2> QED
    BY <2>1, <1>2
<1> QED
  BY <1>3, <1>4, <1>5, <1>6 DEF Next, Calls, Network, Rest

\* What a peer has got of an update it keeps.
LEMMA AppliedStays ==
    ASSUME TypeOK, TypeOK', CountersGrow, NEW u \in Update, NEW p \in Nodes, Applied(u, p)
    PROVE  Applied(u, p)'
<1>1. u.node \in Nodes /\ Amount(u.delta) \in Int
  <2>1. u.node \in Nodes /\ u.delta \in Int
    BY DeltasAssumption DEF Update
  <2> QED
    BY <2>1 DEF Amount
<1>2. /\ incr[p][u.node] \in Nat /\ incr'[p][u.node] \in Nat
      /\ decr[p][u.node] \in Nat /\ decr'[p][u.node] \in Nat
  BY <1>1 DEF TypeOK, Maps
<1>3. incr[p][u.node] <= incr'[p][u.node] /\ decr[p][u.node] <= decr'[p][u.node]
  BY <1>1 DEF CountersGrow, Grows
<1> QED
  BY <1>1, <1>2, <1>3 DEF Applied

\* BeginUpdate applies the update to the node's own counter.
LEMMA OwnUpdateIsKnown ==
    ASSUME TypeOK, NEW n \in Nodes, NEW d \in Deltas, BeginUpdate(n, d),
           NEW u, u = [node |-> n, seq |-> issued[n] + 1, delta |-> d]
    PROVE  Known(u)'
<1>0. incr \in Tables /\ decr \in Tables
  BY DEF Tables, TypeOK
<1>1. incr[n][n] \in Nat /\ decr[n][n] \in Nat
  BY DEF TypeOK, Maps
<1>2. u.node = n /\ u.delta = d
  OBVIOUS
<1>3. CASE d >= 0
  <2>1. incr' = [incr EXCEPT ![n] = Plus(@, n, d)] /\ decr' = decr
    BY <1>3 DEF BeginUpdate, ApplyLocal
  <2>2. d \in Nat
    BY <1>3, AmountsAreNat
  <2>3. incr'[n][n] = incr[n][n] + d
    BY <1>0, <2>1 DEF Tables, Maps, Plus
  <2> QED
    BY <1>1, <1>2, <1>3, <2>2, <2>3 DEF Known, Applied, Amount
<1>4. CASE ~(d >= 0)
  <2>1. decr' = [decr EXCEPT ![n] = Plus(@, n, -d)] /\ incr' = incr
    BY <1>4 DEF BeginUpdate, ApplyLocal
  <2>2. -d \in Nat
    BY <1>4, AmountsAreNat
  <2>3. decr'[n][n] = decr[n][n] + (-d)
    BY <1>0, <2>1 DEF Tables, Maps, Plus
  <2> QED
    BY <1>1, <1>2, <1>4, <2>2, <2>3, AmountsAreNat DEF Known, Applied, Amount
<1> QED
  BY <1>3, <1>4

\* Only what was just accepted takes off.
LEMMA TakesOff ==
    ASSUME TypeOK, [Next]_vars
    PROVE  InFlight' \subseteq InFlight \cup (entering \cap accepted')
<1> DEFINE Goal == InFlight' \subseteq InFlight \cup (entering \cap accepted')
<1> USE DEF InFlight
<1>1. ASSUME NEW u \in entering, Accept(u) \/ Refuse(u) PROVE Goal
  BY <1>1 DEF Accept, Refuse
<1>12. ASSUME NEW n \in Nodes, NEW d \in Deltas, BeginUpdate(n, d) PROVE Goal
  BY <1>12 DEF BeginUpdate
<1>2. CASE Startup
  BY <1>2 DEF Startup, RegisterHandler, ConnectToPeer
<1>3. ASSUME NEW u \in outbox, BeginBroadcast(u) PROVE Goal
  BY <1>3 DEF BeginBroadcast
<1>4. ASSUME NEW b \in broadcasts, NEW p \in Nodes, SendTo(b, p)
      PROVE  Goal
  <2> DEFINE c == [b EXCEPT !.left = @ \ {p}, !.waiting = {p}]
             m == [kind |-> "request", update |-> b.update, to |-> p, ok |-> TRUE]
  <2>1. c.update = b.update /\ m.update = b.update
    BY DEF TypeOK, Broadcasting
  <2>2. broadcasts' \subseteq broadcasts \cup {c} /\ network' \subseteq network \cup {m}
    BY <1>4 DEF SendTo, Replace
  <2>3. entering' = entering /\ outbox' = outbox
    BY <1>4 DEF SendTo
  <2> HIDE DEF c, m
  <2> QED
    BY <2>1, <2>2, <2>3
<1>5. ASSUME NEW b \in broadcasts, NEW p \in Nodes, SendFails(b, p)
      PROVE  Goal
  <2>1. [b EXCEPT !.left = @ \ {p}, !.ok = FALSE].update = b.update
    BY DEF TypeOK, Broadcasting
  <2> QED
    BY <1>5, <2>1 DEF SendFails, Replace
<1>6. ASSUME NEW b \in broadcasts, NEW m \in network, ReceiveAck(b, m)
      PROVE  Goal
  <2>1. [b EXCEPT !.waiting = {}].update = b.update
    BY DEF TypeOK, Broadcasting
  <2> QED
    BY <1>6, <2>1 DEF ReceiveAck, Replace
<1>7. ASSUME NEW b \in broadcasts, GiveUp(b) PROVE Goal
  <2>1. [b EXCEPT !.waiting = {}, !.ok = FALSE].update = b.update
    BY DEF TypeOK, Broadcasting
  <2> QED
    BY <1>7, <2>1 DEF GiveUp, Replace
<1>8. ASSUME NEW b \in broadcasts, EndBroadcast(b) PROVE Goal
  BY <1>8 DEF EndBroadcast
<1>9. ASSUME NEW m \in network, HandleRequest(m) PROVE Goal
  <2>1. \A success \in BOOLEAN : [m EXCEPT !.kind = "ack", !.ok = success].update = m.update
    BY DEF TypeOK, Messages
  <2> QED
    BY <1>9, <2>1 DEF HandleRequest, Answer
<1>10. ASSUME NEW m \in network, Lose(m) PROVE Goal
  BY <1>10 DEF Lose
<1>11. CASE UNCHANGED vars
  BY <1>11 DEF vars
<1> QED
  BY <1>1, <1>2, <1>3, <1>4, <1>5, <1>6, <1>7, <1>8, <1>9, <1>10, <1>11, <1>12
  DEF Next, Calls, DispatchLoops, Network, Rest

\* Nothing but a call of Update puts an update on its way.
LEMMA NothingOutOfNowhere ==
    ASSUME TypeOK, [Next]_vars,
           ~ \E n \in Nodes, d \in Deltas : BeginUpdate(n, d)
    PROVE  UnderWay' \subseteq UnderWay
<1>1. entering' \subseteq entering
  BY DEF Next, Calls, Accept, Refuse, Startup, RegisterHandler, ConnectToPeer, DispatchLoops,
     BeginBroadcast, SendTo, SendFails, ReceiveAck, GiveUp, EndBroadcast, Network, HandleRequest,
     Lose, Rest, vars
<1> QED
  BY <1>1, TakesOff DEF UnderWay

LEMMA UnderWayStep ==
    ASSUME TypeOK, TypeOK', NeverAhead, UnderWayKnown, CountersGrow, [Next]_vars
    PROVE  UnderWayKnown'
<1>1. UnderWay \subseteq Update
  BY DEF TypeOK, UnderWay, InFlight, Broadcasting, Messages
<1>2. \A u \in UnderWay : Known(u)'
  BY <1>1, AppliedStays DEF UnderWayKnown, Known, Update
<1>3. ASSUME NEW n \in Nodes, NEW d \in Deltas, BeginUpdate(n, d) PROVE UnderWayKnown'
  <2> PICK u : u = [node |-> n, seq |-> issued[n] + 1, delta |-> d]
    OBVIOUS
  <2>1. UnderWay' \subseteq UnderWay \cup {u}
    BY <1>3 DEF BeginUpdate, UnderWay, InFlight
  <2>2. Known(u)'
    BY <1>3, OwnUpdateIsKnown
  <2> QED
    BY <1>2, <2>1, <2>2 DEF UnderWayKnown
<1>4. CASE ~ \E n \in Nodes, d \in Deltas : BeginUpdate(n, d)
  BY <1>2, <1>4, NothingOutOfNowhere DEF UnderWayKnown
<1> QED
  BY <1>3, <1>4

LEMMA AheadStart == Init => NeverAhead /\ UnderWayKnown
BY DEF Init, NeverAhead, UnderWayKnown, UnderWay, InFlight, Empty

\* HandleRemoteUpdate: whatever is lost, late, refused or rolled back, no node
\* credits another with more than that node has done.
THEOREM NobodyAhead == SafeSpec => []NeverAhead
<1>1. TypeOK /\ TypeOK' /\ NeverAhead /\ UnderWayKnown /\ [Next]_vars
        => NeverAhead' /\ UnderWayKnown'
  BY CountersStep, UnderWayStep
<1> QED
  BY <1>1, AheadStart, TypeCorrect, PTL DEF SafeSpec

-----------------------------------------------------------------------------
(* What is counted as sent.                                                *)

\* The peer has applied the update, or could not because it had no handler yet.
Learnt(u, p) == Applied(u, p) \/ [update |-> u, by |-> p] \in unheard

\* broadcastUpdate has at most one peer to wait for.
OneWait == \A b \in broadcasts : \E p \in Nodes : b.waiting \subseteq {p}

\* An acknowledgement is sent after the update was applied.
AckMeansLearnt == \A m \in network : m.kind = "ack" => Learnt(m.update, m.to)

\* While nothing has failed, every client is still to come, or waited for, or
\* has learnt of the update.
SentIsLearnt ==
    \A b \in broadcasts : b.ok =>
        \A p \in b.to : p \in b.left \cup b.waiting \/ Learnt(b.update, p)

\* The inductive form of ReportedIsApplied.
ReportsInv == OneWait /\ AckMeansLearnt /\ SentIsLearnt /\ ReportedIsApplied

LEMMA LearntStays ==
    ASSUME TypeOK, TypeOK', CountersGrow, NEW u \in Update, NEW p \in Nodes, Learnt(u, p)
    PROVE  Learnt(u, p)'
<1>1. CASE Applied(u, p)
  BY <1>1, AppliedStays DEF Learnt
<1>2. CASE [update |-> u, by |-> p] \in unheard
  BY <1>2 DEF Learnt, CountersGrow
<1> QED
  BY <1>1, <1>2 DEF Learnt

\* HandleRequest applies the update before it answers.
LEMMA HandledIsApplied ==
    ASSUME TypeOK, NeverAhead, UnderWayKnown, NEW m \in network, HandleRequest(m), m.to \in handling
    PROVE  Applied(m.update, m.to)'
<1>0. incr \in Tables /\ decr \in Tables /\ Bounded(incr) /\ Bounded(decr)
  BY NeverAheadIsBounded DEF Tables, TypeOK
<1>1. m.to \in Nodes /\ m.update \in Update /\ Known(m.update)
  BY DEF TypeOK, Messages, UnderWayKnown, UnderWay, InFlight
<1> PICK u : u = m.update
  OBVIOUS
<1> PICK p : p = m.to
  OBVIOUS
<1>2. RemoteValue(u) = u.delta /\ u.delta \in Deltas /\ u.node \in Nodes
  BY <1>1, WireKeepsTheDelta DEF Update
<1>3. MergeRemote(p, u)
  BY DEF HandleRequest
<1>4. CASE u.delta >= 0
  <2>1. incr' = [incr EXCEPT ![p] = MergeMap(@, Only(u.node, u.delta))]
    BY <1>2, <1>3, <1>4 DEF MergeRemote
  <2>2. u.delta \in Nat /\ u.delta <= incr[u.node][u.node]
    BY <1>1, <1>2, <1>4, AmountsAreNat DEF Known, Applied, Amount
  <2>3. u.delta <= incr'[p][u.node]
    BY <1>0, <1>1, <1>2, <2>1, <2>2, PeerMerges
  <2> QED
    BY <1>4, <2>2, <2>3 DEF Applied, Amount
<1>5. CASE ~(u.delta >= 0)
  <2>1. decr' = [decr EXCEPT ![p] = MergeMap(@, Only(u.node, -u.delta))]
    BY <1>2, <1>3, <1>5 DEF MergeRemote
  <2>2. -u.delta \in Nat /\ u.delta \in Int /\ -u.delta <= decr[u.node][u.node]
    BY <1>1, <1>2, <1>5, AmountsAreNat DEF Known, Applied, Amount
  <2>3. -u.delta <= decr'[p][u.node]
    BY <1>0, <1>1, <1>2, <2>1, <2>2, PeerMerges
  <2> QED
    BY <1>5, <2>2, <2>3 DEF Applied, Amount
<1> QED
  BY <1>4, <1>5

\* Or it notes that it could not.
LEMMA HandledIsLearnt ==
    ASSUME TypeOK, NeverAhead, UnderWayKnown, NEW m \in network, HandleRequest(m)
    PROVE  Learnt(m.update, m.to)'
<1>1. CASE m.to \notin handling
  BY <1>1 DEF HandleRequest, Learnt
<1>2. CASE m.to \in handling
  BY <1>2, HandledIsApplied DEF Learnt
<1> QED
  BY <1>1, <1>2

LEMMA ReportsStep ==
    ASSUME TypeOK, TypeOK', NeverAhead, UnderWayKnown, CountersGrow, ReportsInv, [Next]_vars
    PROVE  ReportsInv'
<1> DEFINE NoLater(b) == b.ok => \A p \in b.to : p \in b.left \cup b.waiting \/ Learnt(b.update, p)'
           NoTwo(b) == \E p \in Nodes : b.waiting \subseteq {p}
\* What was learnt before the step is still learnt.
<1>1. \A m \in network : m.kind = "ack" => Learnt(m.update, m.to)'
  <2>1. \A m \in network : m.update \in Update /\ m.to \in Nodes
    BY DEF TypeOK, Messages
  <2> QED
    BY <2>1, LearntStays DEF ReportsInv, AckMeansLearnt
<1>2. \A b \in broadcasts : NoLater(b) /\ NoTwo(b)
  <2>1. \A b \in broadcasts : b.update \in Update /\ b.to \subseteq Nodes
    BY DEF TypeOK, Broadcasting
  <2> QED
    BY <2>1, LearntStays DEF ReportsInv, SentIsLearnt, OneWait
<1>3. \A s \in reported : \A p \in s.to : Learnt(s.update, p)'
  <2>1. \A s \in reported : s.update \in Update /\ s.to \subseteq Nodes
    BY DEF TypeOK
  <2> QED
    BY <2>1, LearntStays DEF ReportsInv, ReportedIsApplied, Learnt
<1> HIDE DEF NoLater, NoTwo
\* So a step has to answer only for what is new.
<1>4. ASSUME \A m \in network' \ network : m.kind = "ack" => Learnt(m.update, m.to)',
             \A b \in broadcasts' \ broadcasts : NoLater(b) /\ NoTwo(b),
             \A s \in reported' \ reported : \A p \in s.to : Learnt(s.update, p)'
      PROVE  ReportsInv'
  <2>1. AckMeansLearnt'
    BY <1>1, <1>4 DEF AckMeansLearnt
  <2>2. OneWait' /\ SentIsLearnt'
    BY <1>2, <1>4 DEF OneWait, SentIsLearnt, NoLater, NoTwo
  <2>3. ReportedIsApplied'
    BY <1>3, <1>4 DEF ReportedIsApplied, Learnt
  <2> QED
    BY <2>1, <2>2, <2>3 DEF ReportsInv
<1>5. ASSUME \/ \E n \in Nodes, d \in Deltas : BeginUpdate(n, d)
             \/ \E u \in entering : Accept(u) \/ Refuse(u)
             \/ Startup
             \/ \E m \in network : Lose(m)
             \/ UNCHANGED vars
      PROVE  ReportsInv'
  <2>1. network' \subseteq network /\ broadcasts' = broadcasts /\ reported' = reported
    BY <1>5 DEF BeginUpdate, Accept, Refuse, Startup, RegisterHandler, ConnectToPeer, Lose,
       historyVars, vars
  <2> QED
    BY <1>4, <2>1
<1>6. ASSUME NEW u \in outbox, BeginBroadcast(u) PROVE ReportsInv'
  <2> PICK c : c = [update |-> u, to |-> clients[u.node], left |-> clients[u.node],
                    waiting |-> {}, ok |-> TRUE]
    OBVIOUS
  <2>1. broadcasts' \subseteq broadcasts \cup {c} /\ network' = network /\ reported' = reported
    BY <1>6 DEF BeginBroadcast, historyVars
  <2>2. u.node \in Nodes
    BY DEF TypeOK, Update
  <2>3. NoLater(c) /\ NoTwo(c)
    BY <2>2 DEF NoLater, NoTwo
  <2> QED
    BY <1>4, <2>1, <2>3
<1>7. ASSUME NEW b \in broadcasts, NEW p \in Nodes, SendTo(b, p) PROVE ReportsInv'
  <2> PICK c : c = [b EXCEPT !.left = @ \ {p}, !.waiting = {p}]
    OBVIOUS
  <2> PICK m : m = [kind |-> "request", update |-> b.update, to |-> p, ok |-> TRUE]
    OBVIOUS
  <2>1. /\ broadcasts' \subseteq broadcasts \cup {c} /\ network' \subseteq network \cup {m}
        /\ reported' = reported
    BY <1>7 DEF SendTo, Replace, historyVars
  <2>2. /\ c.left = b.left \ {p} /\ c.waiting = {p} /\ c.ok = b.ok /\ c.to = b.to
        /\ c.update = b.update
    BY DEF TypeOK, Broadcasting
  <2>3. b.waiting = {}
    BY <1>7 DEF SendTo
  <2>4. NoLater(c) /\ NoTwo(c)
    BY <1>2, <2>2, <2>3 DEF NoLater, NoTwo
  <2>5. m.kind # "ack"
    OBVIOUS
  <2> QED
    BY <1>4, <2>1, <2>4, <2>5
<1>8. ASSUME NEW b \in broadcasts, NEW p \in Nodes, SendFails(b, p) PROVE ReportsInv'
  <2> PICK c : c = [b EXCEPT !.left = @ \ {p}, !.ok = FALSE]
    OBVIOUS
  <2>1. broadcasts' \subseteq broadcasts \cup {c} /\ network' = network /\ reported' = reported
    BY <1>8 DEF SendFails, Replace, historyVars
  <2>2. c.ok = FALSE /\ c.waiting = b.waiting
    BY DEF TypeOK, Broadcasting
  <2>3. NoLater(c) /\ NoTwo(c)
    BY <1>2, <2>2 DEF NoLater, NoTwo
  <2> QED
    BY <1>4, <2>1, <2>3
<1>9. ASSUME NEW b \in broadcasts, NEW m \in network, ReceiveAck(b, m) PROVE ReportsInv'
  <2> PICK c : c = [b EXCEPT !.waiting = {}]
    OBVIOUS
  <2>1. broadcasts' \subseteq broadcasts \cup {c} /\ network' \subseteq network /\ reported' = reported
    BY <1>9 DEF ReceiveAck, Replace, historyVars
  <2>2. c.left = b.left /\ c.waiting = {} /\ c.ok = b.ok /\ c.to = b.to /\ c.update = b.update
    BY DEF TypeOK, Broadcasting
  \* The one peer waited for is the one that answered.
  <2>3. b.waiting \subseteq {m.to} /\ m.to \in Nodes
    BY <1>2, <1>9 DEF NoTwo, ReceiveAck, TypeOK, Messages
  <2>4. Learnt(b.update, m.to)'
    <3>1. m.update = b.update /\ m.kind = "ack"
      BY <1>9 DEF ReceiveAck
    <3>2. Learnt(m.update, m.to)'
      BY <1>1, <3>1
    <3> QED
      BY <3>1, <3>2
  <2>5. NoLater(c) /\ NoTwo(c)
    BY <1>2, <2>2, <2>3, <2>4 DEF NoLater, NoTwo
  <2> QED
    BY <1>4, <2>1, <2>5
<1>10. ASSUME NEW b \in broadcasts, GiveUp(b) PROVE ReportsInv'
  <2> PICK c : c = [b EXCEPT !.waiting = {}, !.ok = FALSE]
    OBVIOUS
  <2>1. broadcasts' \subseteq broadcasts \cup {c} /\ network' \subseteq network /\ reported' = reported
    BY <1>10 DEF GiveUp, Replace, historyVars
  <2>2. c.ok = FALSE /\ c.waiting = {}
    BY DEF TypeOK, Broadcasting
  <2>3. NoLater(c) /\ NoTwo(c)
    BY <1>2, <2>2 DEF NoLater, NoTwo
  <2> QED
    BY <1>4, <2>1, <2>3
<1>11. ASSUME NEW b \in broadcasts, EndBroadcast(b) PROVE ReportsInv'
  <2> PICK s : s = [update |-> b.update, to |-> b.to]
    OBVIOUS
  <2>1. /\ broadcasts' \subseteq broadcasts /\ network' = network
        /\ reported' = IF b.ok THEN reported \cup {s} ELSE reported
    BY <1>11 DEF EndBroadcast
  <2>2. b.ok => \A p \in s.to : Learnt(s.update, p)'
    BY <1>2, <1>11 DEF NoLater, EndBroadcast
  <2> QED
    BY <1>4, <2>1, <2>2
<1>12. ASSUME NEW m \in network, HandleRequest(m) PROVE ReportsInv'
  <2>1. broadcasts' = broadcasts /\ reported' = reported
    BY <1>12 DEF HandleRequest
  <2>2. \A success \in BOOLEAN :
          /\ [m EXCEPT !.kind = "ack", !.ok = success].update = m.update
          /\ [m EXCEPT !.kind = "ack", !.ok = success].to = m.to
    BY DEF TypeOK, Messages
  <2>3. \A n \in network' \ network : n.update = m.update /\ n.to = m.to
    BY <1>12, <2>2 DEF HandleRequest, Answer
  <2>4. Learnt(m.update, m.to)'
    BY <1>12, HandledIsLearnt
  <2>5. \A n \in network' \ network : n.kind = "ack" => Learnt(n.update, n.to)'
    BY <2>3, <2>4
  <2> QED
    BY <1>4, <2>1, <2>5
<1> QED
  BY <1>5, <1>6, <1>7, <1>8, <1>9, <1>10, <1>11, <1>12
  DEF Next, Calls, DispatchLoops, Network, Rest

LEMMA ReportsStart == Init => ReportsInv
BY DEF Init, ReportsInv, OneWait, AckMeansLearnt, SentIsLearnt, ReportedIsApplied

\* broadcastUpdate: an update counted as a successful send has reached every peer
\* the node was connected to when the broadcast began, but for those that had no
\* handler, for any number of managers and whatever is lost or late.
THEOREM ReportsAreTrue == SafeSpec => []ReportedIsApplied
<1>1. TypeOK /\ TypeOK' /\ NeverAhead /\ UnderWayKnown /\ ReportsInv /\ [Next]_vars
        => NeverAhead' /\ UnderWayKnown' /\ ReportsInv'
  BY CountersStep, UnderWayStep, ReportsStep
<1>2. ReportsInv => ReportedIsApplied
  BY DEF ReportsInv
<1> QED
  BY <1>1, <1>2, AheadStart, ReportsStart, TypeCorrect, PTL DEF SafeSpec

-----------------------------------------------------------------------------
(* A node's own part of the value.                                         *)

\* The updates a node's own entries stand for.
Counted == accepted \cup entering
CountedFor(n) == {u \in Counted : u.node = n}

\* No two calls of Update make the same update, and none is answered twice.
UpdatesApart ==
    /\ IsFiniteSet(Counted)
    /\ entering \cap accepted = {}
    /\ \A u \in Counted : u.seq <= issued[u.node]
    /\ \A u, v \in Counted : u.node = v.node /\ u.seq = v.seq => u = v

\* The inductive form of OwnValueExact.
ExactInv == OwnValueExact /\ UpdatesApart

OwnValue(n) == incr[n][n] - decr[n][n]

\* The deltas of finitely many updates add up, and one may be counted apart.
LEMMA DeltasTake ==
    ASSUME NEW S, IsFiniteSet(S), S \subseteq Update
    PROVE  /\ SumDeltas(S) \in Int
           /\ \A u \in S : SumDeltas(S) = u.delta + SumDeltas(S \ {u})
<1> DEFINE delta(T) == [u \in T |-> u.delta]
<1>1. \A u \in S : u.delta \in Int
  BY WireKeepsTheDelta
<1>2. \A T \in SUBSET S : delta(T) \in [T -> Int] /\ \A u \in T : delta(T)[u] = u.delta
  BY <1>1
<1>3. \A T : SumDeltas(T) = SumFunction(delta(T))
  BY DEF SumDeltas
<1> HIDE DEF delta
<1>4. S \in SUBSET S
  OBVIOUS
<1>5. SumDeltas(S) \in Int
  BY <1>2, <1>3, <1>4, SumType
<1>6. ASSUME NEW u \in S PROVE SumDeltas(S) = u.delta + SumDeltas(S \ {u})
  <2>1. S \ {u} \in SUBSET S
    OBVIOUS
  <2>2. delta(S) \in [S -> Int] /\ delta(S \ {u}) \in [S \ {u} -> Int]
    BY <1>2, <1>4, <2>1
  <2>3. delta(S)[u] = u.delta /\ \A v \in S \ {u} : delta(S \ {u})[v] = delta(S)[v]
    BY <1>2, <1>4, <2>1
  <2> PICK f, g, rest : f = delta(S) /\ g = delta(S \ {u}) /\ rest = S \ {u}
    OBVIOUS
  <2>4. f \in [S -> Int] /\ g \in [rest -> Int] /\ f[u] = u.delta
    BY <2>2, <2>3
  <2>5. \A v \in rest : g[v] = f[v]
    BY <2>3
  <2>6. SumFunction(f) = f[u] + SumFunction(g)
    BY <2>4, <2>5, SumTake
  <2> QED
    BY <1>3, <2>4, <2>6
<1> QED
  BY <1>5, <1>6

LEMMA NoDeltas == SumDeltas({}) = 0
<1> DEFINE none == [u \in {} |-> u.delta]
<1>1. none \in [{} -> Int] /\ SumDeltas({}) = SumFunction(none)
  BY DEF SumDeltas
<1> HIDE DEF none
<1> QED
  BY <1>1, SumNothing

\* What a node's own entries stand for is finite.
LEMMA CountedKnown ==
    ASSUME TypeOK, UpdatesApart, NEW n \in Nodes
    PROVE  /\ IsFiniteSet(CountedFor(n)) /\ CountedFor(n) \subseteq Update
           /\ OwnValue(n) \in Int
<1>1. CountedFor(n) \subseteq Counted /\ Counted \subseteq Update
  BY DEF CountedFor, Counted, TypeOK
<1>2. IsFiniteSet(CountedFor(n))
  BY <1>1, FS_Subset DEF UpdatesApart
<1>3. OwnValue(n) \in Int
  BY DEF OwnValue, TypeOK, Maps
<1> QED
  BY <1>1, <1>2, <1>3

\* A step that touches no owner's entry and answers at most one more call.
LEMMA OwnValueStays ==
    ASSUME ExactInv, \A n \in Nodes : OwnValue(n)' = OwnValue(n),
           Counted' = Counted, entering' \cap accepted' = {}, issued' = issued
    PROVE  ExactInv'
<1>1. \A n \in Nodes : CountedFor(n)' = CountedFor(n)
  BY DEF CountedFor
<1>2. OwnValueExact'
  BY <1>1 DEF ExactInv, OwnValueExact, OwnValue, CountedFor, Counted, SumDeltas
<1>3. UpdatesApart'
  BY DEF ExactInv, UpdatesApart
<1> QED
  BY <1>2, <1>3 DEF ExactInv

\* Update adds the delta and nobody else has made this update before.
LEMMA BeginExact ==
    ASSUME TypeOK, TypeOK', ExactInv, NEW n \in Nodes, NEW d \in Deltas, BeginUpdate(n, d)
    PROVE  ExactInv'
<1> PICK u : u = [node |-> n, seq |-> issued[n] + 1, delta |-> d]
  OBVIOUS
<1>1. u.node = n /\ u.seq = issued[n] + 1 /\ u.delta = d /\ d \in Int
  BY AmountsAreNat
<1>2. /\ \A m \in Nodes : issued[m] \in Nat
      /\ \A m \in Nodes : issued'[m] = IF m = n THEN issued[m] + 1 ELSE issued[m]
      /\ Counted' = Counted \cup {u} /\ entering' = entering \cup {u} /\ accepted' = accepted
  BY DEF BeginUpdate, Counted, historyVars, TypeOK
<1>3. \A v \in Counted : v.node \in Nodes /\ v.seq \in Nat /\ v.seq <= issued[v.node]
  <2>1. Counted \subseteq Update /\ 1..MaxUpdates \subseteq Nat
    BY MaxUpdatesAssumption DEF Counted, TypeOK
  <2> QED
    BY <2>1 DEF ExactInv, UpdatesApart, Update
<1>4. u \notin Counted
  BY <1>1, <1>2, <1>3
<1>5. UpdatesApart'
  <2>1. IsFiniteSet(Counted')
    BY <1>2, FS_AddElement DEF ExactInv, UpdatesApart
  <2>2. entering' \cap accepted' = {}
    BY <1>2, <1>4 DEF ExactInv, UpdatesApart, Counted
  <2>3. \A v \in Counted' : v.seq <= issued'[v.node]
    BY <1>1, <1>2, <1>3
  <2>4. \A v \in Counted : ~(v.node = u.node /\ v.seq = u.seq)
    BY <1>1, <1>2, <1>3
  <2>5. \A v, w \in Counted' : v.node = w.node /\ v.seq = w.seq => v = w
    BY <1>2, <2>4 DEF ExactInv, UpdatesApart
  <2> QED
    BY <2>1, <2>2, <2>3, <2>5 DEF UpdatesApart
<1>6. incr \in Tables /\ decr \in Tables /\ \A i, j \in Nodes : incr[i][j] \in Int /\ decr[i][j] \in Int
  BY DEF TypeOK, Tables, Maps
<1>7. \A m \in Nodes : OwnValue(m)' = IF m = n THEN OwnValue(m) + d ELSE OwnValue(m)
  <2>1. CASE d >= 0
    <3>1. incr' = [incr EXCEPT ![n] = Plus(@, n, d)] /\ decr' = decr
      BY <2>1 DEF BeginUpdate, ApplyLocal
    <3>2. \A m \in Nodes : incr'[m][m] = IF m = n THEN incr[m][m] + d ELSE incr[m][m]
      BY <1>6, <3>1 DEF Tables, Maps, Plus
    <3> QED
      BY <1>1, <1>6, <3>1, <3>2 DEF OwnValue
  <2>2. CASE ~(d >= 0)
    <3>1. decr' = [decr EXCEPT ![n] = Plus(@, n, -d)] /\ incr' = incr
      BY <2>2 DEF BeginUpdate, ApplyLocal
    <3>2. \A m \in Nodes : decr'[m][m] = IF m = n THEN decr[m][m] + (-d) ELSE decr[m][m]
      BY <1>6, <3>1 DEF Tables, Maps, Plus
    <3> QED
      BY <1>1, <1>6, <3>1, <3>2 DEF OwnValue
  <2> QED
    BY <2>1, <2>2
<1>8. ASSUME NEW m \in Nodes PROVE OwnValue(m)' = SumDeltas(CountedFor(m))'
  <2>1. OwnValue(m) = SumDeltas(CountedFor(m))
    BY DEF ExactInv, OwnValueExact, OwnValue, CountedFor, Counted
  <2>2. CASE m # n
    <3>1. CountedFor(m)' = CountedFor(m)
      BY <1>1, <1>2, <2>2 DEF CountedFor
    <3> QED
      BY <1>7, <2>1, <2>2, <3>1 DEF SumDeltas
  <2>3. CASE m = n
    <3>1. u \in CountedFor(m)' /\ CountedFor(m)' \ {u} = CountedFor(m)
      BY <1>1, <1>2, <1>4, <2>3 DEF CountedFor
    <3>2. IsFiniteSet(CountedFor(m)') /\ CountedFor(m)' \subseteq Update
      <4>1. CountedFor(m)' \subseteq Counted' /\ Counted' \subseteq Update
        BY DEF CountedFor, Counted, TypeOK
      <4> QED
        BY <1>5, <4>1, FS_Subset DEF UpdatesApart
    <3>3. SumDeltas(CountedFor(m)') = u.delta + SumDeltas(CountedFor(m))
      BY <3>1, <3>2, DeltasTake
    <3>4. SumDeltas(CountedFor(m))' = SumDeltas(CountedFor(m)')
      BY DEF SumDeltas
    <3>5. OwnValue(m) \in Int
      BY CountedKnown DEF ExactInv
    <3> QED
      BY <1>1, <1>7, <2>1, <2>3, <3>3, <3>4, <3>5
  <2> QED
    BY <2>2, <2>3
<1>9. OwnValueExact'
  BY <1>8 DEF OwnValueExact, OwnValue, CountedFor, Counted
<1> QED
  BY <1>5, <1>9 DEF ExactInv

\* The roll back takes the delta out again, once.
LEMMA RefuseExact ==
    ASSUME TypeOK, TypeOK', ExactInv, NEW u \in entering, Refuse(u)
    PROVE  ExactInv'
<1> PICK n, d : n = u.node /\ d = u.delta
  OBVIOUS
<1>1. n \in Nodes /\ d \in Deltas /\ d \in Int
  BY AmountsAreNat DEF TypeOK, Update
<1>2. Counted' = Counted \ {u} /\ entering' = entering \ {u} /\ accepted' = accepted /\ issued' = issued
  BY DEF Refuse, Counted, historyVars, ExactInv, UpdatesApart
<1>3. UpdatesApart'
  <2>1. IsFiniteSet(Counted')
    BY <1>2, FS_RemoveElement DEF ExactInv, UpdatesApart
  <2> QED
    BY <1>2, <2>1 DEF ExactInv, UpdatesApart
<1>4. incr \in Tables /\ decr \in Tables /\ \A i, j \in Nodes : incr[i][j] \in Int /\ decr[i][j] \in Int
  BY DEF TypeOK, Tables, Maps
<1>5. \A m \in Nodes : OwnValue(m)' = IF m = n THEN OwnValue(m) - d ELSE OwnValue(m)
  <2>1. CASE d >= 0
    <3>1. decr' = [decr EXCEPT ![n] = Plus(@, n, d)] /\ incr' = incr
      BY <2>1 DEF Refuse
    <3>2. \A m \in Nodes : decr'[m][m] = IF m = n THEN decr[m][m] + d ELSE decr[m][m]
      BY <1>4, <3>1 DEF Tables, Maps, Plus
    <3> QED
      BY <1>1, <1>4, <3>1, <3>2 DEF OwnValue
  <2>2. CASE ~(d >= 0)
    <3>1. incr' = [incr EXCEPT ![n] = Plus(@, n, -d)] /\ decr' = decr
      BY <2>2 DEF Refuse
    <3>2. \A m \in Nodes : incr'[m][m] = IF m = n THEN incr[m][m] + (-d) ELSE incr[m][m]
      BY <1>4, <3>1 DEF Tables, Maps, Plus
    <3> QED
      BY <1>1, <1>4, <3>1, <3>2 DEF OwnValue
  <2> QED
    BY <2>1, <2>2
<1>6. ASSUME NEW m \in Nodes PROVE OwnValue(m)' = SumDeltas(CountedFor(m))'
  <2>1. OwnValue(m) = SumDeltas(CountedFor(m))
    BY DEF ExactInv, OwnValueExact, OwnValue, CountedFor, Counted
  <2>2. CASE m # n
    <3>1. CountedFor(m)' = CountedFor(m)
      BY <1>2, <2>2 DEF CountedFor
    <3> QED
      BY <1>5, <2>1, <2>2, <3>1 DEF SumDeltas
  <2>3. CASE m = n
    <3>1. u \in CountedFor(m) /\ CountedFor(m) \ {u} = CountedFor(m)'
      BY <1>2, <2>3 DEF CountedFor, Counted
    <3>2. IsFiniteSet(CountedFor(m)) /\ CountedFor(m) \subseteq Update
      BY CountedKnown DEF ExactInv
    <3>3. SumDeltas(CountedFor(m)) = d + SumDeltas(CountedFor(m)')
      BY <3>1, <3>2, DeltasTake
    <3>4. SumDeltas(CountedFor(m))' = SumDeltas(CountedFor(m)')
      BY DEF SumDeltas
    <3>5. SumDeltas(CountedFor(m)') \in Int
      <4>1. CountedFor(m)' \subseteq Counted' /\ Counted' \subseteq Update
        BY DEF CountedFor, Counted, TypeOK
      <4>2. IsFiniteSet(CountedFor(m)')
        BY <1>3, <4>1, FS_Subset DEF UpdatesApart
      <4> QED
        BY <4>1, <4>2, DeltasTake
    <3> QED
      BY <1>1, <1>5, <2>1, <2>3, <3>3, <3>4, <3>5
  <2> QED
    BY <2>2, <2>3
<1>7. OwnValueExact'
  BY <1>6 DEF OwnValueExact, OwnValue, CountedFor, Counted
<1> QED
  BY <1>3, <1>7 DEF ExactInv

\* A message says nothing of the peer it reaches that the peer does not know.
LEMMA HandleRequestExact ==
    ASSUME TypeOK, NeverAhead, UnderWayKnown, ExactInv, NEW m \in network, HandleRequest(m)
    PROVE  ExactInv'
<1>0. incr \in Tables /\ decr \in Tables /\ Bounded(incr) /\ Bounded(decr)
  BY NeverAheadIsBounded DEF Tables, TypeOK
<1>1. m.to \in Nodes /\ m.update \in Update /\ Known(m.update)
  BY DEF TypeOK, Messages, UnderWayKnown, UnderWay, InFlight
<1>2. \A n \in Nodes : OwnValue(n)' = OwnValue(n)
  <2>1. CASE m.to \notin handling
    BY <2>1 DEF HandleRequest, countersVars, OwnValue
  <2>2. CASE m.to \in handling
    <3> PICK u, p : u = m.update /\ p = m.to
      OBVIOUS
    <3>1. RemoteValue(u) = u.delta /\ u.delta \in Deltas /\ u.node \in Nodes
      BY <1>1, WireKeepsTheDelta DEF Update
    <3>2. MergeRemote(p, u)
      BY <2>2 DEF HandleRequest
    <3>3. CASE u.delta >= 0
      <4>1. incr' = [incr EXCEPT ![p] = MergeMap(@, Only(u.node, u.delta))] /\ decr' = decr
        BY <3>1, <3>2, <3>3 DEF MergeRemote
      <4>2. u.delta \in Nat /\ u.delta <= incr[u.node][u.node]
        BY <1>1, <3>1, <3>3, AmountsAreNat DEF Known, Applied, Amount
      <4>3. \A n \in Nodes : incr'[n][n] = incr[n][n]
        BY <1>0, <1>1, <3>1, <4>1, <4>2, PeerMerges
      <4> QED
        BY <4>1, <4>3 DEF OwnValue
    <3>4. CASE ~(u.delta >= 0)
      <4>1. decr' = [decr EXCEPT ![p] = MergeMap(@, Only(u.node, -u.delta))] /\ incr' = incr
        BY <3>1, <3>2, <3>4 DEF MergeRemote
      <4>2. -u.delta \in Nat /\ u.delta \in Int /\ -u.delta <= decr[u.node][u.node]
        BY <1>1, <3>1, <3>4, AmountsAreNat DEF Known, Applied, Amount
      <4>3. \A n \in Nodes : decr'[n][n] = decr[n][n]
        BY <1>0, <1>1, <3>1, <4>1, <4>2, PeerMerges
      <4> QED
        BY <4>1, <4>3 DEF OwnValue
    <3> QED
      BY <3>3, <3>4
  <2> QED
    BY <2>1, <2>2
<1>3. Counted' = Counted /\ entering' \cap accepted' = {} /\ issued' = issued
  BY DEF HandleRequest, Counted, ExactInv, UpdatesApart
<1> QED
  BY <1>2, <1>3, OwnValueStays

\* Every step keeps a node's own part exact.
LEMMA ExactStep ==
    ASSUME TypeOK, TypeOK', NeverAhead, UnderWayKnown, ExactInv, [Next]_vars
    PROVE  ExactInv'
<1>1. ASSUME UNCHANGED countersVars, Counted' = Counted, entering' \cap accepted' = {}, issued' = issued
      PROVE  ExactInv'
  BY <1>1, OwnValueStays DEF countersVars, OwnValue
<1>2. entering \cap accepted = {}
  BY DEF ExactInv, UpdatesApart
<1>3. ASSUME NEW u \in entering, Accept(u) PROVE ExactInv'
  <2>1. Counted' = Counted /\ entering' \cap accepted' = {}
    BY <1>2, <1>3 DEF Accept, Counted
  <2> QED
    BY <1>1, <1>3, <2>1 DEF Accept
<1>4. ASSUME UNCHANGED <<countersVars, entering, accepted, issued>> PROVE ExactInv'
  BY <1>1, <1>2, <1>4 DEF Counted
<1>5. CASE Startup
  BY <1>4, <1>5 DEF Startup, RegisterHandler, ConnectToPeer, historyVars
<1>6. CASE DispatchLoops
  BY <1>4, <1>6 DEF DispatchLoops, BeginBroadcast, SendTo, SendFails, ReceiveAck, GiveUp,
     EndBroadcast, historyVars
<1>7. ASSUME NEW m \in network, Lose(m) PROVE ExactInv'
  BY <1>4, <1>7 DEF Lose, historyVars
<1>8. CASE UNCHANGED vars
  BY <1>4, <1>8 DEF vars, historyVars
<1> QED
  BY <1>3, <1>5, <1>6, <1>7, <1>8, BeginExact, RefuseExact, HandleRequestExact
  DEF Next, Calls, Network, Rest

\* At first nothing has been done.
LEMMA ExactStart == Init => ExactInv
<1> SUFFICES ASSUME Init PROVE ExactInv
  OBVIOUS
<1>1. Counted = {} /\ \A n \in Nodes : CountedFor(n) = {}
  BY DEF Init, Counted, CountedFor
<1>2. SumDeltas({}) = 0
  BY NoDeltas
<1>3. \A n \in Nodes : incr[n][n] - decr[n][n] = 0
  BY DEF Init, Empty
<1>4. UpdatesApart
  BY <1>1, FS_EmptySet DEF UpdatesApart, Init
<1> QED
  BY <1>1, <1>2, <1>3, <1>4 DEF ExactInv, OwnValueExact, CountedFor, Counted

\* Update and HandleRemoteUpdate: a node's own part of the value is exactly the
\* updates it accepted and those still being decided.
THEOREM OwnValueIsExact == SafeSpec => []OwnValueExact
<1>1. TypeOK /\ TypeOK' /\ NeverAhead /\ UnderWayKnown /\ ExactInv /\ [Next]_vars
        => NeverAhead' /\ UnderWayKnown' /\ ExactInv'
  BY CountersStep, UnderWayStep, ExactStep
<1>2. ExactInv => OwnValueExact
  BY DEF ExactInv
<1> QED
  BY <1>1, <1>2, AheadStart, ExactStart, TypeCorrect, PTL DEF SafeSpec
-----------------------------------------------------------------------------
(* What a peer holds of a node.                                            *)

\* An amount is nothing, or what one of these updates added.
OneOf(amount, S) == amount = 0 \/ \E u \in S : amount = Amount(u.delta)

Gains(n) == {u \in accepted : u.node = n /\ u.delta >= 0}
Losses(n) == {u \in accepted : u.node = n /\ ~(u.delta >= 0)}

HoldsOne(p, n) == OneOf(incr[p][n], Gains(n)) /\ OneOf(decr[p][n], Losses(n))

PeersHoldOne == \A p, n \in Nodes : p # n => HoldsOne(p, n)

\* The inductive form of PeersHoldOne: only what was accepted travels.
HoldInv == InFlight \subseteq accepted /\ PeersHoldOne

\* More accepted updates leave an amount what it was.
LEMMA OneOfMore ==
    ASSUME NEW amount, NEW S, NEW T, S \subseteq T, OneOf(amount, S)
    PROVE  OneOf(amount, T)
BY DEF OneOf

\* A node's own operations move no entry of a peer.
LEMMA PeersEntriesStay ==
    ASSUME TypeOK, [Next]_vars, ~ \E m \in network : HandleRequest(m),
           NEW p \in Nodes, NEW n \in Nodes, p # n
    PROVE  incr'[p][n] = incr[p][n] /\ decr'[p][n] = decr[p][n]
<1>0. incr \in Tables /\ decr \in Tables
  BY DEF Tables, TypeOK
<1> DEFINE Goal == incr'[p][n] = incr[p][n] /\ decr'[p][n] = decr[p][n]
<1>1. ASSUME NEW i \in Nodes, NEW d \in Deltas, BeginUpdate(i, d) PROVE Goal
  <2>1. CASE d >= 0
    <3>1. d \in Nat /\ incr' = [incr EXCEPT ![i] = Plus(@, i, d)] /\ decr' = decr
      BY <1>1, <2>1, AmountsAreNat DEF BeginUpdate, ApplyLocal
    <3> QED
      BY <1>0, <3>1, EntryAdded
  <2>2. CASE ~(d >= 0)
    <3>1. -d \in Nat /\ decr' = [decr EXCEPT ![i] = Plus(@, i, -d)] /\ incr' = incr
      BY <1>1, <2>2, AmountsAreNat DEF BeginUpdate, ApplyLocal
    <3> QED
      BY <1>0, <3>1, EntryAdded
  <2> QED
    BY <2>1, <2>2
<1>2. ASSUME NEW u \in entering, Refuse(u) PROVE Goal
  <2>1. u.node \in Nodes /\ u.delta \in Deltas
    BY DEF TypeOK, Update
  <2>2. CASE u.delta >= 0
    <3>1. u.delta \in Nat /\ decr' = [decr EXCEPT ![u.node] = Plus(@, u.node, u.delta)] /\ incr' = incr
      BY <1>2, <2>1, <2>2, AmountsAreNat DEF Refuse
    <3> QED
      BY <1>0, <2>1, <3>1, EntryAdded
  <2>3. CASE ~(u.delta >= 0)
    <3>1. -u.delta \in Nat /\ incr' = [incr EXCEPT ![u.node] = Plus(@, u.node, -u.delta)] /\ decr' = decr
      BY <1>2, <2>1, <2>3, AmountsAreNat DEF Refuse
    <3> QED
      BY <1>0, <2>1, <3>1, EntryAdded
  <2> QED
    BY <2>2, <2>3
<1>3. ASSUME \/ \E u \in entering : Accept(u)
             \/ Startup
             \/ DispatchLoops
             \/ \E m \in network : Lose(m)
             \/ UNCHANGED vars
      PROVE  Goal
  <2>1. UNCHANGED countersVars
    BY <1>3 DEF Accept, Startup, RegisterHandler, ConnectToPeer, DispatchLoops, BeginBroadcast,
       SendTo, SendFails, ReceiveAck, GiveUp, EndBroadcast, Lose, vars
  <2> QED
    BY <2>1 DEF countersVars
<1> QED
  BY <1>1, <1>2, <1>3 DEF Next, Calls, Network, Rest

LEMMA AcceptedStays ==
    ASSUME [Next]_vars
    PROVE  accepted \subseteq accepted'
BY DEF Next, Calls, BeginUpdate, Accept, Refuse, Startup, RegisterHandler, ConnectToPeer,
   DispatchLoops, BeginBroadcast, SendTo, SendFails, ReceiveAck, GiveUp, EndBroadcast, Network,
   HandleRequest, Lose, Rest, vars, historyVars

\* An entry keeps its value or takes the merged one.
LEMMA EntryKeptOrTaken ==
    ASSUME NEW table \in Tables, NEW later, NEW p \in Nodes, NEW q \in Nodes,
           NEW n \in Nodes, NEW k \in Nodes, NEW v \in Nat,
           later = [table EXCEPT ![q] = MergeMap(@, Only(k, v))]
    PROVE  later[p][n] = table[p][n] \/ (n = k /\ later[p][n] = v)
<1>1. \A i, j \in Nodes : later[i][j] = IF i = q /\ j = k /\ v > table[i][j] THEN v ELSE table[i][j]
  BY EntryMerged
<1> QED
  BY <1>1

\* A message leaves the peer with what it had or with what it carries.
LEMMA HandledIsOne ==
    ASSUME TypeOK, HoldInv, NEW m \in network, HandleRequest(m),
           NEW p \in Nodes, NEW n \in Nodes, p # n
    PROVE  OneOf(incr'[p][n], Gains(n)) /\ OneOf(decr'[p][n], Losses(n))
<1>0. incr \in Tables /\ decr \in Tables
  BY DEF Tables, TypeOK
<1>1. m.to \in Nodes /\ m.update \in Update /\ m.update \in accepted
  BY DEF TypeOK, Messages, HoldInv, InFlight
<1>2. OneOf(incr[p][n], Gains(n)) /\ OneOf(decr[p][n], Losses(n))
  BY DEF HoldInv, PeersHoldOne, HoldsOne
<1>3. CASE m.to \notin handling
  BY <1>2, <1>3 DEF HandleRequest, countersVars
<1>4. CASE m.to \in handling
  <2> PICK u, q : u = m.update /\ q = m.to
    OBVIOUS
  <2>1. RemoteValue(u) = u.delta /\ u.delta \in Deltas /\ u.delta \in Int /\ u.node \in Nodes
    BY <1>1, WireKeepsTheDelta DEF Update
  <2>2. MergeRemote(q, u)
    BY <1>4 DEF HandleRequest
  <2>3. CASE u.delta >= 0
    <3>1. u.delta \in Nat /\ incr' = [incr EXCEPT ![q] = MergeMap(@, Only(u.node, u.delta))] /\ decr' = decr
      BY <2>1, <2>2, <2>3, AmountsAreNat DEF MergeRemote
    <3>2. incr'[p][n] = incr[p][n] \/ (n = u.node /\ incr'[p][n] = u.delta)
      BY <1>0, <1>1, <2>1, <3>1, EntryKeptOrTaken
    <3>3. n = u.node => u \in Gains(n) /\ Amount(u.delta) = u.delta
      BY <1>1, <2>1, <2>3 DEF Gains, Amount
    <3> QED
      BY <1>2, <3>1, <3>2, <3>3 DEF OneOf
  <2>4. CASE ~(u.delta >= 0)
    <3>1. -u.delta \in Nat /\ decr' = [decr EXCEPT ![q] = MergeMap(@, Only(u.node, -u.delta))] /\ incr' = incr
      BY <2>1, <2>2, <2>4, AmountsAreNat DEF MergeRemote
    <3>2. decr'[p][n] = decr[p][n] \/ (n = u.node /\ decr'[p][n] = -u.delta)
      BY <1>0, <1>1, <2>1, <3>1, EntryKeptOrTaken
    <3>3. n = u.node => u \in Losses(n) /\ Amount(u.delta) = -u.delta
      BY <1>1, <2>1, <2>4 DEF Losses, Amount
    <3> QED
      BY <1>2, <3>1, <3>2, <3>3 DEF OneOf
  <2> QED
    BY <2>3, <2>4
<1> QED
  BY <1>3, <1>4

LEMMA HoldStep ==
    ASSUME TypeOK, HoldInv, [Next]_vars
    PROVE  HoldInv'
<1>1. accepted \subseteq accepted'
  BY AcceptedStays
<1>2. (InFlight \subseteq accepted)'
  BY <1>1, TakesOff DEF HoldInv
<1>3. ASSUME NEW p \in Nodes, NEW n \in Nodes, p # n PROVE HoldsOne(p, n)'
  <2>1. Gains(n) \subseteq Gains(n)' /\ Losses(n) \subseteq Losses(n)'
    BY <1>1 DEF Gains, Losses
  <2>2. OneOf(incr'[p][n], Gains(n)) /\ OneOf(decr'[p][n], Losses(n))
    <3>1. ASSUME NEW m \in network, HandleRequest(m)
          PROVE  OneOf(incr'[p][n], Gains(n)) /\ OneOf(decr'[p][n], Losses(n))
      BY <1>3, <3>1, HandledIsOne
    <3>2. CASE ~ \E m \in network : HandleRequest(m)
      BY <1>3, <3>2, PeersEntriesStay DEF HoldInv, PeersHoldOne, HoldsOne
    <3> QED
      BY <3>1, <3>2
  <2>3. OneOf(incr'[p][n], Gains(n)') /\ OneOf(decr'[p][n], Losses(n)')
    BY <2>1, <2>2, OneOfMore
  <2> QED
    BY <2>3 DEF HoldsOne, OneOf
<1> QED
  BY <1>2, <1>3 DEF HoldInv, PeersHoldOne

LEMMA HoldStart == Init => HoldInv
BY DEF Init, HoldInv, InFlight, PeersHoldOne, HoldsOne, OneOf, Empty

\* HandleRemoteUpdate merges deltas, not states: however many updates a node
\* makes, each map of a peer holds nothing of it or what one of them added.
THEOREM PeersHoldOneUpdate == SafeSpec => []PeersHoldOne
<1>1. TypeOK /\ HoldInv /\ [Next]_vars => HoldInv'
  BY HoldStep
<1>2. HoldInv => PeersHoldOne
  BY DEF HoldInv
<1> QED
  BY <1>1, <1>2, HoldStart, TypeCorrect, PTL DEF SafeSpec

-----------------------------------------------------------------------------
(* What everybody has when nothing is under way.                           *)

\* Every manager is started and connected to all others.
Linked == handling = Nodes /\ \A n \in Nodes : clients[n] = Nodes \ {n}

\* The update is still to be sent to the peer, or on its way there.
Coming(u, p) ==
    \/ u \in outbox
    \/ \E b \in broadcasts : b.update = u /\ p \in b.left
    \/ \E m \in network : m.kind = "request" /\ m.update = u /\ m.to = p

EveryoneHears ==
    \A u \in accepted : \A p \in Nodes \ {u.node} : Coming(u, p) \/ Applied(u, p)

LEMMA LinkedStays ==
    ASSUME Linked, [Next]_vars
    PROVE  Linked'
<1>1. ASSUME NEW n \in Nodes, RegisterHandler(n) PROVE FALSE
  BY <1>1 DEF RegisterHandler, Linked
<1>2. ASSUME NEW n \in Nodes, NEW p \in Nodes, ConnectToPeer(n, p) PROVE FALSE
  BY <1>2 DEF ConnectToPeer, Linked
<1>3. UNCHANGED <<handling, clients>>
  BY <1>1, <1>2 DEF Next, Calls, BeginUpdate, Accept, Refuse, Startup,
     DispatchLoops, BeginBroadcast, SendTo, SendFails, ReceiveAck, GiveUp, EndBroadcast, Network,
     HandleRequest, Lose, Rest, vars
<1> QED
  BY <1>3 DEF Linked

\* Without losses what is coming keeps coming until it has arrived.
LEMMA KeepsComing ==
    ASSUME Reliable, TypeOK, NeverAhead, UnderWayKnown, Linked, [Next]_vars,
           NEW u \in Update, NEW p \in Nodes \ {u.node}, Coming(u, p)
    PROVE  Coming(u, p)' \/ Applied(u, p)'
<1> DEFINE Goal == Coming(u, p)' \/ Applied(u, p)'
<1>1. ASSUME outbox \subseteq outbox', broadcasts \subseteq broadcasts', network \subseteq network'
      PROVE  Goal
  BY <1>1 DEF Coming
<1>2. ASSUME NEW v \in outbox, BeginBroadcast(v) PROVE Goal
  <2>1. CASE u = v
    <3> PICK b : b = [update |-> v, to |-> clients[v.node], left |-> clients[v.node],
                      waiting |-> {}, ok |-> TRUE]
      OBVIOUS
    <3>1. b \in broadcasts' /\ b.update = u /\ b.left = clients[u.node]
      BY <1>2, <2>1 DEF BeginBroadcast
    <3>2. p \in clients[u.node]
      BY DEF Linked, Update
    <3> QED
      BY <3>1, <3>2 DEF Coming
  <2>2. CASE u # v
    BY <1>2, <2>2 DEF BeginBroadcast, Coming
  <2> QED
    BY <2>1, <2>2
<1>3. ASSUME NEW b \in broadcasts, NEW q \in Nodes, SendTo(b, q) PROVE Goal
  <2> PICK c : c = [b EXCEPT !.left = @ \ {q}, !.waiting = {q}]
    OBVIOUS
  <2> PICK m : m = [kind |-> "request", update |-> b.update, to |-> q, ok |-> TRUE]
    OBVIOUS
  <2>1. /\ broadcasts' = (broadcasts \ {b}) \cup {c} /\ network' = network \cup {m}
        /\ outbox' = outbox
    BY <1>3 DEF SendTo, Replace
  <2>2. c.update = b.update /\ c.left = b.left \ {q}
    BY DEF TypeOK, Broadcasting
  <2>3. m.kind = "request" /\ m.update = b.update /\ m.to = q
    OBVIOUS
  <2> QED
    BY <2>1, <2>2, <2>3 DEF Coming
<1>4. ASSUME NEW b \in broadcasts, NEW m \in network, ReceiveAck(b, m) PROVE Goal
  <2> PICK c : c = [b EXCEPT !.waiting = {}]
    OBVIOUS
  <2>1. /\ broadcasts' = (broadcasts \ {b}) \cup {c} /\ network' = network \ {m}
        /\ outbox' = outbox /\ m.kind = "ack"
    BY <1>4 DEF ReceiveAck, Replace
  <2>2. c.update = b.update /\ c.left = b.left
    BY DEF TypeOK, Broadcasting
  <2> QED
    BY <2>1, <2>2 DEF Coming
<1>5. ASSUME NEW b \in broadcasts, EndBroadcast(b) PROVE Goal
  BY <1>5 DEF EndBroadcast, Coming
<1>6. ASSUME NEW m \in network, HandleRequest(m) PROVE Goal
  <2>1. m.to \in handling
    BY DEF Linked, TypeOK, Messages
  <2>2. Applied(m.update, m.to)'
    BY <1>6, <2>1, HandledIsApplied
  <2>3. network \ {m} \subseteq network' /\ outbox' = outbox /\ broadcasts' = broadcasts
    BY <1>6 DEF HandleRequest, Answer
  <2>4. CASE m.update = u /\ m.to = p
    <3> QED
      BY <2>2, <2>4
  <2>5. CASE ~(m.update = u /\ m.to = p)
    BY <2>3, <2>5 DEF Coming
  <2> QED
    BY <2>4, <2>5
<1>7. ASSUME \/ \E n \in Nodes, d \in Deltas : BeginUpdate(n, d)
             \/ \E v \in entering : Accept(v) \/ Refuse(v)
             \/ Startup
             \/ UNCHANGED vars
      PROVE  Goal
  BY <1>1, <1>7 DEF BeginUpdate, Accept, Refuse, Startup, RegisterHandler, ConnectToPeer, vars
<1>8. /\ \A m \in network : ~Lose(m)
      /\ \A b \in broadcasts : ~GiveUp(b) /\ \A q \in Nodes : ~SendFails(b, q)
  BY DEF Lose, GiveUp, SendFails
<1> QED
  BY <1>2, <1>3, <1>4, <1>5, <1>6, <1>7, <1>8 DEF Next, Calls, DispatchLoops, Network, Rest

LEMMA HearingStep ==
    ASSUME Reliable, TypeOK, TypeOK', NeverAhead, UnderWayKnown, CountersGrow, Linked,
           EveryoneHears, [Next]_vars
    PROVE  EveryoneHears'
<1>1. ASSUME NEW u \in accepted, NEW p \in Nodes \ {u.node} PROVE Coming(u, p)' \/ Applied(u, p)'
  <2>1. u \in Update
    BY DEF TypeOK
  <2>2. CASE Coming(u, p)
    BY <2>1, <2>2, KeepsComing
  <2>3. CASE Applied(u, p)
    BY <2>1, <2>3, AppliedStays
  <2> QED
    BY <2>2, <2>3 DEF EveryoneHears
<1>2. accepted' \ accepted \subseteq outbox'
  BY DEF Next, Calls, BeginUpdate, Accept, Refuse, Startup, RegisterHandler, ConnectToPeer,
     DispatchLoops, BeginBroadcast, SendTo, SendFails, ReceiveAck, GiveUp, EndBroadcast, Network,
     HandleRequest, Lose, Rest, vars, historyVars
<1>3. ASSUME NEW u \in accepted', u \notin accepted, NEW p \in Nodes PROVE Coming(u, p)'
  BY <1>2, <1>3 DEF Coming
<1> QED
  BY <1>1, <1>3 DEF EveryoneHears

\* Of all that a node has accepted a peer holds the largest increment and the
\* largest decrement, and nothing else.
HoldsLargest(p, n) ==
    HoldsOne(p, n) /\ \A u \in accepted : u.node = n => Applied(u, p)

PeersHoldLargest == Quiet => \A p, n \in Nodes : p # n => HoldsLargest(p, n)

\* The invariant of a cluster that loses nothing.
ReliableInv ==
    TypeOK /\ NeverAhead /\ UnderWayKnown /\ ExactInv /\ HoldInv /\ Linked /\ EveryoneHears

LEMMA ReliableAlways ==
    ASSUME Reliable, Connected
    PROVE  SafeSpec => []ReliableInv
<1>1. Init => ReliableInv
  <2> SUFFICES ASSUME Init PROVE ReliableInv
    OBVIOUS
  <2>1. TypeOK
    BY MaxUpdatesAssumption, SwitchesAssumption DEF Init, TypeOK, Maps, Empty
  <2>2. Linked /\ EveryoneHears
    BY DEF Init, Linked, EveryoneHears
  <2> QED
    BY <2>1, <2>2, AheadStart, ExactStart, HoldStart DEF ReliableInv
<1>2. ReliableInv /\ TypeOK' /\ [Next]_vars => ReliableInv'
  BY CountersStep, UnderWayStep, ExactStep, HoldStep, LinkedStays, HearingStep DEF ReliableInv
<1> QED
  BY <1>1, <1>2, TypeCorrect, PTL DEF SafeSpec

\* broadcastUpdate and HandleRemoteUpdate: without losses, when nothing is under
\* way, a peer holds of each node its largest increment and its largest
\* decrement, whatever number of updates the node has made.
THEOREM PeersHoldTheLargest ==
    ASSUME Reliable, Connected
    PROVE  SafeSpec => []PeersHoldLargest
<1>1. ReliableInv => PeersHoldLargest
  <2> SUFFICES ASSUME ReliableInv, Quiet, NEW p \in Nodes, NEW n \in Nodes, p # n
               PROVE  HoldsLargest(p, n)
    BY DEF PeersHoldLargest
  <2>1. HoldsOne(p, n)
    BY DEF ReliableInv, HoldInv, PeersHoldOne
  <2>2. ASSUME NEW u \in accepted, u.node = n PROVE Applied(u, p)
    <3>1. ~Coming(u, p)
      BY DEF Quiet, Coming
    <3> QED
      BY <2>2, <3>1 DEF ReliableInv, EveryoneHears
  <2> QED
    BY <2>1, <2>2 DEF HoldsLargest
<1> QED
  BY <1>1, ReliableAlways, PTL

\* With one update per node the largest is all there is.
LEMMA CreditIsExact ==
    ASSUME MaxUpdates = 1, ReliableInv, PeersHoldLargest, Quiet, NEW p \in Nodes, NEW n \in Nodes
    PROVE  incr[p][n] - decr[p][n] = OwnValue(n)
<1>1. CASE p = n
  BY <1>1 DEF OwnValue
<1>2. CASE p # n
  <2>1. HoldsLargest(p, n)
    BY <1>2 DEF PeersHoldLargest
  <2>2. Counted = accepted
    BY DEF Quiet, Counted
  <2>3. OwnValue(n) = SumDeltas(CountedFor(n))
    BY DEF ReliableInv, ExactInv, OwnValueExact, OwnValue, CountedFor, Counted
  <2>4. TypeOK /\ UpdatesApart /\ CountedFor(n) \subseteq Update /\ IsFiniteSet(CountedFor(n))
    BY CountedKnown DEF ReliableInv, ExactInv
  <2>5. SumDeltas({}) = 0
    BY NoDeltas
  <2>6. CASE CountedFor(n) = {}
    <3>1. Gains(n) = {} /\ Losses(n) = {}
      BY <2>2, <2>6 DEF CountedFor, Gains, Losses
    <3>2. incr[p][n] = 0 /\ decr[p][n] = 0
      BY <2>1, <3>1 DEF HoldsLargest, HoldsOne, OneOf
    <3> QED
      BY <2>3, <2>5, <2>6, <3>2
  <2>7. ASSUME NEW u \in CountedFor(n) PROVE incr[p][n] - decr[p][n] = OwnValue(n)
    <3>1. u \in Update /\ u.delta \in Int /\ u.node = n /\ u \in accepted
      BY <2>2, <2>4, WireKeepsTheDelta DEF CountedFor
    <3>2. CountedFor(n) = {u}
      <4>1. \A v \in CountedFor(n) : v.node = n /\ v.seq = 1 /\ v \in Counted
        BY <2>4 DEF CountedFor, Update
      <4> QED
        BY <4>1, <2>4 DEF UpdatesApart
    <3>3. OwnValue(n) = u.delta
      <4>1. SumDeltas({u}) = u.delta + SumDeltas({u} \ {u})
        BY <2>4, <3>2, DeltasTake
      <4>2. {u} \ {u} = {}
        OBVIOUS
      <4>3. OwnValue(n) = u.delta + 0
        BY <2>3, <2>5, <3>2, <4>1, <4>2, Zenon
      <4> QED
        BY <3>1, <4>3
    <3>4. Gains(n) \cup Losses(n) \subseteq {u}
      BY <2>2, <3>2 DEF CountedFor, Gains, Losses
    <3>5. Applied(u, p)
      BY <2>1, <3>1 DEF HoldsLargest
    <3>6. incr[p][n] \in Nat /\ decr[p][n] \in Nat
      BY <2>4 DEF TypeOK, Maps
    <3>7. CASE u.delta >= 0
      <4>1. Losses(n) = {}
        BY <3>4, <3>7 DEF Losses
      <4>2. decr[p][n] = 0
        BY <2>1, <4>1 DEF HoldsLargest, HoldsOne, OneOf
      <4>3. incr[p][n] = 0 \/ incr[p][n] = u.delta
        BY <2>1, <3>1, <3>4, <3>7 DEF HoldsLargest, HoldsOne, OneOf, Amount
      <4>4. u.delta <= incr[p][n]
        BY <3>1, <3>5, <3>7 DEF Applied, Amount
      <4> QED
        BY <3>1, <3>3, <3>6, <3>7, <4>2, <4>3, <4>4
    <3>8. CASE ~(u.delta >= 0)
      <4>1. Gains(n) = {}
        BY <3>4, <3>8 DEF Gains
      <4>2. incr[p][n] = 0
        BY <2>1, <4>1 DEF HoldsLargest, HoldsOne, OneOf
      <4>3. decr[p][n] = 0 \/ decr[p][n] = -u.delta
        BY <2>1, <3>1, <3>4, <3>8 DEF HoldsLargest, HoldsOne, OneOf, Amount
      <4>4. -u.delta <= decr[p][n]
        BY <3>1, <3>5, <3>8 DEF Applied, Amount
      <4> QED
        BY <3>1, <3>3, <3>6, <3>8, <4>2, <4>3, <4>4
    <3> QED
      BY <3>7, <3>8
  <2> QED
    BY <2>6, <2>7
<1> QED
  BY <1>1, <1>2

\* README.md:85 and testPlan.md:848, "all nodes are eventually consistent": with
\* one update per node and no loss, any number of nodes agree whenever nothing is
\* under way.
THEOREM QuietMeansAgreement ==
    ASSUME Reliable, Connected, MaxUpdates = 1
    PROVE  SafeSpec => []AgreeWhenQuiet
<1>1. ReliableInv /\ PeersHoldLargest => AgreeWhenQuiet
  <2> SUFFICES ASSUME ReliableInv, PeersHoldLargest, Quiet, NEW p \in Nodes, NEW q \in Nodes
               PROVE  NodeValue(p) = NodeValue(q)
    BY DEF AgreeWhenQuiet, AllEqual
  <2>1. \A i \in Nodes : incr[i] \in [Nodes -> Int] /\ decr[i] \in [Nodes -> Int]
    BY DEF ReliableInv, TypeOK, Maps
  <2>2. \A n \in Nodes : incr[p][n] - decr[p][n] = incr[q][n] - decr[q][n]
    BY CreditIsExact
  <2>3. SumFunction(incr[p]) - SumFunction(decr[p]) = SumFunction(incr[q]) - SumFunction(decr[q])
    BY <2>1, <2>2, NodesAssumption, SumDifferences
  <2> QED
    BY <2>3 DEF NodeValue, Value
<1> QED
  BY <1>1, ReliableAlways, PeersHoldTheLargest, PTL
==============================================================================
