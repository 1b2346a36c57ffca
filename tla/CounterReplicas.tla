--------------------------- MODULE CounterReplicas ---------------------------
(***************************************************************************)
(* What store.PNCounter promises to those who exchange whole states: every *)
(* replica updates its own entries (Increment, Decrement), sends copies of *)
(* its maps (GetState) and merges the copies it receives (Merge).  A copy  *)
(* may be late, reordered, duplicated or lost.  The manager does not use   *)
(* the counter in this way; ACCluster models what it does instead.         *)
(***************************************************************************)
EXTENDS PNCounter, FiniteSets

CONSTANT MaxOps     \* bound: local operations of one replica

ASSUME NodesAssumption == IsFiniteSet(Nodes)
ASSUME MaxOpsAssumption == MaxOps \in Nat

VARIABLES
    incr, decr,     \* the maps Incr and Decr of every replica
    ops,            \* local operations done by each replica
    states          \* every copy GetState ever returned

vars == <<incr, decr, ops, states>>

State(n) == [incr |-> incr[n], decr |-> decr[n]]

Init ==
    /\ incr = [n \in Nodes |-> Empty]
    /\ decr = [n \in Nodes |-> Empty]
    /\ ops = [n \in Nodes |-> 0]
    /\ states = {}

Increment(n) ==
    /\ ops[n] < MaxOps
    /\ ops' = [ops EXCEPT ![n] = @ + 1]
    /\ incr' = [incr EXCEPT ![n] = Plus(@, n, 1)]
    /\ UNCHANGED <<decr, states>>

\* Wrong variant: a decrement is stored as a negative amount.
DecrementNegative(n) ==
    /\ ops[n] < MaxOps
    /\ ops' = [ops EXCEPT ![n] = @ + 1]
    /\ decr' = [decr EXCEPT ![n] = Plus(@, n, -1)]
    /\ UNCHANGED <<incr, states>>

Decrement(n) ==
    /\ ops[n] < MaxOps
    /\ ops' = [ops EXCEPT ![n] = @ + 1]
    /\ decr' = [decr EXCEPT ![n] = Plus(@, n, 1)]
    /\ UNCHANGED <<incr, states>>

GetState(n) ==
    /\ states' = states \cup {State(n)}
    /\ UNCHANGED <<incr, decr, ops>>

\* Wrong variant: only the positive half is merged.
MergeIncrOnly(n, s) ==
    /\ s \in states
    /\ incr' = [incr EXCEPT ![n] = MergeMap(@, s.incr)]
    /\ UNCHANGED <<decr, ops, states>>

\* Copies stay in states, so a merge may be late, out of order or repeated.
Merge(n, s) ==
    /\ s \in states
    /\ incr' = [incr EXCEPT ![n] = MergeMap(@, s.incr)]
    /\ decr' = [decr EXCEPT ![n] = MergeMap(@, s.decr)]
    /\ UNCHANGED <<ops, states>>

Next ==
    \E n \in Nodes :
        \/ Increment(n)
        \/ Decrement(n)
        \/ GetState(n)
        \/ \E s \in states : Merge(n, s)

\* Every replica keeps reading its state, and the latest copy of every replica
\* reaches every other in the end.
Fairness ==
    /\ \A n \in Nodes : WF_vars(GetState(n))
    /\ \A n, m \in Nodes : WF_vars(Merge(n, State(m)))

SafeSpec == Init /\ [][Next]_vars
Spec == SafeSpec /\ Fairness

-----------------------------------------------------------------------------
Copies == [incr : Maps, decr : Maps]

TypeOK ==
    /\ incr \in [Nodes -> Maps]
    /\ decr \in [Nodes -> Maps]
    /\ ops \in [Nodes -> 0..MaxOps]
    /\ states \subseteq Copies

\* No replica ever holds more of a node's operations than that node has done:
\* an entry is only raised by its owner, and every copy is some past of it.
NeverAhead ==
    \A n, m \in Nodes : incr[m][n] <= incr[n][n] /\ decr[m][n] <= decr[n][n]

\* Nothing a replica has seen is forgotten: a late or repeated copy never
\* lowers an entry.
NeverForgets == [][\A n \in Nodes : AtMost(incr[n], incr'[n]) /\ AtMost(decr[n], decr'[n])]_vars

\* Strong eventual consistency: once the updates stop, all replicas get to the
\* same value for good, and it is the value of the operations done.
Converges ==
    <>[] \A m \in Nodes :
            Value(incr[m], decr[m]) = SumFunction([n \in Nodes |-> incr[n][n]])
                                        - SumFunction([n \in Nodes |-> decr[n][n]])
=============================================================================
