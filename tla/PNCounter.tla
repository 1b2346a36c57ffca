------------------------------ MODULE PNCounter ------------------------------
(***************************************************************************)
(* store/pn_counter.go: the two maps of a PN-Counter and what the methods  *)
(* do to them.  A node absent from a map counts as zero, for Value and for *)
(* Merge alike, so the maps are total functions here.  Values are natural  *)
(* numbers: the manager never passes a negative amount.                    *)
(***************************************************************************)
EXTENDS Integers, Functions

CONSTANT Nodes      \* node identifiers, the keys of Incr and Decr

Maps == [Nodes -> Nat]

Empty == [n \in Nodes |-> 0]

\* Increment does this to Incr, Decrement to Decr.
Plus(map, n, v) == [map EXCEPT ![n] = @ + v]

\* The map HandleRemoteUpdate builds: one node, one value.
Only(n, v) == [m \in Nodes |-> IF m = n THEN v ELSE 0]

\* Wrong variant: the later value wins.
OverwriteMap(local, remote) == [n \in Nodes |-> IF remote[n] > 0 THEN remote[n] ELSE local[n]]

\* Wrong variant: every received value is added, so a duplicate counts twice.
AddMap(local, remote) == [n \in Nodes |-> local[n] + remote[n]]

\* What Merge does to each of the two maps.
MergeMap(local, remote) ==
    [n \in Nodes |-> IF remote[n] > local[n] THEN remote[n] ELSE local[n]]

Value(incr, decr) == SumFunction(incr) - SumFunction(decr)

\* The order of the lattice a PN-Counter lives in.
AtMost(m1, m2) == \A n \in Nodes : m1[n] <= m2[n]
=============================================================================
