----------------------------- MODULE MCACCluster -----------------------------
(* Amounts and symmetry for the small instances of ACCluster.              *)
EXTENDS ACCluster, TLC

SmallDeltas == {2, -1}
OneDelta == {1}
NodeSymmetry == Permutations(Nodes)
=============================================================================
