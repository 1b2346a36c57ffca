--------------------------- MODULE MCSDNController ---------------------------
(* Goroutines, amounts and symmetry for the small instances.               *)
EXTENDS SDNController, TLC

AllThreads == Handlers \cup {Background}
SmallReleases == {2, -1}
SmallPeers == {2, -1}
NoPeers == {}
HandlerSymmetry == Permutations(Handlers)
=============================================================================
