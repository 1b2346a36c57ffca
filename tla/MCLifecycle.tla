----------------------------- MODULE MCLifecycle -----------------------------
(* The addresses for small instances of Lifecycle.                         *)
EXTENDS Lifecycle

\* The first cannot be dialled, the other is configured twice.
SomePeers == <<"p2", "p1", "p1">>
=============================================================================
