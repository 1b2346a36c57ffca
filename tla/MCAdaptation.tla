---------------------------- MODULE MCAdaptation ----------------------------
(* Amounts, gaps and the default level for the small instances.            *)
EXTENDS Adaptation

UpAndDown == {2, -1}
SomeUps == {4, 5}
SomeGaps == {0, 1, 100000}
Seconds == {10000}
Default == [QueueSize |-> 100, Timeout |-> 50]
=============================================================================
