---------------------------- MODULE MCDispatcher ----------------------------
(* Levels for the small instances of Dispatcher.                           *)
EXTENDS Dispatcher

CL(qs) == [QueueSize |-> qs, Timeout |-> 1]

OffAndTight == {CL(0), CL(1)}
LooseAndLooser == {CL(2), CL(3)}
Tight == CL(1)
Looser == CL(3)
=============================================================================
