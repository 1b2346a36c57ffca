------------------------------ MODULE Threshold ------------------------------
(***************************************************************************)
(* oca/controller.go, ThresholdController: the average of the last ratios  *)
(* against two thresholds moves the level by a fixed step.  The manager    *)
(* uses the PID controller instead.  Both steps are guarded by the value   *)
(* before the step, so where they can end is not written down anywhere.    *)
(*                                                                         *)
(* Ratios are in hundredths, timeouts in milliseconds.                     *)
(***************************************************************************)
EXTENDS Integers, Sequences, Functions

CONSTANTS
    Ratios,             \* those reported
    UpperThreshold,     \* upperThreshold
    LowerThreshold,     \* lowerThreshold
    WindowSize          \* windowSize; with none there is no average

VARIABLES
    historyPhi,         \* tc.historyPhi
    queueSize,          \* tc.currentCL.QueueSize
    timeout             \* tc.currentCL.Timeout

vars == <<historyPhi, queueSize, timeout>>

Init ==
    /\ historyPhi = << >>
    /\ queueSize = 100
    /\ timeout = 50

\* The oldest ratio goes when there is one too many.
Windowed(ratios) == IF Len(ratios) > WindowSize THEN Tail(ratios) ELSE ratios

RaiseCL ==
    /\ queueSize' = IF queueSize > 10 THEN queueSize - 10 ELSE queueSize
    /\ timeout' = IF timeout > 10 THEN timeout - 5 ELSE timeout

LowerCL ==
    /\ queueSize' = IF queueSize < 1000 THEN queueSize + 20 ELSE queueSize
    /\ timeout' = IF timeout < 1000 THEN timeout + 10 ELSE timeout

KeepCL == UNCHANGED <<queueSize, timeout>>

\* The average is compared as the sum against so many times the threshold.
AdjustThreshold(phi) ==
    /\ historyPhi' = Windowed(Append(historyPhi, phi))
    /\ IF Len(historyPhi') < WindowSize THEN KeepCL
       ELSE IF SumFunction(historyPhi') >= WindowSize * UpperThreshold THEN RaiseCL
       ELSE IF SumFunction(historyPhi') <= WindowSize * LowerThreshold THEN LowerCL
       ELSE KeepCL

Next == \E phi \in Ratios : AdjustThreshold(phi)

Spec == Init /\ [][Next]_vars

-----------------------------------------------------------------------------
(* Properties.                                                             *)

\* raiseCL and lowerCL, whatever is reported: the level stays on the two grids
\* it starts on, never below 10 updates and 10 ms, and overshoots the limits of
\* 1000 by one step less a grid point: 1010 is above the capacity of the
\* dispatcher's channel, so at that level Enqueue meets a full channel.
InReach ==
    /\ queueSize \in {10 * k : k \in 1..101}
    /\ timeout \in {5 * k : k \in 2..201}

\* AdjustThreshold never judges more than the last WindowSize ratios.
WithinWindow == historyPhi \in Seq(Ratios) /\ Len(historyPhi) <= WindowSize
=============================================================================
