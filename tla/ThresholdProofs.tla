--------------------------- MODULE ThresholdProofs ---------------------------
(* Proofs about the threshold controller, for all thresholds and windows.  *)
EXTENDS Threshold, TLAPS

\* One step of raiseCL or of lowerCL stays on the grids and within their ends.
LEMMA StepsStayInReach ==
    ASSUME InReach, RaiseCL \/ LowerCL \/ KeepCL
    PROVE  InReach'
<1>1. PICK k \in 1..101 : queueSize = 10 * k
  BY DEF InReach
<1>2. PICK m \in 2..201 : timeout = 5 * m
  BY DEF InReach
<1>3. CASE RaiseCL
  <2>1. queueSize' = 10 * (IF k > 1 THEN k - 1 ELSE k)
    BY <1>1, <1>3 DEF RaiseCL
  <2>2. timeout' = 5 * (IF m > 2 THEN m - 1 ELSE m)
    BY <1>2, <1>3 DEF RaiseCL
  <2>3. (IF k > 1 THEN k - 1 ELSE k) \in 1..101 /\ (IF m > 2 THEN m - 1 ELSE m) \in 2..201
    OBVIOUS
  <2> QED
    BY <2>1, <2>2, <2>3 DEF InReach
<1>4. CASE LowerCL
  <2>1. queueSize' = 10 * (IF k < 100 THEN k + 2 ELSE k)
    BY <1>1, <1>4 DEF LowerCL
  <2>2. timeout' = 5 * (IF m < 200 THEN m + 2 ELSE m)
    BY <1>2, <1>4 DEF LowerCL
  <2>3. (IF k < 100 THEN k + 2 ELSE k) \in 1..101 /\ (IF m < 200 THEN m + 2 ELSE m) \in 2..201
    OBVIOUS
  <2> QED
    BY <2>1, <2>2, <2>3 DEF InReach
<1>5. CASE KeepCL
  BY <1>5 DEF KeepCL, InReach
<1> QED
  BY <1>3, <1>4, <1>5

\* AdjustThreshold: for any reports, thresholds and window the level stays between
\* 10 updates and 1010, and between 10 ms and 1005 ms.
THEOREM LevelStaysInReach == Spec => []InReach
<1>1. Init => InReach
  <2> SUFFICES ASSUME Init PROVE InReach
    OBVIOUS
  <2>1. queueSize = 10 * 10 /\ timeout = 5 * 10
    BY DEF Init
  <2> QED
    BY <2>1 DEF InReach
<1>2. InReach /\ [Next]_vars => InReach'
  <2> SUFFICES ASSUME InReach, [Next]_vars PROVE InReach'
    OBVIOUS
  <2>1. CASE Next
    BY <2>1, StepsStayInReach DEF Next, AdjustThreshold
  <2>2. CASE UNCHANGED vars
    BY <2>2 DEF vars, InReach
  <2> QED
    BY <2>1, <2>2
<1> QED
  BY <1>1, <1>2, PTL DEF Spec

\* AdjustThreshold: the window never holds more than WindowSize ratios.
THEOREM WindowHolds ==
    ASSUME WindowSize \in Nat \ {0}
    PROVE  Spec => []WithinWindow
<1>1. Init => WithinWindow
  BY DEF Init, WithinWindow
<1>2. WithinWindow /\ [Next]_vars => WithinWindow'
  <2> SUFFICES ASSUME WithinWindow, [Next]_vars PROVE WithinWindow'
    OBVIOUS
  <2>1. ASSUME NEW phi \in Ratios, AdjustThreshold(phi) PROVE WithinWindow'
    <3> DEFINE longer == Append(historyPhi, phi)
    <3>1. longer \in Seq(Ratios) /\ Len(longer) <= WindowSize + 1
      BY DEF WithinWindow
    <3>2. historyPhi' = Windowed(longer)
      BY <2>1 DEF AdjustThreshold
    <3> HIDE DEF longer
    <3>3. CASE Len(longer) > WindowSize
      BY <3>1, <3>2, <3>3 DEF Windowed, WithinWindow
    <3>4. CASE ~(Len(longer) > WindowSize)
      BY <3>1, <3>2, <3>4 DEF Windowed, WithinWindow
    <3> QED
      BY <3>3, <3>4
  <2>2. CASE UNCHANGED vars
    BY <2>2 DEF vars, WithinWindow
  <2> QED
    BY <2>1, <2>2 DEF Next
<1> QED
  BY <1>1, <1>2, PTL DEF Spec
=============================================================================
