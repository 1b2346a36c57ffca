-------------------------- MODULE DispatcherProofs --------------------------
(***************************************************************************)
(* The dispatcher's type invariant, the bounds on what it holds back, its  *)
(* accounting, what a stop loses, and that it implements Outbox as far as  *)
(* safety goes: no update is ever broadcast twice, refused after it was    *)
(* accepted or broadcast after it was refused.  All for any number of      *)
(* callers, levels, peers and updates.                                     *)
(***************************************************************************)
EXTENDS Dispatcher, FiniteSetTheorems, TLAPS

\* Where run() is determines what its locals hold.
LoopShape ==
    /\ loop \in {"limit", "route"} <=> inHand # NoUpdate
    /\ loop \in {"broadcast", "callback", "account"} <=> sending # << >>
    /\ loop = "broadcast" => sent < Len(sending)
    /\ loop \in {"callback", "account"} => sent = Len(sending)
    /\ successes <= sent /\ sent <= Len(sending)
    /\ loop = "callback" => told < Len(sending)
    /\ loop = "account" => told = Len(sending)
    /\ loop \notin {"callback", "account"} => told = 0
    /\ loop \in {"broadcast", "callback", "account", "mode"} <=> mode # "none"
    /\ mode \in {"batch", "tick", "final"} \/ loop \in {"off", "stopped"} => batch = << >>

\* What run() holds back besides the queue never exceeds the level.
LoopBound == Len(batch) < MaxQueueSize /\ Len(batch) + Len(sending) <= MaxQueueSize

\* An update inside Enqueue is nobody else's and not yet refused.
Deciding == {c \in Callers : call[c].at \in {"check", "send"}}
CallShape ==
    /\ \A c \in Deciding : call[c].update \in 1..issued /\ call[c].update \notin refused
    /\ \A c, d \in Deciding : c # d => call[c].update # call[d].update
    /\ refused \subseteq 1..issued

\* The successes the callback has been told of and stats does not count yet.
Credited == IF successes > 0 THEN told ELSE 0

\* The counters against what was broadcast and what is under way.
CounterShape ==
    /\ Len(handed) = stats.SuccessfulSends + stats.FailedSends + sent
    /\ ops.SuccessfulOps >= stats.SuccessfulSends + Credited

-----------------------------------------------------------------------------
(* The shape of the state: types, locals of run(), callers.                *)

Shape == TypeOK /\ LoopShape /\ CallShape

LEMMA InitShape == Init => Shape
<1> SUFFICES ASSUME Init PROVE Shape
  OBVIOUS
<1> USE BoundsAssumption, LevelsAssumption DEF Init, NoUpdate
<1>1. Idle \in [at : CallStates, update : Updates \cup {NoUpdate}, limit : 0..MaxQueueSize]
  BY DEF Idle, CallStates
<1>2. call \in [Callers -> [at : CallStates, update : Updates \cup {NoUpdate}, limit : 0..MaxQueueSize]]
  BY <1>1
<1>3. stats \in Counters /\ ops \in OpCounters
  BY DEF Counters, OpCounters
<1>4. currentCL \in Levels /\ issued \in 0..MaxUpdates /\ limit \in 0..MaxQueueSize
  OBVIOUS
<1>5. queue \in Seq(Updates) /\ batch \in Seq(Updates) /\ sending \in Seq(Updates)
      /\ handed \in Seq(Updates)
  OBVIOUS
<1>6. /\ clients \subseteq Peers /\ stopping \in BOOLEAN /\ refused \subseteq Updates
      /\ inHand \in Updates \cup {NoUpdate} /\ sent \in Nat /\ successes \in Nat
  OBVIOUS
<1>7. loop \in LoopStates /\ mode \in Modes
  BY DEF LoopStates, Modes
<1>8. TypeOK
  BY <1>2, <1>3, <1>4, <1>5, <1>6, <1>7 DEF TypeOK
<1>9. LoopShape
  BY DEF LoopShape
<1>10. CallShape
  BY DEF CallShape, Deciding, Idle
<1>11. QED BY <1>8, <1>9, <1>10 DEF Shape

\* A caller that goes on with its update, or is done with it.
LEMMA CallGoesOn ==
    ASSUME CallShape, NEW c \in Callers, NEW point, call \in [Callers -> [at : CallStates,
               update : Updates \cup {NoUpdate}, limit : 0..MaxQueueSize]],
           call[c].at \in {"check", "send"}, call' = [call EXCEPT ![c].at = point],
           issued' = issued, refused' \subseteq 1..issued,
           \A d \in Deciding : d # c => call[d].update \notin refused',
           point \in {"check", "send"} => call[c].update \notin refused'
    PROVE  CallShape'
<1>1. call' = [d \in Callers |-> IF d = c THEN [call[c] EXCEPT !.at = point] ELSE call[d]]
  OBVIOUS
<1>2. [call[c] EXCEPT !.at = point].update = call[c].update /\ [call[c] EXCEPT !.at = point].at = point
  OBVIOUS
<1>3. \A d \in Callers : call'[d].update = call[d].update /\ (d # c => call'[d].at = call[d].at)
  BY <1>1, <1>2
<1>4. call'[c].at = point
  BY <1>1, <1>2
<1>5. Deciding' \subseteq Deciding /\ (c \in Deciding' => point \in {"check", "send"})
  BY <1>3, <1>4 DEF Deciding
<1>6. Deciding \subseteq Callers
  BY DEF Deciding
<1> QED
  BY <1>3, <1>5, <1>6 DEF CallShape

LEMMA EnqueueShape ==
    ASSUME Shape, NEW c \in Callers, Enqueue(c)
    PROVE  Shape'
<1> USE BoundsAssumption, LevelsAssumption DEF Shape, NoUpdate
<1> DEFINE Call == [at : CallStates, update : Updates \cup {NoUpdate}, limit : 0..MaxQueueSize]
<1>0. call \in [Callers -> Call] /\ call[c] \in Call
  BY DEF TypeOK
<1>1. CASE BeginEnqueue(c)
  <2>1. issued + 1 \in Updates /\ currentCL.QueueSize \in 0..MaxQueueSize
    BY <1>1 DEF BeginEnqueue, TypeOK, Updates
  <2>2. [at |-> "check", update |-> issued + 1, limit |-> currentCL.QueueSize] \in Call
    BY <2>1 DEF CallStates
  <2>3. call' \in [Callers -> Call]
    BY <1>0, <1>1, <2>2 DEF BeginEnqueue
  <2>4. TypeOK'
    BY <1>1, <2>1, <2>3 DEF TypeOK, BeginEnqueue, loopVars, Updates
  <2>5. LoopShape'
    BY <1>1 DEF LoopShape, BeginEnqueue, loopVars
  <2>6. CallShape'
    <3>1. call'[c].update = issued + 1 /\ \A d \in Callers \ {c} : call'[d] = call[d]
      BY <1>0, <1>1 DEF BeginEnqueue
    <3>2. issued \in Nat /\ issued' = issued + 1 /\ refused' = refused
      BY <1>1 DEF BeginEnqueue, TypeOK
    <3>3. Deciding' \subseteq Deciding \cup {c}
      BY <3>1 DEF Deciding
    <3>4. 1..issued \subseteq 1..issued' /\ issued + 1 \in 1..issued' /\ issued + 1 \notin 1..issued
      BY <3>2
    <3>5. /\ refused \subseteq 1..issued
          /\ \A d \in Deciding : call[d].update \in 1..issued /\ call[d].update \notin refused
          /\ \A d, e \in Deciding : d # e => call[d].update # call[e].update
      BY DEF CallShape
    <3>6. \A d \in Deciding' : d = c \/ (d \in Deciding /\ call'[d].update = call[d].update)
      BY <3>1, <3>3 DEF Deciding
    <3>7. /\ refused' \subseteq 1..issued'
          /\ \A d \in Deciding' : call'[d].update \in 1..issued' /\ call'[d].update \notin refused'
      BY <3>1, <3>2, <3>4, <3>5, <3>6
    <3>8. \A d, e \in Deciding' : d # e => call'[d].update # call'[e].update
      BY <3>1, <3>4, <3>5, <3>6
    <3> QED
      BY <3>7, <3>8 DEF CallShape
  <2>7. QED BY <2>4, <2>5, <2>6
<1>2. CASE Admit(c)
  <2>1. call' \in [Callers -> Call]
    BY <1>0, <1>2 DEF Admit, CallStates
  <2>2. TypeOK'
    BY <1>2, <2>1 DEF TypeOK, Admit, loopVars
  <2>3. LoopShape'
    BY <1>2 DEF LoopShape, Admit, loopVars
  <2>4. CallShape'
    <3>1. \A d \in Deciding : call[d].update \notin refused
      BY DEF CallShape
    <3>2. c \in Deciding /\ refused \subseteq 1..issued
      BY <1>2 DEF Admit, CallShape, Deciding
    <3>3. call' = [call EXCEPT ![c].at = "send"] /\ issued' = issued /\ refused' = refused
      BY <1>2 DEF Admit
    <3>4. call[c].at \in {"check", "send"} /\ CallShape
      BY <1>2 DEF Admit
    <3> QED
      BY <1>0, <3>1, <3>2, <3>3, <3>4, CallGoesOn
  <2>5. QED BY <2>2, <2>3, <2>4
<1>3. CASE Drop(c)
  <2>1. call' \in [Callers -> Call]
    BY <1>0, <1>3 DEF Drop, CallStates
  <2>2. call[c].update \in 1..issued /\ c \in Deciding
    BY <1>3 DEF Drop, CallShape, Deciding
  <2>3. refused' \subseteq Updates
    <3>1. refused \subseteq Updates /\ 1..issued \subseteq Updates
      BY DEF TypeOK, Updates
    <3>2. refused' = refused \cup {call[c].update}
      BY <1>3 DEF Drop
    <3> QED
      BY <2>2, <3>1, <3>2
  <2>4. TypeOK'
    BY <1>3, <2>1, <2>3 DEF TypeOK, Drop, loopVars
  <2>5. LoopShape'
    BY <1>3 DEF LoopShape, Drop, loopVars
  <2>6. CallShape'
    <3>1. call' = [call EXCEPT ![c].at = "drop"] /\ issued' = issued
          /\ refused' = refused \cup {call[c].update}
      BY <1>3 DEF Drop
    <3>2. refused' \subseteq 1..issued
      BY <2>2, <3>1 DEF CallShape
    <3>3. \A d \in Deciding : d # c => call[d].update \notin refused'
      BY <2>2, <3>1 DEF CallShape
    <3>4. call[c].at \in {"check", "send"} /\ CallShape
      BY <1>3 DEF Drop
    <3> QED
      BY <1>0, <3>1, <3>2, <3>3, <3>4, CallGoesOn
  <2>7. QED BY <2>4, <2>5, <2>6
<1>4. CASE Send(c)
  <2>1. call' \in [Callers -> Call]
    BY <1>0, <1>4 DEF Send, CallStates
  <2>2. call[c].update \in Updates
    <3>1. c \in Deciding
      BY <1>4 DEF Send, Deciding
    <3>2. call[c].update \in 1..issued
      BY <3>1 DEF CallShape
    <3>3. 1..issued \subseteq Updates
      BY DEF TypeOK, Updates
    <3> QED
      BY <3>2, <3>3
  <2>3. queue' \in Seq(Updates)
    BY <1>4, <2>2 DEF Send, TypeOK
  <2>4. TypeOK'
    BY <1>4, <2>1, <2>3 DEF TypeOK, Send, loopVars
  <2>5. LoopShape'
    BY <1>4 DEF LoopShape, Send, loopVars
  <2>6. CallShape'
    <3>1. \A d \in Deciding : call[d].update \notin refused
      BY DEF CallShape
    <3>2. refused \subseteq 1..issued
      BY DEF CallShape
    <3>3. call' = [call EXCEPT ![c].at = "count"] /\ issued' = issued /\ refused' = refused
      BY <1>4 DEF Send
    <3>4. call[c].at \in {"check", "send"} /\ CallShape
      BY <1>4 DEF Send
    <3> QED
      BY <1>0, <3>1, <3>2, <3>3, <3>4, CallGoesOn
  <2>7. QED BY <2>4, <2>5, <2>6
<1>5. CASE EndEnqueue(c)
  <2>1. Idle \in Call
    BY DEF Idle, CallStates
  <2>2. call' \in [Callers -> Call]
    BY <1>0, <1>5, <2>1 DEF EndEnqueue
  <2>3. stats' \in Counters
    <3>1. stats \in Counters
      BY DEF TypeOK
    <3>2. [stats EXCEPT !.TotalUpdates = @ + 1] \in Counters
      BY <3>1 DEF Counters
    <3>3. [stats EXCEPT !.QueueFullDrops = @ + 1] \in Counters
      BY <3>1 DEF Counters
    <3>4. QED BY <1>5, <3>2, <3>3 DEF EndEnqueue
  <2>4. TypeOK'
    BY <1>5, <2>2, <2>3 DEF TypeOK, EndEnqueue, loopVars
  <2>5. LoopShape'
    BY <1>5 DEF LoopShape, EndEnqueue, loopVars
  <2>6. CallShape'
    BY <1>0, <1>5 DEF CallShape, Deciding, EndEnqueue, Idle
  <2>7. QED BY <2>4, <2>5, <2>6
<1>6. QED BY <1>1, <1>2, <1>3, <1>4, <1>5 DEF Enqueue

\* What the other components do touches neither the callers nor run().
LEMMA EnvironmentShape ==
    ASSUME Shape,
           \/ \E cl \in Levels : SetConsistencyLevel(cl)
           \/ \E p \in Peers : AddPeer(p) \/ RemovePeer(p)
           \/ Stop
    PROVE  Shape'
<1> USE DEF Shape
<1>1. UNCHANGED <<queue, stats, ops, callVars, loopVars>>
  BY DEF SetConsistencyLevel, AddPeer, RemovePeer, Stop
<1>2. currentCL' \in Levels /\ clients' \subseteq Peers /\ stopping' \in BOOLEAN
  BY DEF SetConsistencyLevel, AddPeer, RemovePeer, Stop, TypeOK
<1>3. TypeOK'
  BY <1>1, <1>2 DEF TypeOK, callVars, loopVars
<1>4. LoopShape'
  BY <1>1 DEF LoopShape, loopVars
<1>5. CallShape'
  BY <1>1 DEF CallShape, Deciding, callVars
<1>6. QED BY <1>3, <1>4, <1>5

LEMMA FlushShape ==
    ASSUME Shape, loop = "select", NEW m \in {"tick", "final"}, Flush(m)
    PROVE  Shape'
<1> USE DEF Shape
<1>1. sending' \in Seq(Updates) /\ sending' # << >> /\ Len(sending') > 0
  BY DEF Flush, TypeOK
<1>2. TypeOK'
  BY <1>1 DEF TypeOK, Flush, callVars, LoopStates, Modes
<1>3. LoopShape'
  BY <1>1 DEF LoopShape, Flush, TypeOK
<1>4. CallShape'
  BY DEF CallShape, Deciding, Flush, callVars
<1>5. QED BY <1>2, <1>3, <1>4

\* One step of run().
LEMMA LoopShapePreserved ==
    ASSUME Shape,
           Start \/ Receive \/ ReadLimit \/ RouteFast \/ RouteBatch \/ Tick \/ StopArm
             \/ Broadcast \/ Callback \/ Account \/ CountMode
    PROVE  Shape'
<1> USE BoundsAssumption DEF Shape
<1>0. CallShape'
  BY DEF Start, Receive, ReadLimit, RouteFast, RouteBatch, Tick, StopArm, Flush, Broadcast,
         Callback, Account, CountMode, CallShape, Deciding, callVars
<1>1. CASE Start
  <2>1. TypeOK' BY <1>1 DEF TypeOK, Start, ArmTicker, callVars, LoopStates
  <2>2. LoopShape' BY <1>1 DEF LoopShape, Start, ArmTicker, TypeOK
  <2>3. QED BY <1>0, <2>1, <2>2
<1>2. CASE Receive
  <2>1. Head(queue) \in Updates /\ Tail(queue) \in Seq(Updates)
    BY <1>2 DEF TypeOK, Receive
  <2>2. TypeOK' BY <1>2, <2>1 DEF TypeOK, Receive, callVars, LoopStates
  <2>3. inHand' # NoUpdate BY <1>2, <2>1 DEF Receive, Updates, NoUpdate
  <2>4. LoopShape' BY <1>2, <2>3 DEF LoopShape, Receive
  <2>5. QED BY <1>0, <2>2, <2>4
<1>3. CASE ReadLimit
  <2>1. currentCL.QueueSize \in 0..MaxQueueSize BY LevelsAssumption DEF TypeOK
  <2>2. TypeOK' BY <1>3, <2>1 DEF TypeOK, ReadLimit, callVars, LoopStates
  <2>3. LoopShape' BY <1>3 DEF LoopShape, ReadLimit
  <2>4. QED BY <1>0, <2>2, <2>3
<1>4. CASE RouteFast
  <2>1. inHand \in Updates BY <1>4 DEF TypeOK, LoopShape, RouteFast
  <2>2. TypeOK' BY <1>4, <2>1 DEF TypeOK, RouteFast, callVars, LoopStates, Modes
  <2>3. LoopShape' BY <1>4 DEF LoopShape, RouteFast, TypeOK
  <2>4. QED BY <1>0, <2>2, <2>3
<1>5. CASE RouteBatch
  <2>1. inHand \in Updates BY <1>5 DEF TypeOK, LoopShape, RouteBatch
  <2>2. /\ Append(batch, inHand) \in Seq(Updates)
        /\ Len(Append(batch, inHand)) = Len(batch) + 1
        /\ Len(batch) \in Nat
    BY <2>1 DEF TypeOK
  <2>3. Append(batch, inHand) # << >>
    <3>1. Len(<< >>) = 0 OBVIOUS
    <3>2. QED BY <2>2, <3>1
  <2>4. sending' \in Seq(Updates) /\ batch' \in Seq(Updates)
    <3>1. << >> \in Seq(Updates) /\ sending \in Seq(Updates)
      BY DEF TypeOK
    <3>2. \/ sending' = Append(batch, inHand) /\ batch' = << >>
          \/ sending' = sending /\ batch' = Append(batch, inHand)
      BY <1>5 DEF RouteBatch
    <3>3. QED BY <2>2, <3>1, <3>2
  <2>5. loop' \in LoopStates /\ mode' \in Modes
    BY <1>5 DEF TypeOK, RouteBatch, LoopStates, Modes
  <2>6. TypeOK' BY <1>5, <2>4, <2>5 DEF TypeOK, RouteBatch, callVars
  <2>7. LoopShape' BY <1>5, <2>2, <2>3 DEF LoopShape, RouteBatch, TypeOK
  <2>8. QED BY <1>0, <2>6, <2>7
<1>6. CASE Tick
  <2>1. CASE Flush("tick") BY <1>6, <2>1, FlushShape DEF Tick
  <2>2. CASE batch = << >> /\ ArmTicker
    <3>1. TypeOK' BY <1>6, <2>2 DEF TypeOK, Tick, Flush, ArmTicker, callVars, LoopStates
    <3>2. LoopShape' BY <1>6, <2>2 DEF LoopShape, Tick, Flush, ArmTicker
    <3>3. QED BY <1>0, <3>1, <3>2
  <2>3. QED BY <1>6, <2>1, <2>2 DEF Tick
<1>7. CASE StopArm
  <2>1. CASE Flush("final") BY <1>7, <2>1, FlushShape DEF StopArm
  <2>2. CASE batch = << >> /\ loop' = "stopped"
    <3>1. TypeOK' BY <1>7, <2>2 DEF TypeOK, StopArm, Flush, callVars, LoopStates
    <3>2. LoopShape' BY <1>7, <2>2 DEF LoopShape, StopArm, Flush
    <3>3. QED BY <1>0, <3>1, <3>2
  <2>3. QED BY <1>7, <2>1, <2>2 DEF StopArm
<1>8. CASE Broadcast
  <2>1. sent + 1 \in 1..Len(sending) /\ sending[sent + 1] \in Updates
    BY <1>8 DEF TypeOK, LoopShape, Broadcast
  <2>2. TypeOK' BY <1>8, <2>1 DEF TypeOK, Broadcast, callVars, LoopStates
  <2>3. LoopShape' BY <1>8, <2>1 DEF LoopShape, Broadcast, TypeOK
  <2>4. QED BY <1>0, <2>2, <2>3
<1>9. CASE Callback
  <2>1. ops' \in OpCounters
    <3>1. ops \in OpCounters
      BY DEF TypeOK
    <3>2. PICK t \in Nat, d \in Nat, f \in Nat :
              ops = [TotalUpdates |-> t, SuccessfulOps |-> d, FailedOps |-> f]
      BY <3>1 DEF OpCounters
    <3>3. \/ ops' = [TotalUpdates |-> t + 1, SuccessfulOps |-> d + 1, FailedOps |-> f]
          \/ ops' = [TotalUpdates |-> t + 1, SuccessfulOps |-> d, FailedOps |-> f + 1]
      BY <1>9, <3>2 DEF Callback
    <3>4. t + 1 \in Nat /\ d + 1 \in Nat /\ f + 1 \in Nat
      OBVIOUS
    <3>5. QED BY <3>3, <3>4 DEF OpCounters
  <2>2. TypeOK' BY <1>9, <2>1 DEF TypeOK, Callback, callVars, LoopStates
  <2>3. LoopShape' BY <1>9 DEF LoopShape, Callback, TypeOK
  <2>4. QED BY <1>0, <2>2, <2>3
<1>10. CASE Account
  <2>1. Len(sending) - successes \in Nat /\ successes \in Nat
    BY <1>10 DEF TypeOK, LoopShape, Account
  <2>2. stats' \in Counters
    <3>1. stats \in Counters BY DEF TypeOK
    <3>2. stats' = [stats EXCEPT !.SuccessfulSends = stats.SuccessfulSends + successes,
                                 !.FailedSends = stats.FailedSends + (Len(sending) - successes)]
      BY <1>10 DEF Account
    <3>3. /\ stats.SuccessfulSends + successes \in Nat
          /\ stats.FailedSends + (Len(sending) - successes) \in Nat
      BY <2>1, <3>1 DEF Counters
    <3>4. QED BY <3>1, <3>2, <3>3 DEF Counters
  <2>3. TypeOK' BY <1>10, <2>2 DEF TypeOK, Account, callVars, LoopStates
  <2>4. LoopShape' BY <1>10 DEF LoopShape, Account, TypeOK
  <2>5. QED BY <1>0, <2>3, <2>4
<1>11. CASE CountMode
  <2>1. stats' \in Counters
    <3>1. stats \in Counters BY DEF TypeOK
    <3>2. [stats EXCEPT !.FastModeSends = @ + 1] \in Counters BY <3>1 DEF Counters
    <3>3. [stats EXCEPT !.BatchedSends = @ + 1] \in Counters BY <3>1 DEF Counters
    <3>4. QED BY <1>11, <3>1, <3>2, <3>3 DEF CountMode
  <2>2. TypeOK' BY <1>11, <2>1 DEF TypeOK, CountMode, ArmTicker, callVars, LoopStates, Modes
  <2>3. LoopShape' BY <1>11 DEF LoopShape, CountMode, ArmTicker
  <2>4. QED BY <1>0, <2>2, <2>3
<1>12. QED
  BY <1>1, <1>2, <1>3, <1>4, <1>5, <1>6, <1>7, <1>8, <1>9, <1>10, <1>11

\* Every reachable state has the types and the shapes of run() and of Enqueue:
\* which locals are in use at which point (dispatcher.go:133-356).
THEOREM ShapeInvariant == SafeSpec => []Shape
<1>1. Shape /\ [Next]_vars => Shape'
  <2> SUFFICES ASSUME Shape, [Next]_vars PROVE Shape'
    OBVIOUS
  <2>1. CASE UNCHANGED vars
    BY <2>1 DEF Shape, TypeOK, LoopShape, CallShape, Deciding, vars, callVars, loopVars
  <2>2. CASE Next
    BY <2>2, EnqueueShape, EnvironmentShape, LoopShapePreserved DEF Next, Proceed
  <2>3. QED BY <2>1, <2>2
<1>2. QED BY <1>1, InitShape, PTL DEF SafeSpec

\* Every variable keeps its type, whatever the interleaving.
THEOREM TypeCorrect == SafeSpec => []TypeOK
BY ShapeInvariant, PTL DEF Shape

-----------------------------------------------------------------------------
(* Counting the callers at a point of Enqueue.                             *)

LEMMA AtIsFinite ==
    ASSUME NEW s
    PROVE  /\ IsFiniteSet(At(s)) /\ Cardinality(At(s)) \in Nat
           /\ Cardinality(At(s)) <= Cardinality(Callers)
           /\ Cardinality(Callers) \in Nat \ {0}
<1>1. At(s) \subseteq Callers
  BY DEF At
<1>2. IsFiniteSet(At(s)) /\ Cardinality(At(s)) <= Cardinality(Callers)
  BY <1>1, CallersAssumption, FS_Subset
<1>3. Cardinality(Callers) \in Nat \ {0}
  BY CallersAssumption, FS_CardinalityType, FS_EmptySet
<1>4. QED BY <1>2, <1>3, FS_CardinalityType

\* Where each step of Enqueue takes its caller.
LEMMA EnqueueMoves ==
    ASSUME TypeOK, NEW c \in Callers, Enqueue(c)
    PROVE  /\ BeginEnqueue(c) => call[c].at = "idle" /\ call'[c].at = "check"
           /\ Admit(c) => call[c].at = "check" /\ call'[c].at = "send"
           /\ Drop(c) => call[c].at \in {"check", "send"} /\ call'[c].at = "drop"
           /\ Send(c) => call[c].at = "send" /\ call'[c].at = "count"
           /\ EndEnqueue(c) => call[c].at \in {"count", "drop"} /\ call'[c].at = "idle"
           /\ \A d \in Callers \ {c} : call'[d].at = call[d].at
<1>1. /\ DOMAIN call = Callers
      /\ call \in [Callers -> [at : CallStates, update : Updates \cup {NoUpdate},
                               limit : 0..MaxQueueSize]]
  BY DEF TypeOK
<1>2. BeginEnqueue(c) => call[c].at = "idle" /\ call'[c].at = "check"
  BY <1>1 DEF BeginEnqueue
<1>3. Admit(c) => call[c].at = "check" /\ call'[c].at = "send"
  BY <1>1 DEF Admit
<1>4. Drop(c) => call[c].at \in {"check", "send"} /\ call'[c].at = "drop"
  BY <1>1 DEF Drop
<1>5. Send(c) => call[c].at = "send" /\ call'[c].at = "count"
  BY <1>1 DEF Send
<1>6. EndEnqueue(c) => call[c].at \in {"count", "drop"} /\ call'[c].at = "idle"
  BY <1>1 DEF EndEnqueue, Idle
<1>7. \A d \in Callers \ {c} : call'[d].at = call[d].at
  BY <1>1 DEF Enqueue, BeginEnqueue, Admit, Drop, Send, EndEnqueue
<1>8. QED BY <1>2, <1>3, <1>4, <1>5, <1>6, <1>7

\* What a step of Enqueue does to the number of callers at a point.
LEMMA EnqueueCounts ==
    ASSUME TypeOK, NEW c \in Callers, Enqueue(c), NEW t
    PROVE  /\ call[c].at = t /\ call'[c].at # t => Cardinality(At(t)') = Cardinality(At(t)) - 1
           /\ call[c].at # t /\ call'[c].at = t => Cardinality(At(t)') = Cardinality(At(t)) + 1
           /\ call[c].at # t /\ call'[c].at # t => Cardinality(At(t)') = Cardinality(At(t))
<1>1. \A d \in Callers \ {c} : call'[d].at = call[d].at
  BY EnqueueMoves
<1>2. IsFiniteSet(At(t))
  BY AtIsFinite
<1>3. ASSUME call[c].at = t, call'[c].at # t
      PROVE  Cardinality(At(t)') = Cardinality(At(t)) - 1
  <2>1. c \in At(t) /\ At(t)' = At(t) \ {c}
    BY <1>1, <1>3 DEF At
  <2>2. QED BY <1>2, <2>1, FS_RemoveElement
<1>4. ASSUME call[c].at # t, call'[c].at = t
      PROVE  Cardinality(At(t)') = Cardinality(At(t)) + 1
  <2>1. c \notin At(t) /\ At(t)' = At(t) \cup {c}
    BY <1>1, <1>4 DEF At
  <2>2. QED BY <1>2, <2>1, FS_AddElement
<1>5. ASSUME call[c].at # t, call'[c].at # t
      PROVE  Cardinality(At(t)') = Cardinality(At(t))
  <2>1. At(t)' = At(t)
    BY <1>1, <1>5 DEF At
  <2>2. QED BY <2>1
<1>6. QED BY <1>3, <1>4, <1>5

LEMMA CallersStay ==
    ASSUME UNCHANGED call, NEW t
    PROVE  At(t)' = At(t)
BY DEF At

-----------------------------------------------------------------------------
(* The bounds on the queue and on everything that is held back.            *)

LEMMA QueueBoundStep ==
    ASSUME TypeOK, TypeOK', QueueBound, [Next]_vars
    PROVE  QueueBound'
<1> USE BoundsAssumption
<1>0. /\ Len(queue) \in Nat /\ Len(queue') \in Nat
      /\ \A s : Cardinality(At(s)) \in Nat /\ Cardinality(At(s)) <= Cardinality(Callers)
      /\ Cardinality(Callers) \in Nat
  BY AtIsFinite DEF TypeOK
<1>1. CASE \E c \in Callers : Enqueue(c)
  <2>1. PICK c \in Callers : Enqueue(c)
    BY <1>1
  <2>2. CASE Admit(c)
    <3>0. call[c].at = "check" /\ call'[c].at = "send"
      BY <2>1, <2>2, EnqueueMoves
    <3>1. Cardinality(At("send")') = Cardinality(At("send")) + 1
      BY <2>1, <3>0, EnqueueCounts
    <3>2. Cardinality(At("send")') <= Cardinality(Callers)
      <4>1. At("send")' \subseteq Callers
        BY DEF At
      <4>2. QED BY <4>1, CallersAssumption, FS_Subset
    <3>3. Len(queue) < MaxQueueSize /\ queue' = queue
      <4>1. call[c].limit \in 0..MaxQueueSize
        BY DEF TypeOK
      <4>2. Len(queue) < call[c].limit /\ queue' = queue
        BY <2>2 DEF Admit
      <4>3. QED BY <1>0, <4>1, <4>2
    <3>4. QED BY <1>0, <3>1, <3>2, <3>3 DEF QueueBound
  <2>3. CASE Send(c)
    <3>0. call[c].at = "send" /\ call'[c].at = "count"
      BY <2>1, <2>3, EnqueueMoves
    <3>1. Cardinality(At("send")') = Cardinality(At("send")) - 1
      BY <2>1, <3>0, EnqueueCounts
    <3>2. Len(queue') = Len(queue) + 1 /\ Len(queue) < QueueCap
      BY <2>3 DEF Send, TypeOK
    <3>3. QED BY <1>0, <3>1, <3>2 DEF QueueBound
  <2>4. CASE BeginEnqueue(c) \/ Drop(c) \/ EndEnqueue(c)
    <3>0. call'[c].at # "send"
      BY <2>1, <2>4, EnqueueMoves
    <3>1. \/ Cardinality(At("send")') = Cardinality(At("send"))
          \/ Cardinality(At("send")') = Cardinality(At("send")) - 1
      BY <2>1, <3>0, EnqueueCounts
    <3>2. queue' = queue
      BY <2>4 DEF BeginEnqueue, Drop, EndEnqueue
    <3>3. QED BY <1>0, <3>1, <3>2 DEF QueueBound
  <2>5. QED BY <2>1, <2>2, <2>3, <2>4 DEF Enqueue
<1>2. CASE Receive
  <2>1. Len(queue') = Len(queue) - 1
    BY <1>2 DEF Receive, TypeOK
  <2>2. At("send")' = At("send")
    BY <1>2, CallersStay DEF Receive, callVars
  <2>3. QED BY <1>0, <2>1, <2>2 DEF QueueBound
<1>3. CASE UNCHANGED <<queue, call>>
  <2>1. At("send")' = At("send")
    BY <1>3, CallersStay
  <2>2. QED BY <1>3, <2>1 DEF QueueBound
<1>4. Next => (\E c \in Callers : Enqueue(c)) \/ Receive \/ UNCHANGED <<queue, call>>
  BY DEF Next, Proceed, SetConsistencyLevel, AddPeer, RemovePeer, Stop, Start, Tick, StopArm,
         Flush, ReadLimit, RouteFast, RouteBatch, Broadcast, Callback, Account, CountMode, callVars
<1>5. QED
  BY <1>1, <1>2, <1>3, <1>4 DEF vars, callVars

LEMMA LoopBoundStep ==
    ASSUME Shape, Shape', LoopBound, [Next]_vars
    PROVE  LoopBound'
<1> USE BoundsAssumption DEF Shape
<1>0. /\ Len(batch) \in Nat /\ Len(batch') \in Nat
      /\ Len(sending) \in Nat /\ Len(sending') \in Nat
      /\ limit \in 0..MaxQueueSize
      /\ Len(<< >>) = 0
  BY DEF TypeOK
<1>1. CASE UNCHANGED <<batch, sending>>
  BY <1>1 DEF LoopBound
<1>2. CASE RouteFast
  <2>1. Len(sending') = 1 /\ batch' = batch
    BY <1>2 DEF RouteFast
  <2>2. QED BY <1>0, <2>1 DEF LoopBound
<1>3. CASE RouteBatch
  <2>1. Len(Append(batch, inHand)) = Len(batch) + 1
    BY <1>3 DEF TypeOK, LoopShape, RouteBatch
  <2>2. sending = << >>
    BY <1>3 DEF LoopShape, RouteBatch
  <2>3. \/ sending' = Append(batch, inHand) /\ batch' = << >>
        \/ sending' = sending /\ batch' = Append(batch, inHand) /\ Len(batch) + 1 < limit
    BY <1>3 DEF RouteBatch
  <2>4. QED BY <1>0, <2>1, <2>2, <2>3 DEF LoopBound
<1>4. CASE \E m \in {"tick", "final"} : Flush(m)
  <2>1. sending' = batch /\ batch' = << >>
    BY <1>4 DEF Flush
  <2>2. QED BY <1>0, <2>1 DEF LoopBound
<1>5. CASE Account
  <2>1. sending' = << >> /\ batch' = batch
    BY <1>5 DEF Account
  <2>2. QED BY <1>0, <2>1 DEF LoopBound
<1>6. Next => \/ UNCHANGED <<batch, sending>>
              \/ RouteFast \/ RouteBatch \/ (\E m \in {"tick", "final"} : Flush(m)) \/ Account
  BY DEF Next, Proceed, Enqueue, BeginEnqueue, Admit, Drop, Send, EndEnqueue, loopVars,
         SetConsistencyLevel, AddPeer, RemovePeer, Stop, Start, Receive, ReadLimit, Tick,
         StopArm, Broadcast, Callback, CountMode
<1>7. QED
  BY <1>1, <1>2, <1>3, <1>4, <1>5, <1>6 DEF vars, loopVars

LEMMA InitBounds == Init => QueueBound /\ LoopBound
<1> SUFFICES ASSUME Init PROVE QueueBound /\ LoopBound
  OBVIOUS
<1>1. At("send") = {}
  BY DEF Init, At, Idle
<1>2. Cardinality(At("send")) = 0 /\ Cardinality(Callers) \in Nat \ {0} /\ Len(<< >>) = 0
  BY <1>1, AtIsFinite, FS_EmptySet
<1>3. QED
  BY <1>2, BoundsAssumption DEF Init, QueueBound, LoopBound

\* However many goroutines race through Enqueue and however the level changes
\* under them, the queue overshoots the largest level by less than the number
\* of callers (dispatcher.go:133-171).
THEOREM QueueBounded == SafeSpec => []QueueBound
<1>1. TypeOK /\ TypeOK' /\ QueueBound /\ [Next]_vars => QueueBound'
  BY QueueBoundStep
<1>2. QED
  BY <1>1, InitBounds, TypeCorrect, PTL DEF SafeSpec

\* run() never holds more than the limit it read in its batch and in what it
\* is sending (dispatcher.go:220-261).
THEOREM LoopBounded == SafeSpec => []LoopBound
<1>1. Shape /\ Shape' /\ LoopBound /\ [Next]_vars => LoopBound'
  BY LoopBoundStep
<1>2. QED
  BY <1>1, InitBounds, ShapeInvariant, PTL DEF SafeSpec

\* The queue, the update in hand, the batch and what is being sent never
\* exceed twice the largest level plus the callers (dispatcher.go:198-264).
THEOREM StalenessBounded == SafeSpec => []StalenessBound
<1>1. Shape /\ QueueBound /\ LoopBound => StalenessBound
  <2> SUFFICES ASSUME Shape, QueueBound, LoopBound PROVE StalenessBound
    OBVIOUS
  <2>1. /\ Len(queue) \in Nat /\ Len(batch) \in Nat /\ Len(sending) \in Nat
        /\ Len(<< >>) = 0 /\ sent \in Nat
        /\ Cardinality(At("send")) \in Nat /\ Cardinality(Callers) \in Nat
        /\ MaxQueueSize \in Nat
    <3>1. Cardinality(At("send")) \in Nat /\ Cardinality(Callers) \in Nat
      BY AtIsFinite
    <3>2. QED BY <3>1, BoundsAssumption DEF Shape, TypeOK
  <2>2. Held = 0 \/ (Held = 1 /\ Len(sending) = 0)
    BY <2>1 DEF Shape, LoopShape, Held
  <2>3. sent <= Len(sending)
    BY DEF Shape, LoopShape
  <2>4. Len(batch) + Held + Len(sending) <= MaxQueueSize
    BY <2>1, <2>2 DEF LoopBound
  <2>5. Held \in Nat
    BY <2>2
  <2>6. Len(queue) + Cardinality(At("send")) <= MaxQueueSize + Cardinality(Callers) - 1
    BY DEF QueueBound
  <2>7. QED
    BY <2>1, <2>3, <2>4, <2>5, <2>6 DEF StalenessBound
<1>2. QED
  BY <1>1, ShapeInvariant, QueueBounded, LoopBounded, PTL

-----------------------------------------------------------------------------
(* The accounting and what a stop loses.                                   *)

LEMMA CounterTypes ==
    ASSUME TypeOK
    PROVE  /\ stats \in Counters /\ ops \in OpCounters
           /\ stats.TotalUpdates \in Nat /\ stats.SuccessfulSends \in Nat
           /\ stats.FailedSends \in Nat /\ stats.QueueFullDrops \in Nat
           /\ ops.TotalUpdates \in Nat /\ ops.SuccessfulOps \in Nat /\ ops.FailedOps \in Nat
BY DEF TypeOK, Counters, OpCounters

LEMMA PipelineType ==
    ASSUME TypeOK
    PROVE  /\ Len(queue) \in Nat /\ Len(batch) \in Nat /\ Len(sending) \in Nat
           /\ Len(handed) \in Nat /\ Held \in Nat /\ InPipeline \in Nat
BY DEF TypeOK, Held, InPipeline

LEMMA InitAccounting == Init => Accounting /\ CounterShape
<1> SUFFICES ASSUME Init PROVE Accounting /\ CounterShape
  OBVIOUS
<1>1. At("count") = {} /\ At("drop") = {}
  BY DEF Init, At, Idle
<1>2. Cardinality({}) = 0 /\ Len(<< >>) = 0
  BY FS_EmptySet
<1>3. /\ stats.TotalUpdates = 0 /\ stats.SuccessfulSends = 0 /\ stats.FailedSends = 0
      /\ stats.QueueFullDrops = 0
      /\ ops.TotalUpdates = 0 /\ ops.SuccessfulOps = 0 /\ ops.FailedOps = 0
  BY DEF Init
<1>4. /\ Len(queue) = 0 /\ Len(batch) = 0 /\ Len(sending) = 0 /\ Len(handed) = 0
      /\ Held = 0 /\ Cardinality(refused) = 0 /\ sent = 0 /\ told = 0 /\ Credited = 0
  BY <1>2 DEF Init, Held, Credited
<1>5. Cardinality(At("count")) = 0 /\ Cardinality(At("drop")) = 0
  BY <1>1, <1>2
<1>6. QED
  BY <1>3, <1>4, <1>5
     DEF Accounting, AcceptedCounted, DropsCounted, OutcomesCounted, CounterShape, InPipeline

LEMMA EnqueueAccounting ==
    ASSUME Shape, Accounting, CounterShape, NEW c \in Callers, Enqueue(c)
    PROVE  Accounting' /\ CounterShape'
<1> USE DEF Shape
<1>0. /\ Cardinality(At("count")) \in Nat /\ Cardinality(At("drop")) \in Nat
      /\ stats \in Counters /\ InPipeline \in Nat
      /\ stats.TotalUpdates \in Nat /\ stats.SuccessfulSends \in Nat
      /\ stats.FailedSends \in Nat /\ stats.QueueFullDrops \in Nat
  BY AtIsFinite, CounterTypes, PipelineType
<1>1. UNCHANGED <<ops, batch, sending, sent, told, handed, Held, Credited>>
  BY DEF Enqueue, BeginEnqueue, Admit, Drop, Send, EndEnqueue, loopVars, Held, Credited
<1>2. queue' = queue => InPipeline' = InPipeline
  BY <1>1 DEF InPipeline
<1>3. UNCHANGED <<stats.SuccessfulSends, stats.FailedSends>> => OutcomesCounted' /\ CounterShape'
  BY <1>1 DEF Accounting, OutcomesCounted, CounterShape
<1>4. CASE BeginEnqueue(c) \/ Admit(c)
  <2>1. call[c].at \notin {"count", "drop"} /\ call'[c].at \notin {"count", "drop"}
    BY <1>4, EnqueueMoves
  <2>2. /\ Cardinality(At("count")') = Cardinality(At("count"))
        /\ Cardinality(At("drop")') = Cardinality(At("drop"))
    BY <2>1, EnqueueCounts
  <2>3. UNCHANGED <<stats, queue, refused>>
    BY <1>4 DEF BeginEnqueue, Admit
  <2>4. AcceptedCounted' /\ DropsCounted'
    BY <1>2, <2>2, <2>3 DEF Accounting, AcceptedCounted, DropsCounted
  <2>5. QED BY <1>3, <2>3, <2>4 DEF Accounting
<1>5. CASE Drop(c)
  <2>1. call[c].at \in {"check", "send"} /\ call'[c].at = "drop"
    BY <1>5, EnqueueMoves
  <2>2. /\ Cardinality(At("count")') = Cardinality(At("count"))
        /\ Cardinality(At("drop")') = Cardinality(At("drop")) + 1
    BY <2>1, EnqueueCounts
  <2>3. Cardinality(refused') = Cardinality(refused) + 1 /\ Cardinality(refused) \in Nat
    <3>1. issued \in Nat /\ refused \subseteq 1..issued /\ call[c].update \notin refused
      BY <2>1 DEF CallShape, Deciding, TypeOK
    <3>2. IsFiniteSet(refused)
      <4>1. IsFiniteSet(1..issued)
        BY <3>1, FS_Interval
      <4>2. QED BY <3>1, <4>1, FS_Subset
    <3>3. refused' = refused \cup {call[c].update}
      BY <1>5 DEF Drop
    <3>4. QED BY <3>1, <3>2, <3>3, FS_AddElement, FS_CardinalityType
  <2>4. UNCHANGED <<stats, queue>>
    BY <1>5 DEF Drop
  <2>5. AcceptedCounted'
    BY <1>2, <2>2, <2>4 DEF Accounting, AcceptedCounted
  <2>6. DropsCounted'
    BY <1>0, <2>2, <2>3, <2>4 DEF Accounting, DropsCounted
  <2>7. QED BY <1>3, <2>4, <2>5, <2>6 DEF Accounting
<1>6. CASE Send(c)
  <2>1. call[c].at = "send" /\ call'[c].at = "count"
    BY <1>6, EnqueueMoves
  <2>2. /\ Cardinality(At("count")') = Cardinality(At("count")) + 1
        /\ Cardinality(At("drop")') = Cardinality(At("drop"))
    BY <2>1, EnqueueCounts
  <2>3. UNCHANGED <<stats, refused>> /\ Len(queue') = Len(queue) + 1
    BY <1>6 DEF Send, TypeOK
  <2>4. InPipeline' = InPipeline + 1
    BY <1>1, <2>3, PipelineType DEF InPipeline
  <2>5. AcceptedCounted'
    <3>1. PICK t \in Nat, n \in Nat, b \in Nat, p \in Nat :
              /\ t = stats.TotalUpdates /\ n = Cardinality(At("count"))
              /\ b = stats.SuccessfulSends + stats.FailedSends /\ p = InPipeline
      BY <1>0
    <3>2. t + n = b + p
      BY <3>1 DEF Accounting, AcceptedCounted
    <3>3. t + (n + 1) = b + (p + 1)
      BY <3>2
    <3>4. QED
      BY <2>2, <2>3, <2>4, <3>1, <3>3 DEF AcceptedCounted
  <2>6. DropsCounted'
    BY <2>2, <2>3 DEF Accounting, DropsCounted
  <2>7. QED BY <1>3, <2>3, <2>5, <2>6 DEF Accounting
<1>7. CASE EndEnqueue(c)
  <2>1. UNCHANGED <<queue, refused>>
    BY <1>7 DEF EndEnqueue
  <2>2. call[c].at \in {"count", "drop"} /\ call'[c].at = "idle"
    BY <1>7, EnqueueMoves
  <2>3. CASE call[c].at = "count"
    <3>1. /\ Cardinality(At("count")') = Cardinality(At("count")) - 1
          /\ Cardinality(At("drop")') = Cardinality(At("drop"))
      BY <2>2, <2>3, EnqueueCounts
    <3>2. stats' = [stats EXCEPT !.TotalUpdates = @ + 1]
      BY <1>7, <2>3 DEF EndEnqueue
    <3>3. /\ stats'.TotalUpdates = stats.TotalUpdates + 1
          /\ UNCHANGED <<stats.SuccessfulSends, stats.FailedSends, stats.QueueFullDrops>>
      BY <1>0, <3>2 DEF Counters
    <3>4. AcceptedCounted'
      BY <1>0, <1>2, <2>1, <3>1, <3>3 DEF Accounting, AcceptedCounted
    <3>5. DropsCounted'
      BY <2>1, <3>1, <3>3 DEF Accounting, DropsCounted
    <3>6. QED BY <1>3, <3>3, <3>4, <3>5 DEF Accounting
  <2>4. CASE call[c].at = "drop"
    <3>1. /\ Cardinality(At("count")') = Cardinality(At("count"))
          /\ Cardinality(At("drop")') = Cardinality(At("drop")) - 1
      BY <2>2, <2>4, EnqueueCounts
    <3>2. stats' = [stats EXCEPT !.QueueFullDrops = @ + 1]
      BY <1>7, <2>4 DEF EndEnqueue
    <3>3. /\ stats'.QueueFullDrops = stats.QueueFullDrops + 1
          /\ UNCHANGED <<stats.TotalUpdates, stats.SuccessfulSends, stats.FailedSends>>
      BY <1>0, <3>2 DEF Counters
    <3>4. AcceptedCounted'
      BY <1>2, <2>1, <3>1, <3>3 DEF Accounting, AcceptedCounted
    <3>5. DropsCounted'
      BY <1>0, <2>1, <3>1, <3>3 DEF Accounting, DropsCounted
    <3>6. QED BY <1>3, <3>3, <3>4, <3>5 DEF Accounting
  <2>5. QED BY <2>2, <2>3, <2>4
<1>8. QED BY <1>4, <1>5, <1>6, <1>7 DEF Enqueue

LEMMA LoopAccounting ==
    ASSUME Shape, Shape', Accounting, CounterShape,
           Start \/ Receive \/ Tick \/ StopArm \/ Proceed
    PROVE  Accounting' /\ CounterShape'
<1> USE DEF Shape
<1>0. /\ stats \in Counters /\ ops \in OpCounters /\ sent \in Nat /\ successes \in Nat
      /\ Len(queue) \in Nat /\ Len(batch) \in Nat /\ Len(sending) \in Nat /\ Len(handed) \in Nat
      /\ Len(<< >>) = 0
  BY PipelineType DEF TypeOK
<1>1. UNCHANGED <<call, refused>>
  BY DEF Start, Receive, Tick, StopArm, Flush, Proceed, ReadLimit, RouteFast, RouteBatch,
         Broadcast, Callback, Account, CountMode, callVars
<1>2. /\ Cardinality(At("count"))' = Cardinality(At("count"))
      /\ Cardinality(At("drop"))' = Cardinality(At("drop"))
      /\ Cardinality(refused)' = Cardinality(refused)
      /\ Cardinality(At("count")) \in Nat
  BY <1>1, CallersStay, AtIsFinite
<1>3. ASSUME UNCHANGED <<stats, ops, sent, successes, told, handed>>, InPipeline' = InPipeline
      PROVE  Accounting' /\ CounterShape'
  BY <1>2, <1>3
     DEF Accounting, AcceptedCounted, DropsCounted, OutcomesCounted, CounterShape, Credited
<1>4. CASE Start \/ ReadLimit
  BY <1>3, <1>4 DEF Start, ArmTicker, ReadLimit, Held, InPipeline
<1>5. CASE Receive
  <2>1. Held = 0 /\ Held' = 1
    BY <1>5 DEF LoopShape, Receive, Held
  <2>2. Len(queue') = Len(queue) - 1
    BY <1>5 DEF Receive, TypeOK
  <2>3. UNCHANGED <<stats, ops, sent, successes, told, handed, batch, sending>>
    BY <1>5 DEF Receive
  <2>4. InPipeline' = InPipeline
    BY <1>0, <2>1, <2>2, <2>3 DEF InPipeline
  <2>5. QED BY <1>3, <2>3, <2>4
<1>6. CASE RouteFast
  <2>1. Held = 1 /\ Held' = 0 /\ Len(sending) = 0
    BY <1>0, <1>6 DEF LoopShape, RouteFast, Held
  <2>2. Len(sending') = 1
    BY <1>6 DEF RouteFast
  <2>3. UNCHANGED <<stats, ops, sent, successes, told, handed, batch, queue>>
    BY <1>6 DEF RouteFast
  <2>4. InPipeline' = InPipeline
    BY <1>0, <2>1, <2>2, <2>3 DEF InPipeline
  <2>5. QED BY <1>3, <2>3, <2>4
<1>7. CASE RouteBatch
  <2>1. Held = 1 /\ Held' = 0 /\ Len(sending) = 0
    BY <1>0, <1>7 DEF LoopShape, RouteBatch, Held
  <2>2. Len(Append(batch, inHand)) = Len(batch) + 1
    BY <1>7 DEF TypeOK, LoopShape, RouteBatch
  <2>3. \/ sending' = Append(batch, inHand) /\ batch' = << >>
        \/ sending' = sending /\ batch' = Append(batch, inHand)
    BY <1>7 DEF RouteBatch
  <2>4. UNCHANGED <<stats, ops, sent, successes, told, handed, queue>>
    BY <1>7 DEF RouteBatch
  <2>5. InPipeline' = InPipeline
    BY <1>0, <2>1, <2>2, <2>3, <2>4 DEF InPipeline
  <2>6. QED BY <1>3, <2>4, <2>5
<1>8. CASE Tick \/ StopArm
  <2>1. Held = 0 /\ Held' = 0 /\ Len(sending) = 0
    BY <1>0, <1>8 DEF LoopShape, Tick, StopArm, Flush, ArmTicker, Held
  <2>2. \/ sending' = batch /\ batch' = << >>
        \/ UNCHANGED <<sending, batch>>
    BY <1>8 DEF Tick, StopArm, Flush
  <2>3. UNCHANGED <<stats, ops, sent, successes, told, handed, queue>>
    BY <1>8 DEF Tick, StopArm, Flush, ArmTicker
  <2>4. InPipeline' = InPipeline
    BY <1>0, <2>1, <2>2, <2>3 DEF InPipeline
  <2>5. QED BY <1>3, <2>3, <2>4
<1>9. CASE Broadcast
  <2>1. /\ UNCHANGED <<stats, ops, queue, batch, sending, told, Held>>
        /\ Credited = 0 /\ Credited' = 0
    BY <1>9 DEF Broadcast, Held, Credited, LoopShape
  <2>2. sent' = sent + 1 /\ Len(handed') = Len(handed) + 1
    BY <1>9 DEF Broadcast, TypeOK
  <2>3. CounterShape'
    <3>1. PICK b \in Nat, f \in Nat, k \in Nat :
              b = stats.SuccessfulSends /\ f = stats.FailedSends /\ k = sent
      BY <1>0, CounterTypes
    <3>2. b + f + (k + 1) = (b + f + k) + 1
      OBVIOUS
    <3>3. Len(handed') = stats.SuccessfulSends + stats.FailedSends + sent'
      BY <2>2, <3>1, <3>2 DEF CounterShape
    <3>4. QED
      BY <2>1, <3>3 DEF CounterShape
  <2>4. InPipeline' = InPipeline
    BY <2>1 DEF InPipeline
  <2>5. Accounting'
    BY <1>2, <2>1, <2>4 DEF Accounting, AcceptedCounted, DropsCounted, OutcomesCounted
  <2>6. QED BY <2>3, <2>5
<1>10. CASE Callback
  <2>1. /\ UNCHANGED <<stats, queue, batch, sending, sent, successes, handed, Held>>
        /\ told' = told + 1
    BY <1>10 DEF Callback, Held
  <2>2. PICK good \in {0, 1} :
            /\ good = (IF successes > 0 THEN 1 ELSE 0)
            /\ ops'.TotalUpdates = ops.TotalUpdates + 1
            /\ ops'.SuccessfulOps = ops.SuccessfulOps + good
            /\ ops'.FailedOps = ops.FailedOps + (1 - good)
    <3>1. CASE successes > 0
      <4>1. ops' = [ops EXCEPT !.TotalUpdates = @ + 1, !.SuccessfulOps = @ + 1]
        BY <1>0, <1>10, <3>1 DEF Callback
      <4>2. /\ ops'.TotalUpdates = ops.TotalUpdates + 1
            /\ ops'.SuccessfulOps = ops.SuccessfulOps + 1
            /\ ops'.FailedOps = ops.FailedOps
        BY <1>0, <4>1 DEF OpCounters
      <4>3. QED BY <1>0, <3>1, <4>2, CounterTypes
    <3>2. CASE ~ successes > 0
      <4>1. ops' = [ops EXCEPT !.TotalUpdates = @ + 1, !.FailedOps = @ + 1]
        BY <1>0, <1>10, <3>2 DEF Callback
      <4>2. /\ ops'.TotalUpdates = ops.TotalUpdates + 1
            /\ ops'.SuccessfulOps = ops.SuccessfulOps
            /\ ops'.FailedOps = ops.FailedOps + 1
        BY <1>0, <4>1 DEF OpCounters
      <4>3. QED BY <1>0, <3>2, <4>2, CounterTypes
    <3>3. QED BY <3>1, <3>2
  <2>3. PICK s \in Nat, f \in Nat, t \in Nat, d \in Nat, b \in Nat, e \in Nat :
            /\ s = ops.SuccessfulOps /\ f = ops.FailedOps /\ t = ops.TotalUpdates
            /\ d = told /\ b = stats.SuccessfulSends /\ e = stats.FailedSends
    BY CounterTypes DEF TypeOK
  <2>4. s + f = t /\ t = b + e + d /\ s >= b + (IF successes > 0 THEN d ELSE 0)
    BY <2>3 DEF Accounting, OutcomesCounted, CounterShape, Credited
  <2>5. /\ (s + good) + (f + (1 - good)) = t + 1
        /\ t + 1 = b + e + (d + 1)
        /\ s + good >= b + (IF successes > 0 THEN d + 1 ELSE 0)
        /\ s + good >= b
    BY <2>2, <2>4
  <2>6. OutcomesCounted'
    BY <2>1, <2>2, <2>3, <2>5 DEF OutcomesCounted
  <2>7. Credited' = (IF successes > 0 THEN d + 1 ELSE 0)
    BY <2>1, <2>3 DEF Credited
  <2>8. CounterShape'
    BY <2>1, <2>2, <2>3, <2>5, <2>7 DEF CounterShape
  <2>9. AcceptedCounted' /\ DropsCounted'
    BY <1>2, <2>1 DEF Accounting, AcceptedCounted, DropsCounted, InPipeline
  <2>10. QED BY <2>6, <2>8, <2>9 DEF Accounting
<1>11. CASE Account
  <2>1. /\ UNCHANGED <<ops, queue, batch, handed, Held>>
        /\ loop = "account" /\ sending' = << >> /\ sent' = 0 /\ told' = 0 /\ Credited' = 0
    BY <1>11 DEF Account, Held, Credited
  <2>2. /\ stats'.SuccessfulSends = stats.SuccessfulSends + successes
        /\ stats'.FailedSends = stats.FailedSends + (Len(sending) - successes)
        /\ stats'.TotalUpdates = stats.TotalUpdates
        /\ stats'.QueueFullDrops = stats.QueueFullDrops
    BY <1>0, <1>11 DEF Account, Counters
  <2>3. sent = Len(sending) /\ told = Len(sending) /\ Credited >= successes
    BY <1>0, <2>1 DEF LoopShape, Credited
  <2>4. PICK b \in Nat, f \in Nat, g \in Nat, l \in Nat :
            /\ b = stats.SuccessfulSends /\ f = stats.FailedSends
            /\ g = successes /\ l = Len(sending)
    BY <1>0, CounterTypes
  <2>4a. stats'.SuccessfulSends \in Nat /\ stats'.FailedSends \in Nat
    <3>1. stats' \in Counters
      BY DEF TypeOK
    <3>2. QED BY <3>1 DEF Counters
  <2>5. stats'.SuccessfulSends + stats'.FailedSends
          = stats.SuccessfulSends + stats.FailedSends + Len(sending)
    <3>1. (b + g) + (f + (l - g)) = b + f + l
      OBVIOUS
    <3>2. QED BY <2>2, <2>4, <3>1
  <2>6. OutcomesCounted'
    <3>1. /\ ops.SuccessfulOps + ops.FailedOps = ops.TotalUpdates
          /\ ops.TotalUpdates = stats'.SuccessfulSends + stats'.FailedSends
          /\ ops.SuccessfulOps >= stats'.SuccessfulSends
      <4>1. ops.SuccessfulOps >= stats.SuccessfulSends + Credited
        BY DEF CounterShape
      <4>2. PICK c \in Nat, s \in Nat : c = Credited /\ s = ops.SuccessfulOps
        BY CounterTypes DEF Credited, TypeOK
      <4>3. c >= g /\ s >= b + c
        BY <2>3, <2>4, <4>1, <4>2
      <4>4. s >= b + g
        BY <4>3
      <4>5. ops.SuccessfulOps >= stats'.SuccessfulSends
        BY <2>2, <2>4, <4>2, <4>4
      <4>6. QED
        BY <2>3, <2>5, <4>5 DEF Accounting, OutcomesCounted
    <3>2. stats'.SuccessfulSends + stats'.FailedSends + 0
            = stats'.SuccessfulSends + stats'.FailedSends
      BY <2>4a
    <3>3. QED
      BY <2>1, <3>1, <3>2 DEF OutcomesCounted
  <2>7. CounterShape'
    <3>1. Len(handed) = stats'.SuccessfulSends + stats'.FailedSends
      BY <2>3, <2>5 DEF CounterShape
    <3>2. ops.SuccessfulOps >= stats'.SuccessfulSends
      BY <2>1, <2>6 DEF OutcomesCounted
    <3>3. /\ stats'.SuccessfulSends + stats'.FailedSends + 0
               = stats'.SuccessfulSends + stats'.FailedSends
          /\ stats'.SuccessfulSends + 0 = stats'.SuccessfulSends
      BY <2>4a
    <3>4. QED
      BY <2>1, <3>1, <3>2, <3>3 DEF CounterShape
  <2>8. AcceptedCounted'
    <3>1. InPipeline' \in Nat /\ InPipeline = InPipeline' + Len(sending)
      BY <1>0, <2>1, PipelineType DEF InPipeline
    <3>2. PICK p \in Nat : p = InPipeline'
      BY <3>1
    <3>3. b + f + (p + l) = (b + f + l) + p
      OBVIOUS
    <3>4. stats.TotalUpdates + Cardinality(At("count"))
            = stats.SuccessfulSends + stats.FailedSends + Len(sending) + InPipeline'
      BY <2>4, <3>1, <3>2, <3>3 DEF Accounting, AcceptedCounted
    <3>5. QED
      BY <1>2, <2>2, <2>5, <3>4 DEF AcceptedCounted
  <2>9. DropsCounted'
    BY <1>2, <2>2 DEF Accounting, DropsCounted
  <2>10. QED BY <2>6, <2>7, <2>8, <2>9 DEF Accounting
<1>12. CASE CountMode
  <2>1. UNCHANGED <<ops, queue, batch, sending, sent, successes, told, handed, Held, Credited>>
    BY <1>12 DEF CountMode, ArmTicker, Held, Credited
  <2>2. /\ stats'.SuccessfulSends = stats.SuccessfulSends
        /\ stats'.FailedSends = stats.FailedSends
        /\ stats'.TotalUpdates = stats.TotalUpdates
        /\ stats'.QueueFullDrops = stats.QueueFullDrops
    BY <1>0, <1>12 DEF CountMode, Counters
  <2>3. QED
    BY <1>2, <2>1, <2>2
       DEF Accounting, AcceptedCounted, DropsCounted, OutcomesCounted, CounterShape, InPipeline
<1>13. QED
  BY <1>4, <1>5, <1>6, <1>7, <1>8, <1>9, <1>10, <1>11, <1>12 DEF Proceed

LEMMA AccountingInvariant == SafeSpec => [](Accounting /\ CounterShape)
<1>1. Shape /\ Shape' /\ Accounting /\ CounterShape /\ [Next]_vars => Accounting' /\ CounterShape'
  <2> SUFFICES ASSUME Shape, Shape', Accounting, CounterShape, [Next]_vars
               PROVE  Accounting' /\ CounterShape'
    OBVIOUS
  <2>1. CASE UNCHANGED <<queue, stats, ops, callVars, loopVars>>
    <3>1. \A t : At(t)' = At(t)
      BY <2>1, CallersStay DEF callVars
    <3>2. QED
      BY <2>1, <3>1 DEF Accounting, AcceptedCounted, DropsCounted, OutcomesCounted,
                        CounterShape, Credited, Held, InPipeline, callVars, loopVars
  <2>2. CASE \E c \in Callers : Enqueue(c)
    BY <2>2, EnqueueAccounting
  <2>3. CASE Start \/ Receive \/ Tick \/ StopArm \/ Proceed
    BY <2>3, LoopAccounting
  <2>4. QED
    BY <2>1, <2>2, <2>3 DEF Next, vars, SetConsistencyLevel, AddPeer, RemovePeer, Stop
<1>2. QED
  BY <1>1, InitAccounting, ShapeInvariant, PTL DEF SafeSpec

\* No update is counted twice or forgotten between the six counters of the
\* dispatcher, the manager's three and the places an update can be in
\* (dispatcher.go:133-356, ac.go:157-167).
THEOREM AccountingHolds == SafeSpec => []Accounting
BY AccountingInvariant, PTL

\* Once run() has returned, what it took from the queue has been broadcast and
\* counted (dispatcher.go:213-218).
THEOREM StopLosesNothingElse == SafeSpec => []StopLosesOnlyTheQueue
<1>1. Shape /\ Accounting /\ CounterShape => StopLosesOnlyTheQueue
  <2> SUFFICES ASSUME Shape, Accounting, CounterShape, loop = "stopped"
               PROVE  /\ stats.TotalUpdates + Cardinality(At("count")) = Len(handed) + Len(queue)
                      /\ stats.SuccessfulSends + stats.FailedSends = Len(handed)
    BY DEF StopLosesOnlyTheQueue
  <2>1. Len(batch) = 0 /\ Len(sending) = 0 /\ Held = 0 /\ sent = 0
    BY DEF Shape, LoopShape, TypeOK, Held
  <2>2. Len(queue) \in Nat /\ stats \in Counters
    BY DEF Shape, TypeOK
  <2>3. QED
    BY <2>1, <2>2 DEF Accounting, AcceptedCounted, CounterShape, Counters, InPipeline
<1>2. QED
  BY <1>1, ShapeInvariant, AccountingInvariant, PTL

-----------------------------------------------------------------------------
(* The dispatcher as an outbox.                                            *)

Elems(s) == {s[i] : i \in 1..Len(s)}
Distinct(s) == \A i, j \in 1..Len(s) : s[i] = s[j] => i = j

InHand == {inHand} \ {NoUpdate}
Remaining == {sending[i] : i \in sent + 1..Len(sending)}

\* No two places of the pipeline hold the same update.
NoCopies ==
    /\ Distinct(queue) /\ Distinct(batch) /\ Distinct(sending)
    /\ Elems(queue) \cap (InHand \cup Elems(batch) \cup Remaining) = {}
    /\ Elems(batch) \cap (InHand \cup Remaining) = {}

\* An update is deciding, pending or settled, and only one of the three.
OnePlace ==
    /\ Unsent \cap (refused \cup Elems(handed)) = {}
    /\ \A c \in Deciding : call[c].update \notin Unsent \cup Elems(handed)
    /\ Unsent \cup Elems(handed) \subseteq 1..issued

Places == Shape /\ NoCopies /\ OnePlace

-----------------------------------------------------------------------------
(* Sequences as bags of updates.                                           *)

LEMMA ElemsOfAppend ==
    ASSUME NEW S, NEW s \in Seq(S), NEW x \in S
    PROVE  /\ Elems(Append(s, x)) = Elems(s) \cup {x}
           /\ Distinct(s) /\ x \notin Elems(s) => Distinct(Append(s, x))
<1> DEFINE t == Append(s, x)
<1>1. /\ Len(s) \in Nat /\ Len(t) = Len(s) + 1
      /\ t[Len(s) + 1] = x
      /\ \A i \in 1..Len(s) : t[i] = s[i]
  OBVIOUS
<1> HIDE DEF t
<1>2. 1..Len(t) = 1..Len(s) \cup {Len(s) + 1}
  BY <1>1
<1>3. Elems(t) = Elems(s) \cup {x}
  BY <1>1, <1>2 DEF Elems
<1>4. Distinct(s) /\ x \notin Elems(s) => Distinct(t)
  BY <1>1, <1>2 DEF Elems, Distinct
<1>5. QED BY <1>3, <1>4 DEF t

LEMMA ElemsOfTail ==
    ASSUME NEW S, NEW s \in Seq(S), s # << >>
    PROVE  /\ Elems(s) = {Head(s)} \cup Elems(Tail(s))
           /\ Distinct(s) => Distinct(Tail(s)) /\ Head(s) \notin Elems(Tail(s))
<1> DEFINE t == Tail(s)  h == Head(s)
<1>1. /\ Len(s) \in Nat \ {0} /\ Len(t) = Len(s) - 1
      /\ h = s[1]
      /\ \A i \in 1..Len(t) : t[i] = s[i + 1]
  OBVIOUS
<1> HIDE DEF t, h
<1>2. \A i \in 1..Len(s) : i = 1 \/ i - 1 \in 1..Len(t)
  BY <1>1
<1>3. \A i \in 1..Len(t) : i + 1 \in 1..Len(s) /\ i + 1 # 1
  BY <1>1
<1>4. Elems(s) \subseteq {h} \cup Elems(t)
  <2>1. ASSUME NEW i \in 1..Len(s), i # 1 PROVE s[i] = t[i - 1] /\ i - 1 \in 1..Len(t)
    BY <1>1, <1>2, <2>1
  <2>2. QED BY <1>1, <2>1 DEF Elems
<1>5. {h} \cup Elems(t) \subseteq Elems(s)
  BY <1>1, <1>3 DEF Elems
<1>6. Distinct(s) => Distinct(t) /\ h \notin Elems(t)
  <2> SUFFICES ASSUME Distinct(s) PROVE Distinct(t) /\ h \notin Elems(t)
    OBVIOUS
  <2>1. ASSUME NEW i \in 1..Len(t), NEW j \in 1..Len(t), t[i] = t[j] PROVE i = j
    <3>1. s[i + 1] = s[j + 1]
      BY <1>1, <2>1
    <3>2. i + 1 = j + 1
      BY <1>3, <3>1 DEF Distinct
    <3>3. QED BY <3>2
  <2>2. ASSUME NEW i \in 1..Len(t), t[i] = h PROVE FALSE
    <3>1. s[i + 1] = s[1] /\ 1 \in 1..Len(s)
      BY <1>1, <2>2
    <3>2. QED BY <1>3, <3>1 DEF Distinct
  <2>3. QED BY <2>1, <2>2 DEF Distinct, Elems
<1>7. QED BY <1>4, <1>5, <1>6 DEF t, h

LEMMA ElemsOfEmpty == Elems(<< >>) = {} /\ Distinct(<< >>)
BY DEF Elems, Distinct

\* Unsent by the places it is made of.
LEMMA UnsentParts ==
    Unsent = Elems(queue) \cup InHand \cup Elems(batch) \cup Remaining
BY DEF Unsent, Elems, InHand, Remaining

LEMMA RemainingParts ==
    ASSUME TypeOK
    PROVE  /\ sent = 0 => Remaining = Elems(sending)
           /\ sent = Len(sending) => Remaining = {}
BY DEF TypeOK, Remaining, Elems

\* The update being broadcast leaves what remains, and is not left behind in it.
LEMMA BroadcastParts ==
    ASSUME Shape, Distinct(sending), Broadcast
    PROVE  /\ Remaining = Remaining' \cup {sending[sent + 1]}
           /\ sending[sent + 1] \notin Remaining'
<1>1. /\ sent \in Nat /\ Len(sending) \in Nat /\ sent < Len(sending)
      /\ sent' = sent + 1 /\ sending' = sending
  BY DEF Shape, TypeOK, LoopShape, Broadcast
<1>2. sent + 1..Len(sending) = (sent' + 1..Len(sending)) \cup {sent + 1}
  BY <1>1
<1>3. Remaining = Remaining' \cup {sending[sent + 1]}
  BY <1>1, <1>2 DEF Remaining
<1>4. ASSUME NEW i \in sent' + 1..Len(sending) PROVE sending[i] # sending[sent + 1]
  BY <1>1, <1>4 DEF Distinct
<1>5. QED BY <1>1, <1>3, <1>4 DEF Remaining

-----------------------------------------------------------------------------
(* The places and the mapping, step by step.                               *)

\* A step that moves no update between pending, handed and refused.
Stays == UNCHANGED <<Unsent, handed, refused, loop # "stopped">>

LEMMA InitPlaces == Init => Places /\ Outbox!Init
<1> SUFFICES ASSUME Init PROVE Places /\ Outbox!Init
  OBVIOUS
<1>1. /\ Elems(queue) = {} /\ Elems(batch) = {} /\ Elems(handed) = {} /\ InHand = {}
      /\ Remaining = {} /\ Distinct(queue) /\ Distinct(batch) /\ Distinct(sending)
  BY ElemsOfEmpty DEF Init, InHand, Remaining
<1>2. Unsent = {}
  BY <1>1, UnsentParts
<1>3. Deciding = {}
  BY DEF Init, Deciding, Idle
<1>4. NoCopies /\ OnePlace
  BY <1>1, <1>2, <1>3 DEF Init, NoCopies, OnePlace
<1>5. Outbox!Init
  BY <1>2 DEF Init, Outbox!Init
<1>6. QED BY <1>4, <1>5, InitShape DEF Places

LEMMA EnqueuePlaces ==
    ASSUME Places, Shape', NEW c \in Callers, Enqueue(c)
    PROVE  Places' /\ [Outbox!Next]_(Outbox!outboxVars)
<1> USE DEF Places
<1>0. /\ UNCHANGED <<loop, inHand, batch, sending, sent, handed>>
      /\ call \in [Callers -> [at : CallStates, update : Updates \cup {NoUpdate}, limit : 0..MaxQueueSize]]
      /\ queue \in Seq(Updates) /\ issued \in Nat
  <2>1. UNCHANGED <<loop, inHand, batch, sending, sent, handed>>
    <3>1. UNCHANGED loopVars
      BY DEF Enqueue, BeginEnqueue, Admit, Drop, Send, EndEnqueue
    <3> QED
      BY <3>1 DEF loopVars
  <2>2. TypeOK
    BY DEF Shape
  <2> QED
    BY <2>1, <2>2 DEF TypeOK
<1>1. UNCHANGED <<InHand, Remaining, Elems(batch), Elems(handed), Distinct(batch), Distinct(sending)>>
  BY <1>0 DEF InHand, Remaining
<1>2. ASSUME UNCHANGED <<queue, refused, issued>>
      PROVE  NoCopies' /\ Stays
  BY <1>0, <1>1, <1>2, UnsentParts DEF NoCopies, Stays, Unsent
<1>3. CASE BeginEnqueue(c)
  <2>1. UNCHANGED <<queue, refused>> /\ issued' = issued + 1
    BY <1>3 DEF BeginEnqueue
  <2>2. NoCopies' /\ Unsent' = Unsent /\ Stays
    BY <1>0, <1>1, <2>1, UnsentParts DEF NoCopies, Stays, Unsent
  <2>3. call'[c].update = issued + 1 /\ \A d \in Callers \ {c} : call'[d] = call[d]
    BY <1>0, <1>3 DEF BeginEnqueue
  <2>4. Deciding' \subseteq Deciding \cup {c}
    BY <2>3 DEF Deciding
  <2>5. issued + 1 \notin Unsent \cup Elems(handed)
    BY <1>0 DEF OnePlace
  <2>6. Unsent \cup Elems(handed) \subseteq 1..issued'
    BY <1>0, <2>1 DEF OnePlace
  <2>7. \A d \in Deciding' : call'[d].update \notin Unsent \cup Elems(handed)
    BY <2>3, <2>4, <2>5 DEF OnePlace, Deciding
  <2>8. OnePlace'
    BY <1>1, <2>1, <2>2, <2>6, <2>7 DEF OnePlace
  <2>9. QED BY <2>2, <2>8 DEF Stays, Outbox!outboxVars
<1>4. CASE Admit(c)
  <2>1. UNCHANGED <<queue, refused, issued>> /\ Deciding' = Deciding
        /\ \A d \in Callers : call'[d].update = call[d].update
    BY <1>0, <1>4 DEF Admit, Deciding
  <2>2. OnePlace'
    BY <1>1, <1>2, <2>1 DEF OnePlace, Stays, Deciding
  <2>3. QED BY <1>2, <2>1, <2>2 DEF Stays, Outbox!outboxVars
<1>5. CASE EndEnqueue(c)
  <2>1. /\ UNCHANGED <<queue, refused, issued>> /\ Deciding' \subseteq Deciding
        /\ \A d \in Deciding' : call'[d].update = call[d].update
    BY <1>0, <1>5 DEF EndEnqueue, Deciding, Idle
  <2>2. OnePlace'
    BY <1>1, <1>2, <2>1 DEF OnePlace, Stays
  <2>3. QED BY <1>2, <2>1, <2>2 DEF Stays, Outbox!outboxVars
<1>6. CASE Drop(c)
  <2> DEFINE u == call[c].update
  <2>1. c \in Deciding /\ u \in 1..issued /\ u \in Updates /\ u \notin refused
    BY <1>0, <1>6 DEF Drop, Deciding, Shape, CallShape, TypeOK, Updates
  <2>2. /\ UNCHANGED <<queue, issued>> /\ refused' = refused \cup {u}
        /\ Deciding' = Deciding \ {c}
        /\ \A d \in Deciding' : call'[d] = call[d]
    BY <1>0, <1>6 DEF Drop, Deciding
  <2>3. NoCopies' /\ Unsent' = Unsent
    BY <1>0, <1>1, <2>2, UnsentParts DEF NoCopies, Unsent
  <2>4. u \notin Unsent \cup Elems(handed)
    BY <2>1 DEF OnePlace
  <2>5. OnePlace'
    BY <1>1, <2>2, <2>3, <2>4 DEF OnePlace
  <2>6. ~Outbox!Known(u)
    BY <2>1, <2>4 DEF Outbox!Known, Elems
  <2>7. Outbox!Refuse(u)
    BY <1>0, <2>2, <2>3, <2>6 DEF Outbox!Refuse
  <2>8. QED BY <2>1, <2>3, <2>5, <2>7 DEF Outbox!Next
<1>7. CASE Send(c)
  <2> DEFINE u == call[c].update
  <2>1. c \in Deciding /\ u \in 1..issued /\ u \in Updates /\ u \notin refused
    BY <1>0, <1>7 DEF Send, Deciding, Shape, CallShape, TypeOK, Updates
  <2>2. /\ UNCHANGED <<refused, issued>> /\ queue' = Append(queue, u)
        /\ Deciding' = Deciding \ {c}
        /\ \A d \in Deciding' : call'[d] = call[d]
    BY <1>0, <1>7 DEF Send, Deciding
  <2>3. u \notin Unsent \cup Elems(handed)
    BY <2>1 DEF OnePlace
  <2>4. Elems(queue)' = Elems(queue) \cup {u} /\ (Distinct(queue) /\ u \notin Elems(queue) => Distinct(queue)')
    BY <1>0, <2>1, <2>2, ElemsOfAppend
  <2>5. Unsent' = Unsent \cup {u}
    <3>1. Unsent' = Elems(queue)' \cup InHand' \cup Elems(batch)' \cup Remaining'
      BY <1>0, <2>2 DEF Unsent, Elems, InHand, Remaining
    <3>2. QED BY <1>1, <2>4, <3>1, UnsentParts
  <2>6. NoCopies'
    BY <1>1, <2>3, <2>4, UnsentParts DEF NoCopies
  <2>7. \A d \in Deciding' : call'[d].update # u
    BY <2>1, <2>2 DEF Shape, CallShape
  <2>8. OnePlace'
    BY <1>1, <2>1, <2>2, <2>3, <2>5, <2>7 DEF OnePlace
  <2>9. ~Outbox!Known(u)
    BY <2>1, <2>3 DEF Outbox!Known, Elems
  <2>10. Outbox!Accept(u)
    BY <1>0, <2>2, <2>5, <2>9 DEF Outbox!Accept
  <2>11. QED BY <2>1, <2>6, <2>8, <2>10 DEF Outbox!Next
<1>8. QED BY <1>3, <1>4, <1>5, <1>6, <1>7 DEF Enqueue

\* What a step of run() leaves alone: the callers and their updates.
LEMMA LoopLeaves ==
    ASSUME Places, Stays, NoCopies', Shape', UNCHANGED callVars
    PROVE  Places' /\ [Outbox!Next]_(Outbox!outboxVars)
<1>1. OnePlace'
  BY DEF Places, OnePlace, Stays, Deciding, callVars
<1>2. QED BY <1>1 DEF Places, Stays, Outbox!outboxVars

LEMMA FlushPlaces ==
    ASSUME Places, Shape', loop = "select", NEW m \in {"tick", "final"}, Flush(m)
    PROVE  Places' /\ [Outbox!Next]_(Outbox!outboxVars)
<1>1. Remaining = {} /\ sent = 0
  BY ElemsOfEmpty, RemainingParts DEF Places, Shape, LoopShape, TypeOK, Remaining
<1>2. /\ UNCHANGED <<queue, inHand, sent, handed, refused, callVars>>
      /\ sending' = batch /\ batch' = << >> /\ loop' = "broadcast"
  BY DEF Flush, callVars
<1>3. Remaining' = Elems(batch) /\ Elems(batch)' = {} /\ Distinct(batch)'
  BY <1>1, <1>2, ElemsOfEmpty DEF Places, Shape, TypeOK, Remaining, Elems
<1>4. NoCopies'
  BY <1>1, <1>2, <1>3 DEF Places, NoCopies, InHand
<1>5. Unsent' = Elems(queue)' \cup InHand' \cup Elems(batch)' \cup Remaining'
  BY DEF Unsent, Elems, InHand, Remaining
<1>6. Stays
  BY <1>1, <1>2, <1>3, <1>5, UnsentParts DEF Stays, InHand
<1>7. QED BY <1>2, <1>4, <1>6, LoopLeaves

LEMMA LoopPlaces ==
    ASSUME Places, Shape', Start \/ Receive \/ Tick \/ StopArm \/ Proceed
    PROVE  Places' /\ [Outbox!Next]_(Outbox!outboxVars)
<1> USE DEF Places
<1>0. /\ UNCHANGED callVars
      /\ queue \in Seq(Updates) /\ batch \in Seq(Updates) /\ sending \in Seq(Updates)
      /\ sent \in Nat /\ inHand \in Updates \cup {NoUpdate}
  BY DEF Shape, TypeOK, Start, Receive, Tick, StopArm, Flush, Proceed, ReadLimit, RouteFast,
         RouteBatch, Broadcast, Callback, Account, CountMode, callVars
<1>1. Unsent' = Elems(queue)' \cup InHand' \cup Elems(batch)' \cup Remaining'
  BY DEF Unsent, Elems, InHand, Remaining
<1>2. ASSUME UNCHANGED <<queue, inHand, batch, sending, sent, handed, refused>>,
             loop' # "stopped", loop # "stopped"
      PROVE  Places' /\ [Outbox!Next]_(Outbox!outboxVars)
  <2>1. NoCopies' /\ Stays
    BY <1>2 DEF NoCopies, InHand, Remaining, Stays, Unsent
  <2>2. QED BY <1>0, <2>1, LoopLeaves
<1>3. CASE Start \/ ReadLimit \/ Callback
  BY <1>2, <1>3 DEF Start, ArmTicker, ReadLimit, Callback, callVars
<1>4. CASE Receive
  <2>1. /\ queue # << >> /\ inHand' = Head(queue) /\ queue' = Tail(queue) /\ inHand = NoUpdate
        /\ UNCHANGED <<batch, sending, sent, handed, refused>> /\ loop = "select" /\ loop' = "limit"
    BY <1>4 DEF Receive, Shape, LoopShape, callVars
  <2>2. Head(queue) \in Updates
    BY <1>0, <2>1
  <2>3. InHand' = {Head(queue)} /\ InHand = {}
    BY <2>1, <2>2 DEF InHand, Updates, NoUpdate
  <2>4. /\ Elems(queue) = InHand' \cup Elems(queue)'
        /\ Distinct(queue)' /\ Elems(queue)' \cap InHand' = {}
    BY <1>0, <2>1, <2>3, ElemsOfTail DEF NoCopies
  <2>5. UNCHANGED <<Elems(batch), Remaining>>
    BY <2>1 DEF Remaining
  <2>6. NoCopies'
    BY <2>1, <2>3, <2>4, <2>5 DEF NoCopies
  <2>7. Stays
    BY <1>1, <2>1, <2>3, <2>4, <2>5, UnsentParts DEF Stays
  <2>8. QED BY <1>0, <2>6, <2>7, LoopLeaves
<1>5. CASE RouteFast
  <2>1. /\ sending' = <<inHand>> /\ inHand' = NoUpdate /\ inHand # NoUpdate
        /\ UNCHANGED <<queue, batch, sent, handed, refused>> /\ loop = "route" /\ loop' = "broadcast"
        /\ sending = << >> /\ sent = 0
    BY <1>5 DEF RouteFast, Shape, LoopShape, TypeOK, callVars
  <2>2. InHand = {inHand} /\ InHand' = {} /\ Remaining = {}
    BY <2>1 DEF InHand, Remaining
  <2>3. Remaining' = {inHand} /\ Distinct(sending)'
    BY <2>1 DEF Remaining, Distinct
  <2>4. NoCopies'
    BY <2>1, <2>2, <2>3 DEF NoCopies
  <2>5. Stays
    BY <1>1, <2>1, <2>2, <2>3, UnsentParts DEF Stays
  <2>6. QED BY <1>0, <2>4, <2>5, LoopLeaves
<1>6. CASE RouteBatch
  <2> DEFINE longer == Append(batch, inHand)
  <2>1. /\ inHand' = NoUpdate /\ inHand \in Updates
        /\ UNCHANGED <<queue, sent, handed, refused>> /\ loop = "route" /\ loop' # "stopped"
        /\ sending = << >> /\ sent = 0
        /\ \/ sending' = longer /\ batch' = << >>
           \/ sending' = sending /\ batch' = longer
    BY <1>0, <1>6 DEF RouteBatch, Shape, LoopShape, TypeOK, callVars
  <2>2. InHand = {inHand} /\ InHand' = {} /\ Remaining = {}
    BY <2>1 DEF InHand, Remaining, Updates, NoUpdate
  <2>3. inHand \notin Elems(batch) /\ Distinct(batch)
    BY <2>2 DEF NoCopies
  <2>4. Elems(longer) = Elems(batch) \cup {inHand} /\ Distinct(longer)
    BY <1>0, <2>1, <2>3, ElemsOfAppend
  <2>5. longer \in Seq(Updates)
    BY <1>0, <2>1
  <2> HIDE DEF longer
  <2>6. \/ Remaining' = Elems(longer) /\ Elems(batch)' = {} /\ Distinct(batch)' /\ Distinct(sending)'
        \/ Remaining' = {} /\ Elems(batch)' = Elems(longer) /\ Distinct(batch)' /\ Distinct(sending)'
    <3>1. CASE sending' = longer /\ batch' = << >>
      BY <2>1, <2>4, <2>5, <3>1, ElemsOfEmpty DEF Remaining, Elems
    <3>2. CASE sending' = sending /\ batch' = longer
      BY <2>1, <2>2, <2>4, <3>2 DEF Remaining, NoCopies
    <3>3. QED BY <2>1, <3>1, <3>2
  <2>7. NoCopies'
    BY <2>1, <2>2, <2>4, <2>6 DEF NoCopies
  <2>8. Stays
    BY <1>1, <2>1, <2>2, <2>4, <2>6, UnsentParts DEF Stays
  <2>9. QED BY <1>0, <2>7, <2>8, LoopLeaves
<1>7. CASE Tick
  <2>1. CASE Flush("tick")
    BY <1>7, <2>1, FlushPlaces DEF Tick
  <2>2. CASE ~Flush("tick")
    BY <1>2, <1>7, <2>2 DEF Tick, ArmTicker, callVars
  <2>3. QED BY <2>1, <2>2
<1>8. ASSUME UNCHANGED <<queue, inHand, batch, sending, sent, handed, refused>>,
             loop # "stopped", loop' = "stopped"
      PROVE  Places' /\ [Outbox!Next]_(Outbox!outboxVars)
  <2>1. NoCopies' /\ UNCHANGED <<Unsent, handed, refused>>
    BY <1>8 DEF NoCopies, InHand, Remaining, Unsent
  <2>2. OnePlace'
    BY <1>0, <2>1 DEF OnePlace, Deciding, callVars
  <2>3. Outbox!Close
    BY <1>8, <2>1 DEF Outbox!Close
  <2>4. QED BY <2>1, <2>2, <2>3 DEF Outbox!Next
<1>9. CASE StopArm
  <2>1. CASE Flush("final")
    BY <1>9, <2>1, FlushPlaces DEF StopArm
  <2>2. CASE ~Flush("final")
    BY <1>8, <1>9, <2>2 DEF StopArm, callVars
  <2>3. QED BY <2>1, <2>2
<1>10. CASE Broadcast
  <2> DEFINE u == sending[sent + 1]
  <2>1. /\ UNCHANGED <<queue, inHand, batch, sending, refused>> /\ handed' = Append(handed, u)
        /\ loop = "broadcast" /\ loop' # "stopped" /\ inHand = NoUpdate
    BY <1>10 DEF Broadcast, Shape, LoopShape, callVars
  <2>2. u \in Updates /\ handed \in Seq(Updates)
    BY <1>0, <1>10 DEF Broadcast, Shape, LoopShape, TypeOK
  <2>3. Remaining = Remaining' \cup {u} /\ u \notin Remaining'
    BY <1>10, BroadcastParts DEF NoCopies
  <2>4. Elems(handed)' = Elems(handed) \cup {u}
    BY <2>1, <2>2, ElemsOfAppend
  <2>5. InHand = {} /\ UNCHANGED <<Elems(queue), Elems(batch), InHand>>
    BY <2>1 DEF InHand
  <2>6. NoCopies'
    BY <2>1, <2>3, <2>5 DEF NoCopies
  <2>7. u \in Unsent /\ Unsent' = Unsent \ {u}
    BY <1>1, <2>3, <2>5, UnsentParts DEF NoCopies
  <2>8. OnePlace'
    <3>1. UNCHANGED <<call, issued, refused, Deciding>>
      BY <1>0 DEF callVars, Deciding
    <3>2. QED BY <2>4, <2>7, <3>1 DEF OnePlace
  <2>9. Outbox!Hand(u)
    BY <2>1, <2>7 DEF Outbox!Hand
  <2>10. QED BY <2>2, <2>6, <2>8, <2>9 DEF Outbox!Next
<1>11. CASE Account
  <2>1. /\ UNCHANGED <<queue, inHand, batch, handed, refused>> /\ sending' = << >> /\ sent' = 0
        /\ loop = "account" /\ loop' = "mode" /\ sent = Len(sending)
    BY <1>11 DEF Account, Shape, LoopShape, callVars
  <2>2. Remaining = {} /\ Remaining' = {} /\ Distinct(sending)'
    BY <2>1, ElemsOfEmpty, RemainingParts DEF Shape, Remaining
  <2>3. NoCopies'
    BY <2>1, <2>2 DEF NoCopies, InHand
  <2>4. Stays
    BY <1>1, <2>1, <2>2, UnsentParts DEF Stays, InHand
  <2>5. QED BY <1>0, <2>3, <2>4, LoopLeaves
<1>12. CASE CountMode
  <2>1. UNCHANGED <<queue, inHand, batch, sending, sent, handed, refused>> /\ loop # "stopped"
    BY <1>12 DEF CountMode, callVars
  <2>2. QED BY <1>2, <1>8, <2>1
<1>13. QED
  BY <1>3, <1>4, <1>5, <1>6, <1>7, <1>9, <1>10, <1>11, <1>12 DEF Proceed

\* Every reachable state keeps each update in one place: being decided, in the
\* pipeline, broadcast or refused (dispatcher.go:133-356).
THEOREM OneUpdateOnePlace == SafeSpec => []Places
<1>1. Places /\ Shape' /\ [Next]_vars => Places'
  <2> SUFFICES ASSUME Places, Shape', [Next]_vars PROVE Places'
    OBVIOUS
  <2>1. CASE UNCHANGED <<queue, callVars, loopVars>>
    BY <2>1 DEF Places, NoCopies, OnePlace, Unsent, InHand, Remaining, Deciding, callVars, loopVars
  <2>2. CASE \E c \in Callers : Enqueue(c)
    BY <2>2, EnqueuePlaces
  <2>3. CASE Start \/ Receive \/ Tick \/ StopArm \/ Proceed
    BY <2>3, LoopPlaces
  <2>4. QED
    BY <2>1, <2>2, <2>3 DEF Next, vars, SetConsistencyLevel, AddPeer, RemovePeer, Stop
<1>2. QED BY <1>1, InitPlaces, ShapeInvariant, PTL DEF SafeSpec

\* The dispatcher is an outbox: every step of Enqueue and of run() accepts,
\* refuses or hands over one update, closes the outbox, or changes nothing the
\* caller was promised (dispatcher.go:133-356).
THEOREM DispatcherIsAnOutbox == SafeSpec => Outbox!SafeSpec
<1>1. Places /\ Shape' /\ [Next]_vars => [Outbox!Next]_(Outbox!outboxVars)
  <2> SUFFICES ASSUME Places, Shape', [Next]_vars PROVE [Outbox!Next]_(Outbox!outboxVars)
    OBVIOUS
  <2>1. CASE UNCHANGED <<queue, callVars, loopVars>>
    BY <2>1 DEF Unsent, callVars, loopVars, Outbox!outboxVars
  <2>2. CASE \E c \in Callers : Enqueue(c)
    BY <2>2, EnqueuePlaces
  <2>3. CASE Start \/ Receive \/ Tick \/ StopArm \/ Proceed
    BY <2>3, LoopPlaces
  <2>4. QED
    BY <2>1, <2>2, <2>3 DEF Next, vars, SetConsistencyLevel, AddPeer, RemovePeer, Stop
<1>2. QED
  BY <1>1, InitPlaces, ShapeInvariant, OneUpdateOnePlace, PTL DEF SafeSpec, Outbox!SafeSpec
==============================================================================
