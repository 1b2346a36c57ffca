----------------------------- MODULE Dispatcher -----------------------------
(***************************************************************************)
(* dispatcher/dispatcher.go: goroutines that call Enqueue, the bounded     *)
(* channel, the single dispatch loop run() with its private batch, the     *)
(* broadcast to the registered clients, the level OCA and remote peers     *)
(* change, the statistics, and Stop.                                       *)
(*                                                                         *)
(* One action is one stretch of code between two points where another      *)
(* goroutine may run: a mutex section, a channel operation, a len(queue).  *)
(* The level is read, the length is read and the channel is written in     *)
(* three separate steps, as in the code.  The k-th call of Enqueue submits *)
(* update k; its key and delta do not matter here (ACCluster has them).    *)
(***************************************************************************)
EXTENDS Integers, Sequences, FiniteSets

CONSTANTS
    Callers,        \* goroutines that call Enqueue
    Peers,          \* addresses AddPeer may register
    QueueCap,       \* cap(queue): 1000 in the code
    MaxQueueSize,   \* largest QueueSize of any level
    Levels,         \* consistency levels SetConsistencyLevel is called with
    InitialCL,      \* the level the manager configures before Start
    MaxUpdates      \* bound: calls of Enqueue in one behaviour

NoUpdate == 0

ASSUME CallersAssumption == IsFiniteSet(Callers) /\ Callers # {}
ASSUME BoundsAssumption ==
    QueueCap \in Nat \ {0} /\ MaxQueueSize \in Nat \ {0} /\ MaxUpdates \in Nat
ASSUME LevelsAssumption ==
    /\ Levels \subseteq [QueueSize : 0..MaxQueueSize, Timeout : Nat]
    /\ InitialCL \in Levels

VARIABLES
    currentCL,      \* d.currentCL
    queue,          \* d.queue, a buffered channel
    clients,        \* keys of d.grpcClients
    stopping,       \* d.stopChan is closed
    stats,          \* d.stats
    ops,            \* the manager's statistics, kept by onUpdateProcessed
    call,           \* where each caller is inside Enqueue, and its locals
    issued,         \* calls of Enqueue begun so far
    loop,           \* where run() is
    inHand,         \* request: the update run() took from the queue
    limit,          \* queueSizeLimit
    batch,          \* batch
    sending,        \* the argument of sendSingle or sendBatch
    sent,           \* how many of them were broadcast
    successes,      \* successCount
    told,           \* how many of them the callback has been told of
    mode,           \* which branch of run() is sending
    handed,         \* history: the updates broadcast, in order
    refused         \* history: the updates Enqueue dropped

callVars == <<call, issued, refused>>
loopVars == <<loop, inHand, limit, batch, sending, sent, successes, told, mode, handed>>
vars == <<currentCL, queue, clients, stopping, stats, ops, callVars, loopVars>>

Updates == 1..MaxUpdates
CallStates == {"idle", "check", "send", "count", "drop"}
LoopStates == {"off", "select", "limit", "route", "broadcast", "callback",
               "account", "mode", "stopped", "panicked"}
Modes == {"none", "fast", "batch", "tick", "final"}
Counters == [TotalUpdates : Nat, SuccessfulSends : Nat, FailedSends : Nat,
             QueueFullDrops : Nat, BatchedSends : Nat, FastModeSends : Nat]
OpCounters == [TotalUpdates : Nat, SuccessfulOps : Nat, FailedOps : Nat]
Idle == [at |-> "idle", update |-> NoUpdate, limit |-> 0]

Init ==
    /\ currentCL = InitialCL
    /\ queue = << >>
    /\ clients = {}
    /\ stopping = FALSE
    /\ stats = [TotalUpdates |-> 0, SuccessfulSends |-> 0, FailedSends |-> 0,
                QueueFullDrops |-> 0, BatchedSends |-> 0, FastModeSends |-> 0]
    /\ ops = [TotalUpdates |-> 0, SuccessfulOps |-> 0, FailedOps |-> 0]
    /\ call = [c \in Callers |-> Idle]
    /\ issued = 0
    /\ loop = "off"
    /\ inHand = NoUpdate
    /\ limit = 0
    /\ batch = << >>
    /\ sending = << >>
    /\ sent = 0
    /\ successes = 0
    /\ told = 0
    /\ mode = "none"
    /\ handed = << >>
    /\ refused = {}

-----------------------------------------------------------------------------
(* Enqueue, run by many goroutines at once.                                *)

\* The level is read under clMutex and used after the unlock.
BeginEnqueue(c) ==
    /\ call[c].at = "idle"
    /\ issued < MaxUpdates
    /\ issued' = issued + 1
    /\ call' = [call EXCEPT ![c] = [at |-> "check", update |-> issued + 1,
                                    limit |-> currentCL.QueueSize]]
    /\ UNCHANGED <<currentCL, queue, clients, stopping, stats, ops, refused, loopVars>>

\* Wrong variant: the length check off by one.
AdmitAtLimit(c) ==
    /\ call[c].at = "check"
    /\ Len(queue) <= call[c].limit
    /\ call' = [call EXCEPT ![c].at = "send"]
    /\ UNCHANGED <<currentCL, queue, clients, stopping, stats, ops, issued, refused, loopVars>>

Admit(c) ==
    /\ call[c].at = "check"
    /\ Len(queue) < call[c].limit
    /\ call' = [call EXCEPT ![c].at = "send"]
    /\ UNCHANGED <<currentCL, queue, clients, stopping, stats, ops, issued, refused, loopVars>>

\* The update is dropped: the level's bound is reached, or the channel is full.
Drop(c) ==
    /\ \/ call[c].at = "check" /\ Len(queue) >= call[c].limit
       \/ call[c].at = "send" /\ Len(queue) >= QueueCap
    /\ call' = [call EXCEPT ![c].at = "drop"]
    /\ refused' = refused \cup {call[c].update}
    /\ UNCHANGED <<currentCL, queue, clients, stopping, stats, ops, issued, loopVars>>

Send(c) ==
    /\ call[c].at = "send"
    /\ Len(queue) < QueueCap
    /\ queue' = Append(queue, call[c].update)
    /\ call' = [call EXCEPT ![c].at = "count"]
    /\ UNCHANGED <<currentCL, clients, stopping, stats, ops, issued, refused, loopVars>>

\* Wrong variant: a drop for want of room in the channel is not counted.
EndEnqueueUncounted(c) ==
    /\ \/ call[c].at = "count" /\ stats' = [stats EXCEPT !.TotalUpdates = @ + 1]
       \/ call[c].at = "drop" /\ UNCHANGED stats
    /\ call' = [call EXCEPT ![c] = Idle]
    /\ UNCHANGED <<currentCL, queue, clients, stopping, ops, issued, refused, loopVars>>

\* The counter moves after the update is already visible to run().
EndEnqueue(c) ==
    /\ \/ call[c].at = "count" /\ stats' = [stats EXCEPT !.TotalUpdates = @ + 1]
       \/ call[c].at = "drop" /\ stats' = [stats EXCEPT !.QueueFullDrops = @ + 1]
    /\ call' = [call EXCEPT ![c] = Idle]
    /\ UNCHANGED <<currentCL, queue, clients, stopping, ops, issued, refused, loopVars>>

-----------------------------------------------------------------------------
(* Operations of other components.                                         *)

SetConsistencyLevel(cl) ==
    /\ currentCL' = cl
    /\ UNCHANGED <<queue, clients, stopping, stats, ops, callVars, loopVars>>

\* clientMutex is held for a whole broadcastUpdate, which is one step below.
AddPeer(p) ==
    /\ clients' = clients \cup {p}
    /\ UNCHANGED <<currentCL, queue, stopping, stats, ops, callVars, loopVars>>

RemovePeer(p) ==
    /\ clients' = clients \ {p}
    /\ UNCHANGED <<currentCL, queue, stopping, stats, ops, callVars, loopVars>>

Stop ==
    /\ stopping' = TRUE
    /\ UNCHANGED <<currentCL, queue, clients, stats, ops, callVars, loopVars>>

-----------------------------------------------------------------------------
(* run().                                                                  *)

\* time.NewTicker and Ticker.Reset panic on a timeout that is not positive.
ArmTicker == loop' = IF currentCL.Timeout > 0 THEN "select" ELSE "panicked"

Start ==
    /\ loop = "off"
    /\ ArmTicker
    /\ UNCHANGED <<currentCL, queue, clients, stopping, stats, ops, callVars, inHand,
                   limit, batch, sending, sent, successes, told, mode, handed>>

\* select may take any arm that is ready, so a closed stopChan does not
\* prevent another Receive.
Receive ==
    /\ loop = "select"
    /\ queue # << >>
    /\ inHand' = Head(queue)
    /\ queue' = Tail(queue)
    /\ loop' = "limit"
    /\ UNCHANGED <<currentCL, clients, stopping, stats, ops, callVars,
                   limit, batch, sending, sent, successes, told, mode, handed>>

ReadLimit ==
    /\ loop = "limit"
    /\ limit' = currentCL.QueueSize
    /\ loop' = "route"
    /\ UNCHANGED <<currentCL, queue, clients, stopping, stats, ops, callVars,
                   inHand, batch, sending, sent, successes, told, mode, handed>>

\* Fast mode: the queue left behind is below the limit.  An earlier batch stays.
RouteFast ==
    /\ loop = "route"
    /\ Len(queue) < limit
    /\ sending' = <<inHand>>
    /\ inHand' = NoUpdate
    /\ mode' = "fast"
    /\ loop' = "broadcast"
    /\ UNCHANGED <<currentCL, queue, clients, stopping, stats, ops, callVars,
                   limit, batch, sent, successes, told, handed>>

\* Wrong variant: a full batch is not sent but kept for the ticker.
RouteBatchWithoutSend ==
    /\ loop = "route"
    /\ Len(queue) >= limit
    /\ batch' = Append(batch, inHand)
    /\ inHand' = NoUpdate
    /\ loop' = "select"
    /\ UNCHANGED <<currentCL, queue, clients, stopping, stats, ops, callVars,
                   limit, sending, sent, successes, told, mode, handed>>

RouteBatch ==
    /\ loop = "route"
    /\ Len(queue) >= limit
    /\ inHand' = NoUpdate
    /\ \/ /\ Len(batch) + 1 >= limit
          /\ sending' = Append(batch, inHand)
          /\ batch' = << >>
          /\ mode' = "batch"
          /\ loop' = "broadcast"
       \/ /\ Len(batch) + 1 < limit
          /\ batch' = Append(batch, inHand)
          /\ loop' = "select"
          /\ UNCHANGED <<sending, mode>>
    /\ UNCHANGED <<currentCL, queue, clients, stopping, stats, ops, callVars,
                   limit, sent, successes, told, handed>>

\* Wrong variant: the batch is not reset after it was sent.
FlushWithoutReset(m) ==
    /\ batch # << >>
    /\ sending' = batch
    /\ mode' = m
    /\ loop' = "broadcast"
    /\ UNCHANGED <<currentCL, queue, clients, stopping, stats, ops, callVars,
                   inHand, limit, batch, sent, successes, told, handed>>

Flush(m) ==
    /\ batch # << >>
    /\ sending' = batch
    /\ batch' = << >>
    /\ mode' = m
    /\ loop' = "broadcast"
    /\ UNCHANGED <<currentCL, queue, clients, stopping, stats, ops, callVars,
                   inHand, limit, sent, successes, told, handed>>

Tick ==
    /\ loop = "select"
    /\ \/ Flush("tick")
       \/ /\ batch = << >>
          /\ ArmTicker
          /\ UNCHANGED <<currentCL, queue, clients, stopping, stats, ops, callVars, inHand,
                         limit, batch, sending, sent, successes, told, mode, handed>>

\* Wrong variant: the stop arm returns at once.
StopArmWithoutFlush ==
    /\ loop = "select"
    /\ stopping
    /\ loop' = "stopped"
    /\ UNCHANGED <<currentCL, queue, clients, stopping, stats, ops, callVars, inHand,
                   limit, batch, sending, sent, successes, told, mode, handed>>

\* Wrong variant: the stop arm flushes the batch but does not return.
StopArmWithoutReturn == loop = "select" /\ stopping /\ Flush("tick")

\* Only the batch is flushed: what is still in the queue is abandoned.
StopArm ==
    /\ loop = "select"
    /\ stopping
    /\ \/ Flush("final")
       \/ /\ batch = << >>
          /\ loop' = "stopped"
          /\ UNCHANGED <<currentCL, queue, clients, stopping, stats, ops, callVars, inHand,
                         limit, batch, sending, sent, successes, told, mode, handed>>

\* broadcastUpdate succeeds when no registered client fails: with no client
\* at all it always does.
BroadcastOutcomes == IF clients = {} THEN {TRUE} ELSE BOOLEAN

Broadcast ==
    /\ loop = "broadcast"
    /\ \E ok \in BroadcastOutcomes : successes' = IF ok THEN successes + 1 ELSE successes
    /\ sent' = sent + 1
    /\ handed' = Append(handed, sending[sent + 1])
    /\ loop' = IF sent + 1 = Len(sending) THEN "callback" ELSE "broadcast"
    /\ UNCHANGED <<currentCL, queue, clients, stopping, stats, ops, callVars,
                   inHand, limit, batch, sending, told, mode>>

\* Wrong variant: the callback is told once of a whole batch.
CallbackOnce ==
    /\ loop = "callback"
    /\ \/ /\ successes > 0
          /\ ops' = [ops EXCEPT !.TotalUpdates = @ + 1, !.SuccessfulOps = @ + 1]
       \/ /\ successes = 0
          /\ ops' = [ops EXCEPT !.TotalUpdates = @ + 1, !.FailedOps = @ + 1]
    /\ told' = told + 1
    /\ loop' = "account"
    /\ UNCHANGED <<currentCL, queue, clients, stopping, stats, callVars,
                   inHand, limit, batch, sending, sent, successes, mode, handed>>

\* onUpdateProcessed, once for every update sent: each of a batch is reported
\* successful as soon as one of them is.
Callback ==
    /\ loop = "callback"
    /\ \/ /\ successes > 0
          /\ ops' = [ops EXCEPT !.TotalUpdates = @ + 1, !.SuccessfulOps = @ + 1]
       \/ /\ successes = 0
          /\ ops' = [ops EXCEPT !.TotalUpdates = @ + 1, !.FailedOps = @ + 1]
    /\ told' = told + 1
    /\ loop' = IF told + 1 = Len(sending) THEN "account" ELSE "callback"
    /\ UNCHANGED <<currentCL, queue, clients, stopping, stats, callVars,
                   inHand, limit, batch, sending, sent, successes, mode, handed>>

\* Wrong variant: the failures are subtracted the other way round.
AccountSwapped ==
    /\ loop = "account"
    /\ stats' = [stats EXCEPT !.SuccessfulSends = @ + successes,
                              !.FailedSends = @ + (successes - Len(sending))]
    /\ sending' = << >>
    /\ sent' = 0
    /\ successes' = 0
    /\ told' = 0
    /\ loop' = "mode"
    /\ UNCHANGED <<currentCL, queue, clients, stopping, ops, callVars,
                   inHand, limit, batch, mode, handed>>

Account ==
    /\ loop = "account"
    /\ stats' = [stats EXCEPT !.SuccessfulSends = @ + successes,
                              !.FailedSends = @ + (Len(sending) - successes)]
    /\ sending' = << >>
    /\ sent' = 0
    /\ successes' = 0
    /\ told' = 0
    /\ loop' = "mode"
    /\ UNCHANGED <<currentCL, queue, clients, stopping, ops, callVars,
                   inHand, limit, batch, mode, handed>>

\* The branch's own counter, and where run() goes on.
CountMode ==
    /\ loop = "mode"
    /\ \/ /\ mode = "fast"
          /\ stats' = [stats EXCEPT !.FastModeSends = @ + 1]
          /\ loop' = "select"
       \/ /\ mode = "batch"
          /\ stats' = [stats EXCEPT !.BatchedSends = @ + 1]
          /\ loop' = "select"
       \/ /\ mode = "tick"
          /\ stats' = [stats EXCEPT !.BatchedSends = @ + 1]
          /\ ArmTicker
       \/ /\ mode = "final"
          /\ loop' = "stopped"
          /\ UNCHANGED stats
    /\ mode' = "none"
    /\ UNCHANGED <<currentCL, queue, clients, stopping, ops, callVars,
                   inHand, limit, batch, sending, sent, successes, told, handed>>

-----------------------------------------------------------------------------
Enqueue(c) == BeginEnqueue(c) \/ Admit(c) \/ Drop(c) \/ Send(c) \/ EndEnqueue(c)

\* The steps run() takes outside its select.
Proceed == ReadLimit \/ RouteFast \/ RouteBatch \/ Broadcast \/ Callback \/ Account \/ CountMode

\* A panic in run() ends the process: nothing happens any more.
Next ==
    /\ loop # "panicked"
    /\ \/ \E c \in Callers : Enqueue(c)
       \/ \E cl \in Levels : SetConsistencyLevel(cl)
       \/ \E p \in Peers : AddPeer(p) \/ RemovePeer(p)
       \/ Stop
       \/ Start
       \/ Receive
       \/ Tick
       \/ StopArm
       \/ Proceed

\* The goroutine of run() is scheduled; a ready arm of its select is taken in
\* the end, since Go picks among the ready arms at random.  Callers, OCA and
\* Stop owe nothing.
Fairness ==
    /\ WF_vars(Start)
    /\ WF_vars(Proceed)
    /\ SF_vars(Receive)
    /\ SF_vars(Tick)
    /\ SF_vars(StopArm)

SafeSpec == Init /\ [][Next]_vars
Spec == SafeSpec /\ Fairness

-----------------------------------------------------------------------------
(* Properties.                                                             *)

TypeOK ==
    /\ currentCL \in Levels
    /\ queue \in Seq(Updates)
    /\ clients \subseteq Peers
    /\ stopping \in BOOLEAN
    /\ stats \in Counters
    /\ ops \in OpCounters
    /\ call \in [Callers -> [at : CallStates, update : Updates \cup {NoUpdate},
                             limit : 0..MaxQueueSize]]
    /\ issued \in 0..MaxUpdates
    /\ loop \in LoopStates
    /\ inHand \in Updates \cup {NoUpdate}
    /\ limit \in 0..MaxQueueSize
    /\ batch \in Seq(Updates)
    /\ sending \in Seq(Updates)
    /\ sent \in Nat
    /\ successes \in Nat
    /\ told \in Nat
    /\ mode \in Modes
    /\ handed \in Seq(Updates)
    /\ refused \subseteq Updates

At(s) == {c \in Callers : call[c].at = s}
Held == IF inHand = NoUpdate THEN 0 ELSE 1

\* The bound the queue really has.  Length check and channel write are separate
\* steps, so every caller but one may overshoot the level: the staleness bound
\* of Enqueue is the level plus the number of concurrent callers less one.
QueueBound ==
    /\ Len(queue) <= QueueCap
    /\ Len(queue) + Cardinality(At("send")) <= MaxQueueSize + Cardinality(Callers) - 1

\* The staleness the level really buys: besides the queue, run() may hold back
\* as many updates again in its batch, so up to twice the level and the
\* concurrent callers are accepted and unknown to every peer.
StalenessBound ==
    Len(queue) + Held + Len(batch) + (Len(sending) - sent)
        <= 2 * MaxQueueSize + Cardinality(Callers) - 1

\* Updates accepted and not yet accounted for.
InPipeline == Len(queue) + Held + Len(batch) + Len(sending)

\* The parts of the accounting: accepted updates, drops, and what the callback
\* told the manager.
AcceptedCounted ==
    stats.TotalUpdates + Cardinality(At("count"))
        = stats.SuccessfulSends + stats.FailedSends + InPipeline
DropsCounted == stats.QueueFullDrops + Cardinality(At("drop")) = Cardinality(refused)
OutcomesCounted ==
    /\ ops.SuccessfulOps + ops.FailedOps = ops.TotalUpdates
    /\ ops.TotalUpdates = stats.SuccessfulSends + stats.FailedSends + told
    /\ ops.SuccessfulOps >= stats.SuccessfulSends

\* Every accepted update is counted as sent or failed exactly once, whatever
\* branch of run() sent it and whichever of its batch failed, and every drop is
\* counted once; the counters lag only by the calls and the sends under way.
Accounting == AcceptedCounted /\ DropsCounted /\ OutcomesCounted

\* When run() has returned, every update it ever took from the queue has been
\* broadcast and counted: the only ones lost are those still in the queue.
\* (testPlan.md:1076 expects pending operations to be completed; those are not.)
StopLosesOnlyTheQueue ==
    loop = "stopped" =>
        /\ stats.TotalUpdates + Cardinality(At("count")) = Len(handed) + Len(queue)
        /\ stats.SuccessfulSends + stats.FailedSends = Len(handed)

\* The updates accepted and not yet broadcast.
Unsent == {queue[i] : i \in 1..Len(queue)} \cup ({inHand} \ {NoUpdate})
            \cup {batch[i] : i \in 1..Len(batch)}
            \cup {sending[i] : i \in sent + 1..Len(sending)}

Outbox == INSTANCE Outbox WITH pending <- Unsent, open <- (loop # "stopped")

\* The dispatcher is an outbox: an accepted update is broadcast at most once,
\* and at least once unless run() returns first.
ImplementsOutbox == Outbox!Spec

\* A Stop of a running dispatcher is not overtaken for ever by the ticker and
\* the queue: run() returns.
StopCompletes == stopping /\ loop # "off" ~> loop = "stopped"

=============================================================================
