---------------------------- MODULE SDNController ----------------------------
(***************************************************************************)
(* simulation/mock-sdn: one controller node.  Goroutines of its HTTP API   *)
(* allocate and release servers and parts of a pool all nodes share; some  *)
(* allocations are given back by a goroutine that waits; a background task *)
(* synchronises every second.  All go through the server manager's         *)
(* read-write lock and the counters of the AC layer.                       *)
(*                                                                         *)
(* The AC layer is used as ACCluster describes it: Update moves this       *)
(* node's own part of a counter or is refused and leaves it as it was, and *)
(* an update of a peer is merged by maximum at any time.                   *)
(***************************************************************************)
EXTENDS Integers, FiniteSets, Functions, RWMutex

CONSTANTS
    Handlers,       \* goroutines that serve a request or wait to release
    Background,     \* the goroutine of runBackgroundTasks
    Servers,        \* sm.servers
    Global,         \* sm.globalStateKey
    Costs,          \* amounts asked for: positive, handleEmbed checks it
    Releases,       \* amounts /release is given: any, negative ones too
    Capacity,       \* sm.capacity, of one server
    BaseLoads,      \* background loads the simulator may come up with
    PeerAmounts,    \* amounts the peers' updates carry
    MaxRequests     \* bound: requests in one behaviour

Keys == Servers \cup {Global}
PoolCapacity == Capacity * Cardinality(Servers)

ASSUME ThreadsAssumption ==
    /\ IsFiniteSet(Handlers) /\ Handlers # {} /\ Background \notin Handlers
    /\ Threads = Handlers \cup {Background}
ASSUME ServersAssumption == IsFiniteSet(Servers) /\ Servers # {} /\ Global \notin Servers
ASSUME AmountsAssumption ==
    /\ IsFiniteSet(Costs) /\ Costs # {} /\ Costs \subseteq Nat \ {0}
    /\ IsFiniteSet(Releases) /\ Releases \subseteq Int
    /\ Capacity \in Nat /\ BaseLoads \subseteq Nat
    /\ PeerAmounts \subseteq Int /\ MaxRequests \in Nat

VARIABLES
    isRunning,      \* c.isRunning
    own,            \* this node's part of every counter: Incr minus Decr
    peer,           \* the peers' part, each half a maximum
    base,           \* BaseLoad of every server
    load,           \* CurrentLoad of every server
    thread,         \* where every goroutine is, and its locals
    leases,         \* how many allocations wait for their automatic release
    issued,         \* requests so far
    bypassed        \* history: what accepted releases of negative amounts took

vars == <<lockVars, isRunning, own, peer, base, load, thread, leases, issued, bypassed>>

Jobs == {"none", "embed", "list", "release", "global", "return", "sync"}
Points == {"idle", "rlock", "scan", "charge", "charged", "load", "status", "refund", "refunded",
           "unload", "wlock", "drain", "check", "take", "taken", "given", "stopped"}
Amounts == Costs \cup Releases
Locals == [at : Points, job : Jobs, server : Keys, cost : Amounts \cup {0},
           avail : Nat \cup {-1}, left : SUBSET Servers]
Idle == [at |-> "idle", job |-> "none", server |-> Global, cost |-> 0, avail |-> -1, left |-> {}]

Init ==
    /\ Unlocked
    /\ isRunning = TRUE
    /\ own = [k \in Keys |-> IF k = Global THEN PoolCapacity ELSE Capacity]
    /\ peer = [k \in Keys |-> [incr |-> 0, decr |-> 0]]
    /\ base = [s \in Servers |-> 0]
    /\ load = [s \in Servers |-> 0]
    /\ thread = [t \in Threads |-> Idle]
    /\ leases = [k \in Keys |-> [c \in Costs |-> 0]]
    /\ issued = 0
    /\ bypassed = [s \in Servers |-> 0]

Get(k) == own[k] + peer[k].incr - peer[k].decr

At(t, point) == thread[t].at = point
Goto(t, point) == thread' = [thread EXCEPT ![t] = [@ EXCEPT !.at = point]]
Done(t) == thread' = [thread EXCEPT ![t] = Idle]

\* A request for job j enters at the given point.
Begin(t, j, s, c, point) ==
    thread' = [thread EXCEPT ![t] = [Idle EXCEPT !.at = point, !.job = j, !.server = s, !.cost = c]]

NewRequest(t) ==
    /\ t \in Handlers /\ At(t, "idle")
    /\ issued < MaxRequests
    /\ issued' = issued + 1
    /\ UNCHANGED <<lockVars, isRunning, own, peer, base, load, leases, bypassed>>

\* Requests that change something first look at isRunning.
BeginEmbed(t, c) == isRunning /\ NewRequest(t) /\ Begin(t, "embed", Global, c, "rlock")
BeginGlobal(t, c) == isRunning /\ NewRequest(t) /\ Begin(t, "global", Global, c, "wlock")

\* handleRelease checks the amount against nothing: a negative one takes from the
\* server instead, whatever is left of it.
BeginRelease(t, s, c) == isRunning /\ NewRequest(t) /\ Begin(t, "release", s, c, "refund")

\* GetAllServersStatus does not look.  GetBestLink does, and is covered by it.
BeginList(t) == NewRequest(t) /\ Begin(t, "list", Global, 0, "rlock")

\* The end of req.Duration.  A controller that has stopped only logs an error.
Expire(t, k, c) ==
    /\ t \in Handlers /\ At(t, "idle")
    /\ leases[k][c] > 0
    /\ leases' = [leases EXCEPT ![k][c] = @ - 1]
    /\ IF ~isRunning THEN UNCHANGED thread
       ELSE IF k = Global THEN Begin(t, "return", Global, c, "wlock")
       ELSE Begin(t, "release", k, c, "refund")
    /\ UNCHANGED <<lockVars, isRunning, own, peer, base, load, issued, bypassed>>

-----------------------------------------------------------------------------
(* SelectBestServer and GetAllServersStatus: one read lock around the loop *)
(* over the servers, and another for each server inside it.                *)

LockForScan(t) ==
    /\ At(t, "rlock")
    /\ RLock(t)
    /\ thread' = [thread EXCEPT ![t] = [@ EXCEPT !.at = "scan", !.left = Servers]]
    /\ UNCHANGED <<isRunning, own, peer, base, load, leases, issued, bypassed>>

Available(s) == IF Get(s) - base[s] < 0 THEN 0 ELSE Get(s) - base[s]

\* What the loop knows after it has looked at s.
Looked(t, s) ==
    IF Available(s) > thread[t].avail
    THEN [thread[t] EXCEPT !.left = @ \ {s}, !.server = s, !.avail = Available(s)]
    ELSE [thread[t] EXCEPT !.left = @ \ {s}]

\* One turn of the loop, in the random order of a Go map.
Peek(t, s) ==
    /\ At(t, "scan") /\ s \in thread[t].left
    /\ MayRead
    /\ thread' = [thread EXCEPT ![t] = Looked(t, s)]
    /\ UNCHANGED <<lockVars, isRunning, own, peer, base, load, leases, issued, bypassed>>

\* Wrong variant: what is available is not compared with the cost.
EndScanUnchecked(t) ==
    /\ At(t, "scan") /\ thread[t].left = {}
    /\ RUnlock(t)
    /\ IF thread[t].job = "embed" THEN Goto(t, "charge") ELSE Done(t)
    /\ UNCHANGED <<isRunning, own, peer, base, load, leases, issued, bypassed>>

\* AllocateServer compares what was available with the cost after the unlock.
EndScan(t) ==
    /\ At(t, "scan") /\ thread[t].left = {}
    /\ RUnlock(t)
    /\ IF thread[t].job = "embed" /\ thread[t].avail >= thread[t].cost
       THEN Goto(t, "charge")
       ELSE Done(t)
    /\ UNCHANGED <<isRunning, own, peer, base, load, leases, issued, bypassed>>

-----------------------------------------------------------------------------
(* The rest of AllocateServer and of handleEmbed, and ReleaseServer.       *)

\* Manager.Update in two steps: this node's part moves, where every reader sees
\* it; then Enqueue accepts the update, or it fails and the part moves back.
Moved(k, amount) == own' = [own EXCEPT ![k] = @ + amount]

Charge(t) ==
    /\ At(t, "charge")
    /\ Moved(thread[t].server, -thread[t].cost)
    /\ Goto(t, "charged")
    /\ UNCHANGED <<lockVars, isRunning, peer, base, load, leases, issued, bypassed>>

\* A refusal fails the request.
EndCharge(t) ==
    /\ At(t, "charged")
    /\ \/ UNCHANGED own /\ Goto(t, "load")
       \/ Moved(thread[t].server, thread[t].cost) /\ Done(t)
    /\ UNCHANGED <<lockVars, isRunning, peer, base, load, leases, issued, bypassed>>

\* With a duration a goroutine is left behind that will release.
MaybeLease(t) ==
    \/ leases' = [leases EXCEPT ![thread[t].server][thread[t].cost] = @ + 1]
    \/ UNCHANGED leases

AddLoad(t) ==
    /\ At(t, "load")
    /\ load' = [load EXCEPT ![thread[t].server] = @ + thread[t].cost]
    /\ MaybeLease(t)
    /\ Goto(t, "status")
    /\ UNCHANGED <<lockVars, isRunning, own, peer, base, issued, bypassed>>

\* GetServerStatus for the response: a read lock taken and given back.
Respond(t) ==
    /\ At(t, "status")
    /\ MayRead
    /\ Done(t)
    /\ UNCHANGED <<lockVars, isRunning, own, peer, base, load, leases, issued, bypassed>>

Refund(t) ==
    /\ At(t, "refund")
    /\ Moved(thread[t].server, thread[t].cost)
    /\ Goto(t, "refunded")
    /\ UNCHANGED <<lockVars, isRunning, peer, base, load, leases, issued, bypassed>>

\* What t's release takes instead of giving.
Unasked(t) == IF thread[t].cost < 0 THEN -thread[t].cost ELSE 0
Remember(t) == bypassed' = [bypassed EXCEPT ![thread[t].server] = @ + Unasked(t)]

\* Wrong variant: the simulator is told although the update was refused.
EndRefundRegardless(t) ==
    /\ At(t, "refunded")
    /\ UNCHANGED own \/ Moved(thread[t].server, -thread[t].cost)
    /\ Remember(t)
    /\ Goto(t, "unload")
    /\ UNCHANGED <<lockVars, isRunning, peer, base, load, leases, issued>>

EndRefund(t) ==
    /\ At(t, "refunded")
    /\ \/ UNCHANGED own /\ Remember(t) /\ Goto(t, "unload")
       \/ Moved(thread[t].server, -thread[t].cost) /\ UNCHANGED bypassed /\ Done(t)
    /\ UNCHANGED <<lockVars, isRunning, peer, base, load, leases, issued>>

\* Wrong variant: the load is not kept from going below zero.
UnloadBelowZero(t) ==
    /\ At(t, "unload")
    /\ load' = [load EXCEPT ![thread[t].server] = @ - thread[t].cost]
    /\ Done(t)
    /\ UNCHANGED <<lockVars, isRunning, own, peer, base, leases, issued, bypassed>>

Unload(t) ==
    /\ At(t, "unload")
    /\ load' = [load EXCEPT ![thread[t].server] = IF @ < thread[t].cost THEN 0 ELSE @ - thread[t].cost]
    /\ Done(t)
    /\ UNCHANGED <<lockVars, isRunning, own, peer, base, leases, issued, bypassed>>

-----------------------------------------------------------------------------
(* The shared pool and SyncFromAC, under the write lock.                   *)

AskToWrite(t) ==
    /\ At(t, "wlock")
    /\ Announce(t)
    /\ Goto(t, "drain")
    /\ UNCHANGED <<isRunning, own, peer, base, load, leases, issued, bypassed>>

StartToWrite(t) ==
    /\ At(t, "drain")
    /\ MayWrite(t)
    /\ Goto(t, "check")
    /\ UNCHANGED <<lockVars, isRunning, own, peer, base, load, leases, issued, bypassed>>

\* Wrong variant: any amount is let through.
CheckPoolNever(t) ==
    /\ At(t, "check") /\ thread[t].job = "global"
    /\ UNCHANGED lockVars /\ Goto(t, "take")
    /\ UNCHANGED <<isRunning, own, peer, base, load, leases, issued, bypassed>>

\* Get, and whether it is enough.
CheckPool(t) ==
    /\ At(t, "check") /\ thread[t].job = "global"
    /\ IF Get(Global) < thread[t].cost
       THEN Unlock(t) /\ Done(t)
       ELSE UNCHANGED lockVars /\ Goto(t, "take")
    /\ UNCHANGED <<isRunning, own, peer, base, load, leases, issued, bypassed>>

Take(t) ==
    /\ At(t, "take")
    /\ Moved(Global, -thread[t].cost)
    /\ Goto(t, "taken")
    /\ UNCHANGED <<lockVars, isRunning, peer, base, load, leases, issued, bypassed>>

\* Wrong variant: a refused allocation is returned all the same.
EndTakeAndLease(t) ==
    /\ At(t, "taken")
    /\ UNCHANGED own \/ Moved(Global, thread[t].cost)
    /\ MaybeLease(t)
    /\ Unlock(t)
    /\ Done(t)
    /\ UNCHANGED <<isRunning, peer, base, load, issued, bypassed>>

EndTake(t) ==
    /\ At(t, "taken")
    /\ \/ UNCHANGED own /\ MaybeLease(t)
       \/ Moved(Global, thread[t].cost) /\ UNCHANGED leases
    /\ Unlock(t)
    /\ Done(t)
    /\ UNCHANGED <<isRunning, peer, base, load, issued, bypassed>>

\* ReleaseGlobalResources: a refused update loses the amount for good.
GiveBack(t) ==
    /\ At(t, "check") /\ thread[t].job = "return"
    /\ Moved(Global, thread[t].cost)
    /\ Goto(t, "given")
    /\ UNCHANGED <<lockVars, isRunning, peer, base, load, leases, issued, bypassed>>

EndGiveBack(t) ==
    /\ At(t, "given")
    /\ UNCHANGED own \/ Moved(Global, -thread[t].cost)
    /\ Unlock(t)
    /\ Done(t)
    /\ UNCHANGED <<isRunning, peer, base, load, leases, issued, bypassed>>

\* SyncFromAC changes nothing, but it takes the write lock to do so.
BeginSync ==
    /\ At(Background, "idle")
    /\ Begin(Background, "sync", Global, 0, "wlock")
    /\ UNCHANGED <<lockVars, isRunning, own, peer, base, load, leases, issued, bypassed>>

EndSync ==
    /\ At(Background, "check")
    /\ Unlock(Background)
    /\ Done(Background)
    /\ UNCHANGED <<isRunning, own, peer, base, load, leases, issued, bypassed>>

-----------------------------------------------------------------------------
(* The rest of the system.                                                 *)

Stop ==
    /\ isRunning
    /\ isRunning' = FALSE
    /\ UNCHANGED <<lockVars, own, peer, base, load, thread, leases, issued, bypassed>>

\* runBackgroundTasks sees the closed stopChan.
StopBackground ==
    /\ ~isRunning /\ At(Background, "idle")
    /\ Goto(Background, "stopped")
    /\ UNCHANGED <<lockVars, isRunning, own, peer, base, load, leases, issued, bypassed>>

Larger(x, y) == IF x < y THEN y ELSE x

\* HandleRemoteUpdate, which takes no lock of the controller.
RemoteUpdate(k, amount) ==
    /\ peer' = IF amount >= 0
               THEN [peer EXCEPT ![k].incr = Larger(@, amount)]
               ELSE [peer EXCEPT ![k].decr = Larger(@, -amount)]
    /\ UNCHANGED <<lockVars, isRunning, own, base, load, thread, leases, issued, bypassed>>

\* The simulator's tick: the background load of all servers moves at random.
UpdateAllLinks ==
    /\ base' \in [Servers -> BaseLoads]
    /\ UNCHANGED <<lockVars, isRunning, own, peer, load, thread, leases, issued, bypassed>>

Requests(t) ==
    \/ \E c \in Costs : BeginEmbed(t, c) \/ BeginGlobal(t, c)
    \/ BeginList(t)
    \/ \E s \in Servers, c \in Releases : BeginRelease(t, s, c)

Scanning(t) == LockForScan(t) \/ (\E s \in Servers : Peek(t, s)) \/ EndScan(t)
Serving(t) ==
    \/ Charge(t) \/ EndCharge(t) \/ AddLoad(t) \/ Respond(t)
    \/ Refund(t) \/ EndRefund(t) \/ Unload(t)
Writing(t) ==
    \/ AskToWrite(t) \/ StartToWrite(t)
    \/ CheckPool(t) \/ Take(t) \/ EndTake(t)
    \/ GiveBack(t) \/ EndGiveBack(t)

Next ==
    \/ \E t \in Handlers : Requests(t)
    \/ \E t \in Handlers, k \in Keys, c \in Costs : Expire(t, k, c)
    \/ \E t \in Threads : Scanning(t) \/ Serving(t) \/ Writing(t)
    \/ BeginSync \/ EndSync
    \/ Stop \/ StopBackground
    \/ \E k \in Keys, amount \in PeerAmounts : RemoteUpdate(k, amount)
    \/ UpdateAllLinks

\* Goroutines are scheduled, and Go's lock starves neither readers nor
\* writers.  Requests, expiries, peers and Stop owe nothing.
Fairness ==
    \A t \in Threads :
        /\ SF_vars(LockForScan(t)) /\ SF_vars(\E s \in Servers : Peek(t, s))
        /\ SF_vars(Respond(t)) /\ SF_vars(AskToWrite(t))
        /\ WF_vars(EndScan(t)) /\ WF_vars(Charge(t)) /\ WF_vars(EndCharge(t))
        /\ WF_vars(AddLoad(t)) /\ WF_vars(Unload(t))
        /\ WF_vars(Refund(t)) /\ WF_vars(EndRefund(t))
        /\ WF_vars(StartToWrite(t)) /\ WF_vars(CheckPool(t))
        /\ WF_vars(Take(t)) /\ WF_vars(EndTake(t))
        /\ WF_vars(GiveBack(t)) /\ WF_vars(EndGiveBack(t)) /\ WF_vars(EndSync)

SafeSpec == Init /\ [][Next]_vars
Spec == SafeSpec /\ Fairness

-----------------------------------------------------------------------------
(* Properties.                                                             *)

TypeOK ==
    /\ LockTypeOK
    /\ isRunning \in BOOLEAN
    /\ own \in [Keys -> Int]
    /\ peer \in [Keys -> [incr : Nat, decr : Nat]]
    /\ base \in [Servers -> Nat]
    /\ load \in [Servers -> Nat]
    /\ thread \in [Threads -> Locals]
    /\ leases \in [Keys -> [Costs -> Nat]]
    /\ issued \in 0..MaxRequests
    /\ bypassed \in [Servers -> Nat]

\* AllocateGlobalResources checks and takes under one lock, so the node never
\* gives away more of the pool than it and its peers have put into it, although
\* the peers' updates change the counter between the check and the update.
PoolNotOversold == own[Global] + peer[Global].incr >= 0

Leased(k) == SumFunction([c \in Costs |-> c * leases[k][c]])
WorkingAt(point, k) ==
    SumFunction([t \in Threads |-> IF At(t, point) /\ thread[t].server = k THEN thread[t].cost ELSE 0])

\* What is on its way back to the pool and has not reached it.
Returning ==
    SumFunction([t \in Threads |->
        IF thread[t].job = "return" /\ ~At(t, "given") THEN thread[t].cost ELSE 0])

\* What is returned to the pool was taken from it and is returned once: its
\* own part never exceeds the capacity, even with all that is yet to expire.
PoolWithinCapacity == own[Global] + Leased(Global) + Returning <= PoolCapacity

LargestAmount == CHOOSE c \in Amounts : \A d \in Amounts : d <= c

\* The same of the releases under way.
Bypassing(s) ==
    SumFunction([t \in Handlers |->
        IF At(t, "refunded") /\ thread[t].server = s THEN Unasked(t) ELSE 0])

\* AllocateServer checks and takes in two steps, so requests can together take
\* more than a server has; and what a check saw may be a release that is refused
\* and taken back.  But each request is checked once, so the server is short by
\* at most one amount per other handler, and by what was taken from it by
\* releases of negative amounts, which are compared with nothing.
ServerOvershootBound ==
    \A s \in Servers :
        own[s] + peer[s].incr + bypassed[s] + Bypassing(s)
            + (Cardinality(Handlers) - 1) * LargestAmount >= 0

\* The simulator never shows less load on a server than the node has taken from
\* its counter, up to requests that are between the two; releases that are
\* refused, negative or larger than the load included.
LoadCoversAllocations ==
    \A s \in Servers :
        Capacity - own[s] <= load[s] + WorkingAt("charged", s) + WorkingAt("load", s)
                             - WorkingAt("refunded", s) - WorkingAt("unload", s)

\* README.md:145, "concurrency safe: supports highly concurrent reads and
\* writes": a request that was begun is answered.
RequestsAnswered == \A t \in Handlers : ~At(t, "idle") ~> At(t, "idle")
=============================================================================
