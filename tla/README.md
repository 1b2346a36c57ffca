# Verification of the adaptive synchronisation layer

TLA+ models of `adaptive_sync_go`, the TLC configurations that check them and
TLAPS proofs about them. Paths and lines below are those of the repository.

## 1. The system

Every node of a cluster of SDN controllers runs a **manager** (`ac.go`). It keeps
one PN-counter per key, changes it at once when the application calls `Update`,
and tells the other nodes later. How much later is the *consistency level*: a
queue size and a timeout, which the node adapts to how much its own decisions
suffered from late updates.

| Component | State | Operations | Talks to |
|---|---|---|---|
| dispatcher (`dispatcher/dispatcher.go`) | channel `queue`, level `currentCL`, clients, `stopChan`, statistics; private to `run()`: batch, limit | `Enqueue`, `SetConsistencyLevel`, `AddPeer`, `RemovePeer`, `Start`, `Stop`, `run` with `sendSingle`, `sendBatch`, `broadcastUpdate` | called by the manager's callers, sends over gRPC, calls the manager back |
| counter store (`store/pn_counter.go`) | maps `Incr`, `Decr`, history | `Increment`, `Decrement`, `Merge`, `Value`, `GetState`, history | called by manager and inspector |
| manager (`ac.go`, `options.go`) | counters by key, statistics | `Update`, `Get`, `Snapshot`, `HandleRemoteUpdate`, `Start`, `Stop`, `connectToPeers` | owns all others |
| transport (`transport/grpc.go`) | handlers, clients by address | server `PropagateUpdate`, `ChangeConsistencyLevel`, client and connection manager | carries updates between nodes |
| inspector (`pi/inspector.go`) | statistics | `CheckInconsistency` and its two timelines | started by every remote update, reports to the controller |
| adaptive controller (`oca/controller.go`) | PID state, statistics | `Adjust`, threshold variant | its result becomes the dispatcher's level |
| simulated SDN controller (`simulation/mock-sdn/controller`) | servers behind a read-write lock | allocate and release, select best server, synchronise | uses the manager |
| simulated network, HTTP API, metrics, load generator (`simulation/...`) | loads, counters | generate load, translate requests | use the SDN controller |

**What is hard.** Any number of goroutines calls `Enqueue`, which reads the
level, reads the queue's length and writes the channel in three separate steps.
One dispatch loop takes updates out, sends them at once or holds them back in a
batch, and competes with the ticker and with `Stop` in one `select`. Broadcasts
wait for every peer in turn, with losses and deadlines. A remote update starts a
goroutine that judges the history, which starts a goroutine that changes
unsynchronised controller state and then the level the first group reads.
Nothing is persisted, so there is no crash recovery to speak of.

**What makes each part correct.** Dispatcher: an accepted update is broadcast once
or still held; what is held is bounded; the counters account for it; a stop ends.
Store: merging is the least upper bound of a lattice, so copies may come late,
twice or never. Manager: a refused update leaves no trace, a peer never learns
more than was done, reported sends were applied, nodes agree. Inspector: only
decisions that came after an unseen update are regretted. Controller: the level
stays usable and follows the deviation. SDN controller: requests do not take more
than there is and do not block each other for ever.

## 2. Modules

| Module | Models | Checked in | Proved in |
|---|---|---|---|
| `Outbox` | what the dispatcher promises, abstractly | (refined by `Dispatcher`) | `DispatcherProofs` |
| `Dispatcher`, `MCDispatcher` | `dispatcher.go` | `dispatcher*.cfg` | `DispatcherProofs` |
| `PNCounter` | the two maps of a counter and the operations on them | (used by the next two) | |
| `CounterReplicas` | replicas that exchange whole states, as `GetState` and `Merge` allow | `counter_replicas.cfg` | `CounterReplicasProofs` |
| `ACCluster`, `MCACCluster` | managers and transport: `Update`, `HandleRemoteUpdate`, broadcasts | `cluster*.cfg` | `ACClusterProofs` |
| `GRPCServer` | the server of `transport/grpc.go`: two RPCs, registrations, `Start`, `Stop` | (used by the next) | |
| `Lifecycle`, `MCLifecycle` | `Manager.Start` and `Stop` with those of all components, `connectToPeers`, the connection manager | `lifecycle*.cfg` | `LifecycleProofs` |
| `Inspector` | the arithmetic of both checks of `inspector.go` | (used by `Adaptation`) | `AdaptationProofs` |
| `OCA` | the arithmetic of `Adjust` | (used by the next) | `AdaptationProofs` |
| `Adaptation`, `MCAdaptation` | history, checks, reports, PID state, level | `adaptation*.cfg` | `AdaptationProofs` |
| `Threshold` | the threshold controller of `oca/controller.go` | | `ThresholdProofs` |
| `RWMutex` | `sync.RWMutex`, with writers preferred | (used by the next) | |
| `SDNController`, `MCSDNController` | `mock-sdn/controller`, the allocating handlers of `mock-sdn/api`, the loads of `mock-sdn/simulator` | `sdn*.cfg` | `SDNControllerProofs` |

`SumTheorems` holds what the proofs need about sums over finite sets.

### Dispatcher

One action is the code between two points where another goroutine may run.
`call[c]` is where caller `c` is in `Enqueue` and its locals: `BeginEnqueue` reads
the level, `Admit` and `Drop` the length, `Send` writes the channel (or `Drop`
takes the `default` arm), `EndEnqueue` counts. `loop` is where `run()` is:
`Receive`, `Tick` and `StopArm` are the arms of `select`; `ReadLimit`, `RouteFast`,
`RouteBatch` choose fast or batched mode; `Broadcast` is one `broadcastUpdate`
(`clientMutex` is held throughout, so one step), succeeding or not;
`Callback` is one call of `onResult`, of which a batch makes one for each of its requests (`told` says
how many were made); `Callback`, `Account` and `CountMode` are the three places where statistics
change. `stats` and `ops` are the dispatcher's six counters and the manager's three.
The `NewTicker`/`Reset` panic at a timeout that is not positive is a state of
`loop`. `handed` and `refused` are history variables, read by no guard.

Left out: keys and amounts (`ACCluster`), the latency and time fields of the
statistics, log output. `Stop` is one step here, the closing of the channel; what
several callers of it do to each other is in `Lifecycle`.

The refinement into `Outbox` maps `pending` to everything in the queue, in hand,
in the batch and in what is being sent, and `open` to `run()` not having returned.

### CounterReplicas and ACCluster

`CounterReplicas` is the counter as a state-based CRDT. A copy returned by
`GetState` stays available for ever, so `Merge` may get it late, twice or never.
`ACCluster` is how the manager uses it: the delta of a single update
travels, and `HandleRemoteUpdate` merges that delta by maximum. `ACCluster` models
one key (keys are independent), uses the dispatcher through what `Outbox` promises
(once, in any order, or refused), and has the broadcast peer by peer:
`SendTo`, then `ReceiveAck` or `GiveUp`, `SendFails` for a stream that cannot be
opened. A request whose sender gave up may still be applied. `RegisterHandler` and
`ConnectToPeer` are the two steps of start-up that matter: before the first a
server answers `Success = false` (and the sender ignores it), before the second
the peer is not among the clients. gRPC and the network are external; they may
lose and delay, and a stream carries one message, so they do not duplicate.
A broadcast remembers the clients it began with (`to`), and `unheard` the
requests that met no handler: both are history, for `ReportedIsApplied`.

### GRPCServer and Lifecycle

`GRPCServer` has one state per RPC: `Open`, `Recv` for the stream's message,
`Lookup` for the callback (read under the server's mutex, used after), `Call`,
`Reply`. The mutex is seen from outside only while `GracefulStop` waits with it in
hand; that is `draining`. `Stop` has the mutex a moment before `GracefulStop` closes the listener
(`ListenerCloses`, between `grpc.go:84` and 92), and RPCs are admitted until then (`listening`).
`Lifecycle` extends it. `Start` and `Stop` are programs,
`StartSteps` and `StopSteps`: `todo[c]` is what caller `c` has before it, so any
number of calls interleave step by step with the four background loops
(`loops`, `EndLoop`), with a broadcast (`BeginBroadcast`, `EndBroadcast`; it holds the
mutex that `AddPeer` of the dispatcher needs), with `connectToPeers` and with the
RPCs. A component's stop and stopped channels are sets of those closed; closing one
twice sets `panicked`, after which nothing happens. The three ways in which a `Stop` avoids closing
twice are kept apart: the dispatcher and the inspector test the channel without a
lock (`LookAtChannel`), the controller a flag under a mutex it keeps while
it waits (`LookAtFlag`), the manager nothing. Connections are numbered as they are
dialled; `Dial`, `DialFails`, `Fetch` and `Offer` are one address of
`connectToPeers`, `clients` is what the connection manager holds and `peers` what the
dispatcher was given. `grpc.Dial` does not wait for the peer, so it fails for
an address it cannot use, always or never.

### Adaptation

`history` is the counter's, pruned at `MaxHistory`. Its times are readings of a wall
clock (`Times`): two entries may have the same, and the clock may be put back. Every `RemoteUpdate` adds a
check, which `Check` runs on the history as it is by then. Every judged history adds a report with its ratio.
A report then makes each access of `calculatePID` to the state it shares a step of its own: `ReadTime` and
`MarkTime` for the interval, `LoadIntegral`, `StoreIntegral` and `ReloadIntegral`, `CompareError`
where there is a derivative, `NoteError`; `Apply` is the final `SetConsistencyLevel`.
Reports interleave freely between them. `MaxAtOnce` bounds how many goroutines of remote updates there
are at one time. `Inspector` and `OCA` hold the arithmetic, in integers: ratios in
hundredths, time in tenths of a millisecond, the integral in millionths, the output in ten-thousandths,
timeouts in milliseconds. An interval of zero is taken for a millisecond (`Elapsed`), and
one of a tenth of a millisecond or less has no derivative (`Derived`), as in the code. The exchange sort of
`reconstructTimelines` is `Sorted`, its filters are `Selected`: both are `Arranged`, which gives each entry
the place its key has among the keys. Entries with the same time keep their order in `Sorted`; the
exchange sort can turn them round when an earlier time follows. In such a history the clock was
put back, which `RegretNeedsLateness` allows for, and the total at the end does not depend on the order. The
check's statistics and the window of recent ratios are only printed and left out.

`CheckInconsistencyWithRemote` is `PhiWith`. Only tests call it, so it is no
step of `Adaptation`; `RegretLiesBetween` evaluates it on every history that occurs,
for every amount and every pair of times of origin and receipt.

### Threshold

The window of ratios, its average and the two steps of the level. The manager uses
the PID controller, so no composition and no run; what the module is for, the
reach of the steps, is proved.

### SDNController

One node with its server manager. `thread[t]` is a goroutine: one that serves
a request, one that waits to release what a request with a duration took, or
the background task; `at` is the point it has reached and `job` what it is for.
`SelectBestServer` and the listing of all servers are `LockForScan` (outer read
lock), one `Peek` per server (inner read lock, taken and given back, then the
counter and the background load), `EndScan` (unlock and the comparison with the
cost). `Charge`, `EndCharge`, `AddLoad` and `Respond` are the rest of an allocation, `Refund`, `EndRefund` and
`Unload` a release, `AskToWrite` to `EndTake` and `EndGiveBack` the shared pool,
`BeginSync` to `EndSync` the background task. `handleEmbed` refuses a cost that is not positive
(`Costs`), `handleRelease` and `ReleaseServer` compare nothing, so that `Releases` are any integers
(`http_server.go:202`); what accepted releases of negative amounts took is the history variable
`bypassed`. `leases` counts the goroutines that sleep until a release. `RWMutex` has the two halves of `Lock`, the
announcement and the wait for readers, because a read lock taken in between
waits.

The AC layer below is reduced to what `ACCluster` says of it: an update of the
node moves its own part of the counter (`own`) where every reader sees it, and in a second step
(`EndCharge`, `EndRefund`, `EndTake`, `EndGiveBack`) is accepted or refused and moved back (`ac.go:243-260`); an
update of a peer is merged by maximum into `peer` at any time. What the peers send is
arbitrary, so each property speaks of what this node does whatever they do.
`Init` is the state after `Start` and `InitializeServers`, whose updates meet an
empty queue. A value read from the AC layer and the background load are read in
one step. `Stop` clears `isRunning` and lets the background task end; what it stops
below is left out, as are requests for servers that do not exist, which change only a
counter nobody reads.

## 3. Runs

`SafeSpec` is used where only safety is asked, `Spec` where fairness matters.

| Run | Question | Bounds |
|---|---|---|
| `dispatcher` | `QueueBound`, `StalenessBound`: how many accepted updates can no peer know of? `Accounting`: do nine counters agree with where updates are? | 2 callers, 1 peer, levels 0 and 1, capacity 4, 4 updates |
| `dispatcher_outbox` | Does it implement `Outbox` (liveness included)? Does a stop complete, and lose only the queue? | 1 caller, 1 peer, levels 2 and 3, a channel of 2, 4 updates, so that batches are held back and fail in part and the channel gets full |
| `counter_replicas` | Never ahead, never forgets, converges | 2 replicas, 2 operations each, any copies |
| `cluster` | Never ahead; a node's own value is exactly what it accepted; is a send counted as successful really applied by every client there was? | 2 nodes, 2 updates each of 2 or -1, losses, late start-up |
| `cluster_one_each` | Do all nodes agree when nothing is under way, and do they get there? | 3 nodes connected, 1 update each, no loss |
| `cluster_two_updates` (violation) | The same with two updates per node | 2 nodes, no loss |
| `adaptation` | Which histories do the two checks regret, do both timelines meet, does the level stay usable? | 4 updates of 2 or -1, two times in any order, history of 2, at most 2 checks and reports at once, gaps of 0, 0.1 ms and 10 s after a first one of 20 s |
| `adaptation_windup` (violation) | Is the output positive above the target? | 4 updates of 4 or 5, one report at a time, gaps of 1 s after a first one of 1000 s |
| `sdn` | By how much can a server and the pool be given away? Does the simulated load cover it? | 2 handlers, 1 server of capacity 2, 3 requests of 2, releases of 2 and -1 asked for, peers' updates of 2 and -1 |
| `sdn_lock` (violation) | Is a request that was begun answered? | 1 handler, 1 server, 1 request |
| `lifecycle` | Is a channel ever closed twice, is anything left when `Stop` returns, are connections tracked and open when used, are answers true, does a stop return, are all peers connected? | 1 RPC, 2 callers, 3 calls, addresses p2, p1, p1 of which p2 cannot be dialled, 2 attempts |
| `lifecycle_stop` (violation) | Does a stop that meets a start return? | 1 RPC, 1 caller, 2 calls |

**Why the bounds suffice.** `dispatcher` reaches both of its bounds exactly (with
either bound lowered by one TLC finds a violation); with four updates one can be in
each of: two callers, queue, loop. `dispatcher_outbox` needs a second level so that the
limit `run()` read can be above or below the one a caller used, updates enough for
a batch to be held back while another overtakes it in fast mode, and a channel smaller than
the level so that `Enqueue` finds it full. What several callers do to each other
in `Enqueue` is the question of `dispatcher`.
The races of `Enqueue` and `Adjust` are between pairs of goroutines. In `cluster`
a second update of the same node is what distinguishes a maximum from a sum; two
nodes suffice for that, three are used where a broadcast must reach several peers.
In `sdn` a request of the whole capacity is the one for which a stale check
matters most; three requests are two that race and one that finds the result,
and releases that expire or are asked for come between them in any order, one that takes
instead of giving among them. All four
bounds of the run are reached. Which of
several servers is chosen makes no difference to a property of each server.
In `adaptation` the history is judged from two entries on; with two times and four updates
it has every pair of a local and a remote entry, in order, at one time or with the clock put back, also after
pruning. Two reports at once are what a race on the controller's state takes, and the gaps are one of
each kind the code tells apart: none, too short for a derivative, and long.
In `lifecycle` three calls of two callers are enough for two starts and a stop, a
start and two stops, and each of them inside another; the first address fails
for good, so that the loop over addresses has to get past it, and the other comes twice, so
that a connection is replaced while the dispatcher has it. An RPC that is caught by the stop at any of
its points needs no second one. The goroutine of a second `Start` that gets as far
as `connectToPeers` is not followed: that takes a start after a stop, where the loops
have panicked before its five seconds are over.

**Fairness.** `run()` is a goroutine: once started its steps outside `select` are
weakly fair. The arms of `select` are strongly fair because Go picks among
ready arms at random, so an arm that is ready again and again is taken in the end.
Callers, OCA and `Stop` owe nothing. In `ACCluster`, calls that began return,
start-up, dispatch loops and the network make progress; no further call of
`Update` is owed. In `Lifecycle` nobody has to call, to open an RPC or to broadcast,
but what is begun goes on: the steps of `Start` and `Stop`, handlers, deadlines of
streams, loops told to stop, `connectToPeers`. One strong fairness condition covers
all of them: there are only finitely many such steps in a behaviour (calls, RPCs
and attempts are bounded, in the code too for attempts), so that each is taken in the end. Strong, because a
broadcast can begin again and again: the dispatch loop's `select` then has its stop arm
ready again and again, and a writer waiting for `clientMutex` keeps later readers
out, as `sync.RWMutex` promises. Broadcasts end because their contexts have
deadlines. `CounterReplicas` assumes that replicas keep exchanging their
latest states, which is the assumption under which a CRDT promises anything.

## 4. What the violations show

* `README.md:85` promises eventually consistent counting. Deltas are merged by
  maximum, so a node that issues 1 and again 1 is seen as 1 by its peers.
* `controller.go:202` says that the output is positive when the ratio is above the
  target. The first interval is measured from the zero time (saturated at 292
  years; the run takes 1000 s), and the integral keeps that sign: a node whose
  first report is below the target stays at the loosest level.
* `README.md:145` promises safety under concurrent reads and writes.
  `SelectBestServer` takes a read lock twice; when a writer is announced in between (the
  background task is one, every second), reader and writer wait for each other
  and no request is answered again.
* `testPlan.md:1076` expects a graceful shutdown to complete pending operations.
  `GRPCServer.Stop` calls `GracefulStop` with the server's mutex locked
  (`grpc.go:84`, 92), and the handlers it waits for take that mutex (`grpc.go:142`, 179): an RPC
  whose message has arrived and that has not looked up its callback keeps `Stop`
  for ever. `StopReturnsUnlessWedged` says that nothing else does.

Noticed while modelling, without a run of their own. `simulation/流程.md:17` has a
node choose a server "on condition that the resource constraints are met", but
`AllocateServer` compares and takes in two steps (`controller.go:144`), so that two requests get
the last of the same server; `ServerOvershootBound` says how far it goes. `/release` passes any cost on
(`http_server.go:202`, `controller.go:316`): a negative one takes from the server without any comparison, so
that the bound has to allow for all that was taken in this way (`bypassed`).
Concurrent reports of the controller can lose each other's additions to the integral
(`oca/controller.go:168`); the level stays in its range whatever the integral is
(`OutputLimited`), and no document says what two reports at once should add up to, so no property does.
A second `Manager.Stop` panics (`ac.go:218`), and so do the loops of a `Start`
after a `Stop`; `NoDoubleClose` is stated for a node that is used once, and so excludes just these two. It also
shows that the unlocked test in `dispatcher.go:110` is harmless below the manager,
whose own close comes first. `connectToPeers` is not told of a stop: what it dials
after `CloseAll` is never closed (`ac.go:421`, against the comment at 226), so
`QuietAfterStop` speaks of connections dialled before. A `Stop` whose `Start`
failed, or never came, waits for ever for loops that do not run (`ac.go:232`). The
threshold controller can set a queue size of 1010, above the channel's capacity (`oca/controller.go:371`,
`LevelStaysInReach`). With a remote update given, the cost of what happened can be below the cost
of the optimum (`inspector.go:155`). `dispatcher.go:138` calls the
length check the guarantee of bounded staleness, but check and write are not
atomic: `k` callers bring the queue to the level and `k - 1` more
(`QueueBounded` proves that bound). `testPlan.md:1076` expects pending operations
to be completed at a graceful shutdown; the stop arm sends the batch and abandons the queue
(`StopLosesNothingElse` proves that nothing else is lost). `testPlan.md:850`
expects states to merge correctly after a partition; an update a peer missed is
never sent to it again, nor is one issued in the five seconds before
`connectToPeers` adds the first peer (`ac.go:423`). `run()` compares the length
after it removed an update, so one taken from a queue at exactly the limit goes in
fast mode (`dispatcher.go:226`, against 221); at a level equal to the capacity the
`default` arm that "should not happen" does (`dispatcher.go:165`); a
dispatcher without clients counts its sends as successful (`dispatcher.go:363`,
against `dispatcher_test.go:207`); the costs of the two timelines can be in either
order, which the clamp to 1.0 hides (`inspector.go:114`); merges are recorded
with the time of receipt, not the original one (`pn_counter.go:203`, against 195); every node
adds the whole capacity to the counter of the shared pool (`server_manager.go:91`), so that n nodes
see n times the pool; the simulator draws the background load around
the allocated one (`network_sim.go:54`), so that an allocation is subtracted twice; an
automatic release whose update is refused is lost (`http_server.go:171`).

## 5. Proofs

`CounterReplicasProofs` proves, for any finite set of replicas and any number of
operations, that `MergeMap` is commutative, associative, idempotent and the least
upper bound, that replicas keep their types (`TypeCorrect`), never forget
(`ReplicasNeverForget`), and never run ahead (`ReplicasNeverAhead`). The last is
not inductive alone: a copy under way could be ahead, so `CopiesBehind` says that
none is. From it follows what `Converges` rests on apart from fairness: a replica that has seen
whatever any replica holds has exactly the operations done (`InformedReplicasAgree`); merging
the latest copy of a replica brings another up to it (`MergeInforms`); and until somebody updates again
no old copy takes an informed replica back (`InformedStays`).

`SumTheorems`: the sums of the models are the community modules' `SumFunction`, a recursive
function over the subsets of its domain. To unfold it one has to show that such a function exists.
`SumTheorems` gives one, for finite domains: a sum of natural numbers is the number of pairs of an element and a
unit of it, and a sum of integers the difference of two such sums. Then an element can be
taken out (`SumTake`), a value changed (`SumChange`), the domain renamed (`SumRenamed`), two
sums subtracted term by term (`SumDifferences`) or compared so (`SumMonotone`, and `SumConstant`,
`SumBound` and `SumsCover` for terms with a common bound), and every sum
is an integer (`SumType`). Induction over lengths is a least counterexample in the natural numbers
(`NatLessThanWellFounded`, `WFMin`), which needs no operator as a parameter.

`DispatcherProofs` proves, for any finite set of callers, any peers, levels,
capacity and number of updates, and under the assumptions named in `Dispatcher`:

* `TypeCorrect`, from `Shape`: which locals of `run()` are in use at
  which point (`LoopShape`), and that updates inside `Enqueue` are distinct and
  not yet refused (`CallShape`);
* `QueueBounded`. Inductive by itself: only `Admit` adds a caller to
  those about to write, and it saw room, so that with all other callers about to
  write the sum stays within the level and the callers less one;
* `StalenessBounded`, from `QueueBounded` and `LoopBounded`: what is in the batch
  and being sent is at most the limit, since a full batch is sent at once;
* `AccountingHolds`, together with `CounterShape`, which ties the counters to what
  was handed to the broadcast; each step of `Enqueue` moves one caller between two
  points (`EnqueueMoves`, `EnqueueCounts`), each step of `run()` moves updates
  between two places of the pipeline, and in the middle of a batch's callbacks as many of its requests are
  credited as calls were made (`Credited`);
* `StopLosesNothingElse`, from the accounting and the shape;
* `DispatcherIsAnOutbox`, the safety half of the refinement
  checked in `dispatcher_outbox`: the initial states map to `Outbox!Init` and every step maps
  to `Accept`, `Refuse`, `Hand`, `Close` or a stutter. It needs `Places` (`OneUpdateOnePlace`), that queue and batch
  hold distinct updates, that no two places of the pipeline share one, and that an update is
  being decided, pending or settled and only one of these; otherwise taking an
  update from the queue could also be read as losing a second copy.

`SDNControllerProofs` proves, for any finite sets of goroutines (one at least serves requests) and servers, any finite set of positive costs asked for,
any finite set of integers released, any amounts from peers and any number of requests, under the assumptions named in
`SDNController` and `RWMutex`:

* `TypeCorrect`, from `Shape`: at which points a goroutine holds which lock, and what it
  knows of its server, cost and job there. Each kind of move (`BeginShape`, `GotoShape`,
  `DoneShape`) is shown once to keep it;
* `PoolNeverOversold`. Not inductive alone: between the check and the update the pool could
  shrink. `Covered` says that it still has what was checked, because only one goroutine can be
  there (`Shape` has it hold the write lock) and peers only add to what is compared;
* `PoolKeepsCapacity` and `LoadAlwaysCovers`, each inductive with `Shape`: every step moves one amount
  between two terms of the sum, from the counter to the goroutines that sleep until a release, from
  those to one that returns it, from that to the counter, or from a request that has charged to the
  simulated load. Where an update is refused, or a release exceeds the load, the sum
  only moves to the safe side;
* `OvershootBounded`. The bound alone is not inductive: with all other goroutines past their
  comparison one more could charge, and what a check saw may be a release that is refused and moved back.
  A goroutine is *armed* when it has seen enough on a server and will charge that one. `Stock` is what the
  node holds of a server (its own part and what its peers gave) with what bypassed the comparison; a *loan* is what an
  armed goroutine is yet to take, or a release in the middle of its update may take back. `Reserve` says that
  the stock less all loans falls short by at most the largest amount for every handler but one. It is
  inductive: a goroutine that becomes armed saw at least what it needs, and the loans of the others are each at most
  the largest amount (`SumBound`, `SumsCover`); and it gives the bound.

`ACClusterProofs` proves, for any finite set of nodes, any amounts, any number of updates and
any losses and delays:

* `TypeCorrect`;
* `NobodyAhead`, again not inductive alone: an update in a queue, a batch or a message may
  reach a peer at any time. `UnderWayKnown` says that whatever is under way has been
  counted by its owner, who never takes anything back (`OwnerAdds`), so that merging it at a
  peer (`PeerMerges`) brings the peer to the owner's total at most;
* `ReportsAreTrue`. The inductive part (`ReportsInv`) says that a dispatcher waits for one
  peer at a time (`OneWait`), that an acknowledgement on its way means the peer has merged
  the message (`AckMeansLearnt`), and that every peer the broadcast is past has learnt it
  or met no handler (`SentIsLearnt`);
* `OwnValueIsExact`, with `UpdatesApart`: no two calls of `Update` make the same update and none is
  answered twice, so that a refusal takes exactly its own amount out of the sum. A message never moves its
  owner's entry, because what it carries the owner has counted already (`NobodyAhead`);
* `PeersHoldOneUpdate`: only accepted updates travel (`HoldInv`), and merging one leaves a peer's entry
  as it was or sets it to that update's amount, so that no peer ever holds a sum of two;
* `PeersHoldTheLargest`, without losses: an accepted update is still on its way to a peer or the peer
  holds its amount at least (`HearingStep`), for what is queued is not refused, what is queued gets
  broadcast to every peer and what is sent is handled. When nothing is on its way only the second is
  left. `cluster_two_updates` shows what this means for the sum;
* `QuietMeansAgreement`: with one update per node the largest amount is the sum, which
  by `OwnValueIsExact` is what its owner holds, and two nodes whose entries differ in equal amounts have
  the same value (`SumDifferences`). This is the safety half of `EventuallyConsistent`; that the cluster
  does become quiet is left to TLC.

`LifecycleProofs` proves, for any callers, requests, addresses (repeated or not dialable) and
numbers of calls:

* `AnswersAreTrue`: how far an RPC has come tells whether its message was applied
  (`Known`), and nothing but its own steps moves it (`OnlyRPCSteps`);
* `NoConnectionLost`: two addresses never share a connection
  (`OwnConnections`), so that the one `AddPeer` replaces can be closed without
  closing another's;
* `ClosedOnce`, `NothingLeftBehind` and `NoClosedConnectionUsed`, from one invariant,
  `OrderInv`. `Programs` says that what a caller has before it is the rest of `StartSteps`
  or `StopSteps`, so that `StopPos` and `StartPos` are its place there and `Past(k)` that the
  Stop has done its `k`-th step. For a node that is used once (`UsedOnce`), `Orderly` then ties the
  rest to these places: there is one Stop; a channel is closed only when its `close` is
  past, and its loop is gone when its `wait` is past (`Channels`); a Start that has listened has the
  node to itself until its loops run, because the server runs or the Stop is past it
  (`OneStart`); the server is down and without RPCs after step 12 (`ServerDown`); until `CloseAll`
  the dispatcher's connections are the connection manager's (`PeersFollow`). Without
  `OneStart` a second Start could put a loop on a channel that is closed;
* `LifecycleTypes`. What is bounded there is counted: the connections dialled by the places of the
  configuration that `connectToPeers` is past (`DialledOnce`), the loops by the calls, since
  a call that has yet to begin a loop is still before it in its program (`LoopsCounted`).

`AdaptationProofs` proves, for any sets of amounts, times and gaps, any size of the history and any
interleaving of checks and reports:

* `OutputLimited` and `LevelsFollowTheOutput`, about the arithmetic of `Adjust` alone: the output stays in its
  limits, the level in its own, and it never gets looser when the output rises; the divisions are handled by
  `QuotientFalls`;
* `AdaptationTypes`, from `LoopInv`, which adds to the types that no reported ratio is below
  1.00 (`AtLeastOnes`). It needs that a ratio is never negative, and so
  `CostNotNegative`: the square of a sum of n numbers is at most n times the sum of their squares, by induction
  on n. `NoRatioBelowOne` comes with it;
* `TimelinesAlwaysMeet`: `Arrangement` shows that `Arranged` is a bijection between the positions and their places,
  so that both timelines are arrangements of the same history (`RearrangedBy`) and `SumRenamed` gives both
  the same total;
* `RegretIsLate`: with no remote entry before a local one, local entries followed by remote ones are the
  history itself (`RearrangedStays`). If no time is earlier than one before it, the keys
  of the sort rise (`KeysRise`) and so the sorted history is the history too (`SortedStays`). Equal timelines have
  the ratio 1.00 (`RatioOfEquals`), so that a higher one needs a late update or a clock put back;
* `RegretAlwaysBetween`: with nothing between origin and receipt, the operations before one are
  those before the other, there is nothing to decide anew, and the timelines are again equal.

`ThresholdProofs` proves `LevelStaysInReach` and `WindowHolds`.

Every invariant and every action property the runs check is proved. Only model-checked is liveness:
`ImplementsOutbox`'s fairness, `StopCompletes`, `Converges`, `EventuallyConsistent`,
`StopReturnsUnlessWedged` and `EveryPeerConnected` need `ENABLED` and fairness, which the prover does not
handle. The four violations are counterexamples of TLC.

## 6. Not modelled, and the plan

Not modelled:

* generated protobuf code, HTTP decoding, metrics text, logging and everything that is only
  printed (`monitorStats`, the running averages of the inspector, the controller's
  window of ratios);
* how the simulators draw their random load, and the load generator, a client that sends random requests
  and keeps no state the system depends on;
* the link manager, which nothing constructs;
* what only tests call: `RemovePeer` and `BroadcastUpdate` of the connection manager, the two calls
  of the gRPC client, `SetPIDParameters`, `SetTargetPhi`, `LocalIncr` and `LocalDecr`;
* options, which only set fields that are constants here.

Left for later: several SDN controllers over `ACCluster` with the shared pool, where each
adds the whole capacity; a level set by a peer in the middle of `run()` with more than one
peer setting it.
