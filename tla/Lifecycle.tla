------------------------------ MODULE Lifecycle ------------------------------
(***************************************************************************)
(* How a node starts and stops: Manager.Start and Manager.Stop (ac.go)     *)
(* with the Start and Stop of the dispatcher, the inspector, the           *)
(* controller and the gRPC server, the background loops they begin and     *)
(* end, connectToPeers and the connection manager of transport/grpc.go.    *)
(*                                                                         *)
(* Start and Stop are programs, sequences of steps that a caller works     *)
(* through one at a time.  Each loop ends when its stop channel is closed  *)
(* and closes its stopped channel; closing a closed channel panics.        *)
(***************************************************************************)
EXTENDS GRPCServer

CONSTANTS
    Callers,        \* goroutines that call Start and Stop
    MaxCalls,       \* bound: calls of Start and Stop
    Addresses,      \* addresses of peers
    PeerAddresses,  \* the node's configuration, a sequence that may repeat itself
    Undialable,     \* addresses grpc.Dial refuses
    MaxRetries      \* attempts of connectToPeers for an address

ASSUME MaxCallsAssumption == MaxCalls \in Nat
ASSUME PeersAssumption == PeerAddresses \in Seq(Addresses) /\ Undialable \subseteq Addresses
ASSUME MaxRetriesAssumption == MaxRetries \in Nat \ {0}

VARIABLES
    todo,           \* the steps each caller has before it
    stopChan,       \* components whose stop channel is closed
    stoppedChan,    \* components whose stopped channel is closed
    loops,          \* goroutines running each component's loop
    sending,        \* the dispatch loop is inside broadcastUpdate
    connector,      \* the connectToPeers goroutine and its locals
    clients,        \* the connection manager's connection to each address
    peers,          \* the dispatcher's connection to each address
    opened,         \* connections that are open; they are numbered as dialled
    dialled,        \* connections dialled so far
    panicked,       \* the process is gone
    calls, stops,   \* history: calls of Start and Stop, and of Stop
    restarted,      \* history: the server listened again after a Stop
    closed,         \* history: connections dialled when CloseAll ran
    returned        \* history: Stop has returned

chanVars == <<stopChan, stoppedChan, loops>>
connVars == <<clients, opened, dialled>>
historyVars == <<stops, restarted, closed, returned>>
vars == <<serverVars, todo, chanVars, sending, connector, connVars, peers, panicked,
          calls, historyVars>>

Components == {"oca", "pi", "dispatcher", "manager"}

\* No connection.
None == 0

Indices == 1..Len(PeerAddresses)

Connector == [at : {"none", "dial", "fetch", "offer", "done"}, i : 1..(Len(PeerAddresses) + 1),
              try : 1..MaxRetries, got : 0..Len(PeerAddresses)]

Init ==
    /\ ServerInit
    /\ todo = [c \in Callers |-> <<>>]
    /\ stopChan = {} /\ stoppedChan = {}
    /\ loops = [x \in Components |-> 0]
    /\ sending = FALSE
    /\ connector = [at |-> "none", i |-> 1, try |-> 1, got |-> None]
    /\ clients = [a \in Addresses |-> None]
    /\ peers = [a \in Addresses |-> None]
    /\ opened = {} /\ dialled = 0
    /\ panicked = FALSE
    /\ calls = 0 /\ stops = 0
    /\ restarted = FALSE /\ closed = 0 /\ returned = FALSE

-----------------------------------------------------------------------------
(* The programs.                                                           *)

StartSteps ==
    << <<"listen", "server">>, <<"register", "update">>, <<"register", "level">>,
       <<"connect", "peers">>, <<"loop", "dispatcher">>, <<"loop", "pi">>,
       <<"loop", "oca">>, <<"loop", "manager">> >>

\* Wrong variant: the connections are closed first.
ConnectionsFirst ==
    << <<"closeAll", "connections">>, <<"close", "manager">>,
       <<"look", "oca">>, <<"close", "oca">>, <<"wait", "oca">>,
       <<"look", "pi">>, <<"close", "pi">>, <<"wait", "pi">>,
       <<"look", "dispatcher">>, <<"close", "dispatcher">>, <<"wait", "dispatcher">>,
       <<"drain", "server">>, <<"drained", "server">>, <<"wait", "manager">> >>

\* The three Stops look at their channel (or flag), close it and wait.
StopSteps ==
    << <<"close", "manager">>,
       <<"look", "oca">>, <<"close", "oca">>, <<"wait", "oca">>,
       <<"look", "pi">>, <<"close", "pi">>, <<"wait", "pi">>,
       <<"look", "dispatcher">>, <<"close", "dispatcher">>, <<"wait", "dispatcher">>,
       <<"drain", "server">>, <<"drained", "server">>,
       <<"closeAll", "connections">>, <<"wait", "manager">> >>

\* A panic ends the process, so every action asks for none.
Doing(c, step, what) == ~panicked /\ todo[c] # <<>> /\ Head(todo[c]) = <<step, what>>

MayCall(c) == ~panicked /\ todo[c] = <<>> /\ calls < MaxCalls

Goes(c, rest) == todo' = [todo EXCEPT ![c] = rest]

Proceeds(c) == Goes(c, Tail(todo[c]))

\* The caller's next n steps fall away.
Skips(c, n) == Goes(c, SubSeq(todo[c], n + 1, Len(todo[c])))

Stopping(c) == todo[c] # <<>> /\ todo[c][Len(todo[c])] = <<"wait", "manager">>

CallStart(c) ==
    /\ MayCall(c)
    /\ calls' = calls + 1
    /\ Goes(c, StartSteps)
    /\ UNCHANGED <<serverVars, chanVars, sending, connector, connVars, peers, panicked,
                   historyVars>>

CallStop(c) ==
    /\ MayCall(c)
    /\ calls' = calls + 1 /\ stops' = stops + 1
    /\ Goes(c, StopSteps)
    /\ UNCHANGED <<serverVars, chanVars, sending, connector, connVars, peers, panicked,
                   restarted, closed, returned>>

-----------------------------------------------------------------------------
(* Steps of Start.                                                         *)

\* A Start has come as far as connectToPeers.
Connecting == connector.at # "none"

\* Wrong variant: a running server is started once more.
ListenRegardless(c) ==
    /\ Doing(c, "listen", "server")
    /\ ~draining
    /\ running' = TRUE /\ listening' = TRUE
    /\ UNCHANGED <<draining, registered, rpc, applied>>
    /\ restarted' = (restarted \/ (Connecting /\ stops > 0))
    /\ Proceeds(c)
    /\ UNCHANGED <<chanVars, sending, connector, connVars, peers, panicked, calls, stops,
                   closed, returned>>

StartServer(c) ==
    /\ Doing(c, "listen", "server")
    /\ Listen
    /\ restarted' = (restarted \/ (Connecting /\ stops > 0))
    /\ Proceeds(c)
    /\ UNCHANGED <<chanVars, sending, connector, connVars, peers, panicked, calls, stops,
                   closed, returned>>

\* The server runs already, or the port is taken: Start returns the error.
StartFails(c) ==
    /\ Doing(c, "listen", "server")
    /\ ~draining
    /\ Goes(c, <<>>)
    /\ UNCHANGED <<serverVars, chanVars, sending, connector, connVars, peers, panicked,
                   calls, historyVars>>

RegisterHandler(c) ==
    \E kind \in Kinds :
        /\ Doing(c, "register", kind)
        /\ Register(kind)
        /\ Proceeds(c)
        /\ UNCHANGED <<chanVars, sending, connector, connVars, peers, panicked, calls,
                       historyVars>>

\* bound: the goroutine of a second Start that gets here, after a Stop, is not
\* followed; it sleeps for five seconds, and by then the loops have panicked.
SpawnConnector(c) ==
    /\ Doing(c, "connect", "peers")
    /\ connector' = IF Connecting THEN connector
                    ELSE [connector EXCEPT !.at = IF Indices = {} THEN "done" ELSE "dial"]
    /\ Proceeds(c)
    /\ UNCHANGED <<serverVars, chanVars, sending, connVars, peers, panicked, calls, historyVars>>

SpawnLoop(c) ==
    \E x \in Components :
        /\ Doing(c, "loop", x)
        /\ loops' = [loops EXCEPT ![x] = @ + 1]
        /\ Proceeds(c)
        /\ UNCHANGED <<serverVars, stopChan, stoppedChan, sending, connector, connVars, peers,
                       panicked, calls, historyVars>>

-----------------------------------------------------------------------------
(* Steps of Stop.                                                          *)

\* Dispatcher and inspector: the channel is tested, and closed in a step of its own.
LookAtChannel(c) ==
    \E x \in {"pi", "dispatcher"} :
        /\ Doing(c, "look", x)
        /\ IF x \in stopChan THEN Skips(c, 2) ELSE Proceeds(c)
        /\ UNCHANGED <<serverVars, chanVars, sending, connector, connVars, peers, panicked,
                       calls, historyVars>>

\* Controller: stopMutex is held from here to the end of the wait, and
\* isStopped, set at the end, is TRUE when the channel is closed and it is free.
LookAtFlag(c) ==
    /\ Doing(c, "look", "oca")
    /\ \A d \in Callers : ~Doing(d, "close", "oca") /\ ~Doing(d, "wait", "oca")
    /\ IF "oca" \in stopChan THEN Skips(c, 3) ELSE Proceeds(c)
    /\ UNCHANGED <<serverVars, chanVars, sending, connector, connVars, peers, panicked,
                   calls, historyVars>>

CloseStopChan(c) ==
    \E x \in Components :
        /\ Doing(c, "close", x)
        /\ panicked' = (x \in stopChan)
        /\ stopChan' = stopChan \cup {x}
        /\ Proceeds(c)
        /\ UNCHANGED <<serverVars, stoppedChan, loops, sending, connector, connVars, peers,
                       calls, historyVars>>

\* The manager's is the last of all waits.
Await(c) ==
    \E x \in stoppedChan :
        /\ Doing(c, "wait", x)
        /\ Proceeds(c)
        /\ returned' = (returned \/ x = "manager")
        /\ UNCHANGED <<serverVars, chanVars, sending, connector, connVars, peers, panicked,
                       calls, stops, restarted, closed>>

DrainServer(c) ==
    /\ Doing(c, "drain", "server")
    /\ IF running
       THEN BeginGracefulStop /\ Proceeds(c)
       ELSE ~draining /\ UNCHANGED serverVars /\ Skips(c, 2)
    /\ UNCHANGED <<chanVars, sending, connector, connVars, peers, panicked, calls, historyVars>>

ListenerCloses(c) ==
    /\ Doing(c, "drained", "server")
    /\ CloseListener
    /\ UNCHANGED <<todo, chanVars, sending, connector, connVars, peers, panicked, calls,
                   historyVars>>

ServerDrained(c) ==
    /\ Doing(c, "drained", "server")
    /\ EndGracefulStop
    /\ Proceeds(c)
    /\ UNCHANGED <<chanVars, sending, connector, connVars, peers, panicked, calls, historyVars>>

CloseAll(c) ==
    /\ Doing(c, "closeAll", "connections")
    /\ opened' = opened \ {clients[a] : a \in Addresses}
    /\ clients' = [a \in Addresses |-> None]
    /\ closed' = dialled
    /\ Proceeds(c)
    /\ UNCHANGED <<serverVars, chanVars, sending, connector, dialled, peers, panicked, calls,
                   stops, restarted, returned>>

-----------------------------------------------------------------------------
(* The loops.                                                              *)

\* Wrong variant: the loop returns without closing its stopped channel.
EndLoopSilently(x) ==
    /\ ~panicked /\ loops[x] > 0 /\ x \in stopChan
    /\ x = "dispatcher" => ~sending
    /\ loops' = [loops EXCEPT ![x] = @ - 1]
    /\ UNCHANGED <<serverVars, todo, stopChan, stoppedChan, sending, connector, connVars, peers,
                   panicked, calls, historyVars>>

\* The stop arm of a loop's select and the deferred close.
EndLoop(x) ==
    /\ ~panicked /\ loops[x] > 0 /\ x \in stopChan
    /\ x = "dispatcher" => ~sending
    /\ loops' = [loops EXCEPT ![x] = @ - 1]
    /\ panicked' = (x \in stoppedChan)
    /\ stoppedChan' = stoppedChan \cup {x}
    /\ UNCHANGED <<serverVars, todo, stopChan, sending, connector, connVars, peers, calls,
                   historyVars>>

\* broadcastUpdate holds clientMutex from the first peer to the last; without
\* peers there is nothing to see of it.
BeginBroadcast ==
    /\ ~panicked /\ loops["dispatcher"] > 0 /\ ~sending
    /\ \E a \in Addresses : peers[a] # None
    /\ sending' = TRUE
    /\ UNCHANGED <<serverVars, todo, chanVars, connector, connVars, peers, panicked, calls,
                   historyVars>>

EndBroadcast ==
    /\ ~panicked /\ sending
    /\ sending' = FALSE
    /\ UNCHANGED <<serverVars, todo, chanVars, connector, connVars, peers, panicked, calls,
                   historyVars>>

-----------------------------------------------------------------------------
(* connectToPeers.                                                         *)

CurrentAddress == PeerAddresses[connector.i]

ConnectorAt(stage) == ~panicked /\ connector.at = stage

\* The loop over the addresses goes on with the next one.
NextAddress ==
    connector' = [connector EXCEPT
        !.at = IF connector.i = Len(PeerAddresses) THEN "done" ELSE "dial",
        !.i = @ + 1, !.try = 1, !.got = None]

\* Wrong variant: an earlier connection to the address is forgotten, not closed.
DialOver ==
    /\ ConnectorAt("dial") /\ CurrentAddress \notin Undialable
    /\ dialled' = dialled + 1
    /\ opened' = opened \cup {dialled + 1}
    /\ clients' = [clients EXCEPT ![CurrentAddress] = dialled + 1]
    /\ connector' = [connector EXCEPT !.at = "fetch"]
    /\ UNCHANGED <<serverVars, todo, chanVars, sending, peers, panicked, calls, historyVars>>

\* ConnectionManager.AddPeer: an earlier connection to the address is closed.
Dial ==
    /\ ConnectorAt("dial") /\ CurrentAddress \notin Undialable
    /\ dialled' = dialled + 1
    /\ opened' = (opened \ {clients[CurrentAddress]}) \cup {dialled + 1}
    /\ clients' = [clients EXCEPT ![CurrentAddress] = dialled + 1]
    /\ connector' = [connector EXCEPT !.at = "fetch"]
    /\ UNCHANGED <<serverVars, todo, chanVars, sending, peers, panicked, calls, historyVars>>

\* Wrong variant: the first address that fails ends the loop over addresses.
DialFailsForGood ==
    /\ ConnectorAt("dial") /\ CurrentAddress \in Undialable
    /\ IF connector.try < MaxRetries
       THEN connector' = [connector EXCEPT !.try = @ + 1]
       ELSE connector' = [connector EXCEPT !.at = "done"]
    /\ UNCHANGED <<serverVars, todo, chanVars, sending, connVars, peers, panicked, calls,
                   historyVars>>

\* Wrong variant: one attempt too many.
DialFailsOnceMore ==
    /\ ConnectorAt("dial") /\ CurrentAddress \in Undialable
    /\ IF connector.try <= MaxRetries
       THEN connector' = [connector EXCEPT !.try = @ + 1]
       ELSE NextAddress
    /\ UNCHANGED <<serverVars, todo, chanVars, sending, connVars, peers, panicked, calls,
                   historyVars>>

DialFails ==
    /\ ConnectorAt("dial") /\ CurrentAddress \in Undialable
    /\ opened' = opened \ {clients[CurrentAddress]}
    /\ IF connector.try < MaxRetries
       THEN connector' = [connector EXCEPT !.try = @ + 1]
       ELSE NextAddress
    /\ UNCHANGED <<serverVars, todo, chanVars, sending, clients, dialled, peers, panicked, calls,
                   historyVars>>

\* GetClient: none if CloseAll came in between.
Fetch ==
    /\ ConnectorAt("fetch")
    /\ IF clients[CurrentAddress] = None
       THEN NextAddress
       ELSE connector' = [connector EXCEPT !.at = "offer", !.got = clients[CurrentAddress]]
    /\ UNCHANGED <<serverVars, todo, chanVars, sending, connVars, peers, panicked, calls,
                   historyVars>>

\* Dispatcher.AddPeer waits for a broadcast that is under way.
Offer ==
    /\ ConnectorAt("offer") /\ ~sending
    /\ peers' = [peers EXCEPT ![CurrentAddress] = connector.got]
    /\ NextAddress
    /\ UNCHANGED <<serverVars, todo, chanVars, sending, connVars, panicked, calls, historyVars>>

-----------------------------------------------------------------------------
StartStep(c) ==
    StartServer(c) \/ StartFails(c) \/ RegisterHandler(c) \/ SpawnConnector(c) \/ SpawnLoop(c)

StopStep(c) ==
    \/ LookAtChannel(c) \/ LookAtFlag(c) \/ CloseStopChan(c) \/ Await(c)
    \/ DrainServer(c) \/ ListenerCloses(c) \/ ServerDrained(c) \/ CloseAll(c)

ConnectStep == Dial \/ DialFails \/ Fetch \/ Offer

Elsewhere ==
    /\ ~panicked
    /\ UNCHANGED <<todo, chanVars, sending, connector, connVars, peers, panicked, calls,
                   historyVars>>

RPCStep(r) == (Client(r) \/ Handler(r)) /\ Elsewhere

Next ==
    \/ \E c \in Callers : CallStart(c) \/ CallStop(c) \/ StartStep(c) \/ StopStep(c)
    \/ \E x \in Components : EndLoop(x)
    \/ ConnectStep
    \/ BeginBroadcast \/ EndBroadcast
    \/ \E r \in Requests : RPCStep(r)

\* What is begun goes on: callers in Start and Stop, handlers, deadlines of
\* clients, loops that are told to stop, connectToPeers.
Progress ==
    \/ \E c \in Callers : StartStep(c) \/ StopStep(c)
    \/ \E r \in Requests : (Handler(r) \/ EndStream(r)) /\ Elsewhere
    \/ \E x \in Components : EndLoop(x)
    \/ ConnectStep

\* Nobody has to call Start or Stop, to open an RPC or to broadcast.  Broadcasts
\* end, for their contexts have deadlines.  Strong fairness for the rest, as
\* broadcasts may come in between again and again: the dispatch loop's select
\* chooses its stop arm in the end, and a writer that waits for clientMutex
\* keeps new readers out.  There are finitely many such steps, so fairness to
\* all of them together is fairness to each goroutine.
Fairness == SF_vars(Progress) /\ WF_vars(EndBroadcast)

SafeSpec == Init /\ [][Next]_vars
Spec == SafeSpec /\ Fairness

-----------------------------------------------------------------------------
(* Properties.                                                             *)

Suffixes(s) == {SubSeq(s, i, Len(s)) : i \in 1..(Len(s) + 1)}

TypeOK ==
    /\ ServerTypeOK
    /\ \A c \in Callers : todo[c] \in Suffixes(StartSteps) \cup Suffixes(StopSteps)
    /\ stopChan \subseteq Components /\ stoppedChan \subseteq Components
    /\ loops \in [Components -> 0..MaxCalls]
    /\ sending \in BOOLEAN
    /\ connector \in Connector
    /\ clients \in [Addresses -> 0..dialled] /\ peers \in [Addresses -> 0..dialled]
    /\ opened \subseteq 1..dialled /\ dialled \in 0..Len(PeerAddresses)
    /\ {panicked, restarted, returned} \subseteq BOOLEAN
    /\ calls \in 0..MaxCalls /\ stops \in 0..calls /\ closed \in 0..dialled

\* One Start and then one Stop, at most, and no Start after the Stop; Starts
\* that fail, Stops that overlap the Start and repeated Starts are all right.
UsedOnce == stops <= 1 /\ ~restarted

\* However the goroutines that close channels interleave, no channel is closed
\* twice as long as the node is stopped once and not started again.
NoDoubleClose == panicked => ~UsedOnce

\* When Stop returns nothing of the node is left: no loop, no broadcast, no RPC
\* that could still change a counter, no server; and of the connections none
\* that was dialled before CloseAll ran.
QuietAfterStop ==
    returned /\ UsedOnce =>
        /\ \A x \in Components : loops[x] = 0
        /\ ~sending /\ ~running /\ ~listening /\ InProgress = {}
        /\ \A n \in opened : n > closed

\* Every open connection is one that the connection manager can still close.
ConnectionsTracked == opened = {clients[a] : a \in Addresses} \ {None}

\* While the dispatch loop sends, it sends over open connections only, except
\* to an address that is configured twice, whose second connection has closed
\* the first and is not yet offered to the dispatcher.
SendsOverOpen ==
    sending /\ UsedOnce =>
        \A a \in Addresses :
            \/ peers[a] \in opened \cup {None}
            \/ connector.at \in {"fetch", "offer"} /\ CurrentAddress = a

SomeStop == \E c \in Callers : Stopping(c)

\* A Stop that meets a Start returns, however many callers, loops, RPCs and
\* connections are busy, unless it gets wedged: only an RPC that waits for the
\* server's mutex can hold it up.
StopReturnsUnlessWedged == SomeStop /\ Connecting ~> ~SomeStop \/ Wedged \/ panicked

\* testPlan.md:1076, "TestGracefulShutdown: pending operations are completed":
\* a Stop that meets a Start returns.
StopReturns == SomeStop /\ Connecting ~> ~SomeStop \/ panicked

\* After a Start the dispatcher is given a connection to every address that can
\* be dialled, whichever others fail, unless the node is stopped meanwhile.
EveryPeerConnected ==
    \A a \in {PeerAddresses[i] : i \in Indices} \ Undialable :
        Connecting ~> peers[a] # None \/ stops > 0 \/ panicked
=============================================================================
