--------------------------- MODULE LifecycleProofs ---------------------------
(***************************************************************************)
(* What the server answers, which connections are open, what Start and     *)
(* Stop leave behind, and the types, for any number of RPCs, callers,      *)
(* calls of Start and Stop, addresses and retries.                         *)
(***************************************************************************)
EXTENDS Lifecycle, SequenceTheorems, FiniteSetTheorems, TLAPS

\* How far an RPC has come tells whether its message was applied.
Known(r) ==
    /\ rpc[r].at \in {"unborn", "lookup", "handle"} \/ (rpc[r].at = "recv" /\ rpc[r].answer = "none")
           => rpc[r].answer = "none" /\ r \notin applied
    /\ rpc[r].at = "send" => rpc[r].answer = "none" /\ (rpc[r].success <=> r \in applied)

RPCsKnown ==
    /\ rpc \in [Requests -> RPC]
    /\ \A r \in Requests : Known(r)
    /\ AnsweredTruly

\* connectToPeers is at an address of the configuration, or not in its loop.
ConnectorPlace ==
    /\ connector \in [at : {"none", "dial", "fetch", "offer", "done"}, i : Nat, try : Nat, got : Nat]
    /\ connector.at = "none" => connector.i = 1
    /\ connector.at \in {"dial", "fetch", "offer"} => connector.i \in Indices

\* No two addresses share a connection.
OwnConnections ==
    /\ dialled \in Nat
    /\ clients \in [Addresses -> 0..dialled]
    /\ \A a, b \in Addresses : a # b /\ clients[a] # None => clients[a] # clients[b]
    /\ \A a \in Undialable : clients[a] = None

Connections == ConnectorPlace /\ OwnConnections /\ ConnectionsTracked

-----------------------------------------------------------------------------
(* The server.                                                             *)

\* Start, Stop and the registrations leave the RPCs alone; only RPCStep moves one.
LEMMA OnlyRPCSteps ==
    ASSUME [Next]_vars
    PROVE  UNCHANGED <<rpc, applied>> \/ \E r \in Requests : Client(r) \/ Handler(r)
<1>1. CASE UNCHANGED vars
  BY <1>1 DEF vars, serverVars
<1>2. ASSUME NEW c \in Callers, CallStart(c) \/ CallStop(c) \/ StartStep(c)
      PROVE  UNCHANGED <<rpc, applied>>
  BY <1>2 DEF CallStart, CallStop, StartStep, StartServer, StartFails, RegisterHandler,
              SpawnConnector, SpawnLoop, Listen, Register, serverVars
<1>3. ASSUME NEW c \in Callers, StopStep(c)
      PROVE  UNCHANGED <<rpc, applied>>
  BY <1>3 DEF StopStep, LookAtChannel, LookAtFlag, CloseStopChan, Await, DrainServer,
              ListenerCloses, ServerDrained, CloseAll, BeginGracefulStop, CloseListener,
              EndGracefulStop, serverVars
<1>4. CASE ConnectStep \/ BeginBroadcast \/ EndBroadcast \/ \E x \in Components : EndLoop(x)
  BY <1>4 DEF ConnectStep, Dial, DialFails, Fetch, Offer, BeginBroadcast, EndBroadcast, EndLoop,
              serverVars
<1>5. ASSUME NEW r \in Requests, RPCStep(r)
      PROVE  Client(r) \/ Handler(r)
  BY <1>5 DEF RPCStep
<1>6. QED BY <1>1, <1>2, <1>3, <1>4, <1>5 DEF Next

LEMMA RPCStepKnown ==
    ASSUME RPCsKnown, NEW r \in Requests, Client(r) \/ Handler(r)
    PROVE  RPCsKnown'
<1>1. rpc \in [Requests -> RPC] /\ rpc[r] \in RPC
  BY DEF RPCsKnown
<1>2. PICK new \in RPC : rpc' = [rpc EXCEPT ![r] = new]
  <2>1. ASSUME NEW kind \in Kinds, Open(r, kind)
        PROVE  \E new \in RPC : rpc' = [rpc EXCEPT ![r] = new]
    <3>1. rpc' = [rpc EXCEPT ![r] = [rpc[r] EXCEPT !.kind = kind,
                                        !.at = IF kind = "update" THEN "recv" ELSE "lookup"]]
      BY <1>1, <2>1 DEF Open
    <3>2. QED BY <1>1, <3>1 DEF RPC, Stages
  <2>2. CASE Recv(r) \/ EndStream(r) \/ Lookup(r)
    BY <1>1, <2>2 DEF Recv, EndStream, Lookup, RPC, Stages
  <2>3. CASE Call(r)
    BY <1>1, <2>3 DEF Call, RPC, Stages
  <2>4. CASE Reply(r) \/ ReplyFails(r)
    BY <1>1, <2>4 DEF Reply, ReplyFails, RPC, Stages
  <2>5. QED BY <2>1, <2>2, <2>3, <2>4 DEF Client, Handler
<1>3. rpc' \in [Requests -> RPC] /\ \A s \in Requests \ {r} : rpc'[s] = rpc[s]
  BY <1>1, <1>2
<1>4. \A s \in Requests \ {r} : s \in applied' <=> s \in applied
  BY DEF Client, Handler, Open, Recv, EndStream, Lookup, Call, Reply, ReplyFails
<1>5. Known(r)' /\ (rpc'[r].answer = "yes" => r \in applied')
      /\ (rpc'[r].answer = "no" => r \notin applied')
  <2>0. Known(r) /\ (rpc[r].answer = "yes" => r \in applied) /\ (rpc[r].answer = "no" => r \notin applied)
    BY DEF RPCsKnown, AnsweredTruly
  <2>1. ASSUME NEW kind \in Kinds, Open(r, kind)
        PROVE  /\ rpc'[r].at \in {"recv", "lookup"} /\ rpc'[r].answer = rpc[r].answer
               /\ applied' = applied /\ rpc[r].at = "unborn"
    BY <1>1, <2>1 DEF Open, At, RPC
  <2>2. CASE Recv(r) \/ EndStream(r) \/ Lookup(r)
    BY <1>1, <2>0, <2>2 DEF Recv, EndStream, Lookup, At, RPC, Known
  <2>3. CASE Call(r)
    BY <1>1, <2>0, <2>3 DEF Call, At, RPC, Known
  <2>4. CASE Reply(r) \/ ReplyFails(r)
    BY <1>1, <2>0, <2>4 DEF Reply, ReplyFails, At, RPC, Known
  <2>5. QED BY <2>0, <2>1, <2>2, <2>3, <2>4 DEF Client, Handler, Known
<1>6. QED BY <1>3, <1>4, <1>5 DEF RPCsKnown, Known, AnsweredTruly

LEMMA RPCsStart == Init => RPCsKnown
BY DEF Init, ServerInit, Unborn, RPC, Stages, Kinds, RPCsKnown, Known, AnsweredTruly

LEMMA RPCsStay ==
    ASSUME RPCsKnown, [Next]_vars
    PROVE  RPCsKnown'
<1>1. CASE UNCHANGED <<rpc, applied>>
  BY <1>1 DEF RPCsKnown, Known, AnsweredTruly
<1>2. QED BY <1>1, OnlyRPCSteps, RPCStepKnown

\* What a peer is told of its update, or of its level, is what became of it
\* (grpc.go:121-203).
THEOREM AnswersAreTrue == SafeSpec => []AnsweredTruly
<1>1. Init => RPCsKnown
  BY RPCsStart
<1>2. RPCsKnown /\ [Next]_vars => RPCsKnown'
  BY RPCsStay
<1>3. RPCsKnown => AnsweredTruly
  BY DEF RPCsKnown
<1>4. QED BY <1>1, <1>2, <1>3, PTL DEF SafeSpec

-----------------------------------------------------------------------------
(* The connections.                                                        *)

LEMMA AddressesAreConfigured ==
    ASSUME ConnectorPlace, connector.at \in {"dial", "fetch", "offer"}
    PROVE  CurrentAddress \in Addresses
BY PeersAssumption DEF ConnectorPlace, CurrentAddress, Indices

LEMMA NextAddressPlace ==
    ASSUME ConnectorPlace, connector.at \in {"dial", "fetch", "offer"}, NextAddress
    PROVE  ConnectorPlace'
<1>1. connector.i \in Indices /\ Len(PeerAddresses) \in Nat
  BY PeersAssumption DEF ConnectorPlace
<1>2. connector' = [connector EXCEPT
          !.at = IF connector.i = Len(PeerAddresses) THEN "done" ELSE "dial",
          !.i = connector.i + 1, !.try = 1, !.got = None]
  BY DEF NextAddress
<1>3. connector.i # Len(PeerAddresses) => connector.i + 1 \in Indices
  BY <1>1 DEF Indices
<1>4. connector.i \in Nat /\ connector.i + 1 \in Nat
  BY DEF ConnectorPlace
<1>5. connector' \in [at : {"none", "dial", "fetch", "offer", "done"}, i : Nat, try : Nat, got : Nat]
  BY <1>2, <1>4 DEF ConnectorPlace, None
<1>6. /\ connector'.i = connector.i + 1
      /\ connector'.at = IF connector.i = Len(PeerAddresses) THEN "done" ELSE "dial"
  BY <1>2 DEF ConnectorPlace
<1>7. QED BY <1>3, <1>5, <1>6 DEF ConnectorPlace

LEMMA ConnectStepPlace ==
    ASSUME Connections, ConnectStep
    PROVE  ConnectorPlace'
<1> USE DEF Connections
<1>0. MaxRetries \in Nat
  BY MaxRetriesAssumption
<1>1. CASE Dial
  BY <1>1 DEF Dial, ConnectorAt, ConnectorPlace, Indices
<1>2. CASE DialFails
  <2>1. connector.at = "dial"
    BY <1>2 DEF DialFails, ConnectorAt
  <2>2. CASE NextAddress
    BY <2>1, <2>2, NextAddressPlace
  <2>3. CASE connector' = [connector EXCEPT !.try = connector.try + 1]
    BY <2>3 DEF ConnectorPlace, Indices
  <2>4. QED BY <1>2, <2>2, <2>3 DEF DialFails
<1>3. CASE Fetch
  <2>1. connector.at = "fetch" /\ CurrentAddress \in Addresses
    BY <1>3, AddressesAreConfigured DEF Fetch, ConnectorAt
  <2>2. clients[CurrentAddress] \in Nat
    BY <2>1 DEF OwnConnections
  <2>3. CASE NextAddress
    BY <2>1, <2>3, NextAddressPlace
  <2>4. CASE connector' = [connector EXCEPT !.at = "offer", !.got = clients[CurrentAddress]]
    BY <2>1, <2>2, <2>4 DEF ConnectorPlace, Indices
  <2>5. QED BY <1>3, <2>3, <2>4 DEF Fetch
<1>4. CASE Offer
  BY <1>4, NextAddressPlace DEF Offer, ConnectorAt
<1>5. QED BY <1>1, <1>2, <1>3, <1>4 DEF ConnectStep

\* The connection dialled takes the place of the one it closes.
LEMMA DialConnections ==
    ASSUME Connections, Dial
    PROVE  OwnConnections' /\ ConnectionsTracked'
<1> USE DEF Connections
<1> DEFINE here == CurrentAddress
<1>1. /\ here \in Addresses /\ here \notin Undialable
      /\ dialled \in Nat /\ dialled' = dialled + 1
      /\ clients \in [Addresses -> 0..dialled]
      /\ clients' = [clients EXCEPT ![here] = dialled + 1]
      /\ opened' = (opened \ {clients[here]}) \cup {dialled + 1}
  BY AddressesAreConfigured DEF Dial, ConnectorAt, OwnConnections
<1> HIDE DEF here
<1>2. /\ clients' \in [Addresses -> 0..dialled'] /\ clients'[here] = dialled + 1
      /\ \A a \in Addresses \ {here} : clients'[a] = clients[a] /\ clients[a] # dialled + 1
  BY <1>1
<1>3. Undialable \subseteq Addresses
  BY PeersAssumption
<1>4. OwnConnections'
  BY <1>1, <1>2, <1>3 DEF OwnConnections, None
<1>5. ConnectionsTracked'
  <2>1. {clients'[a] : a \in Addresses}
          = {clients[a] : a \in Addresses \ {here}} \cup {dialled + 1}
    BY <1>1, <1>2
  <2>2. {clients[a] : a \in Addresses} = {clients[a] : a \in Addresses \ {here}} \cup {clients[here]}
    BY <1>1
  <2>3. clients[here] # None => clients[here] \notin {clients[a] : a \in Addresses \ {here}}
    BY <1>1 DEF OwnConnections
  <2>4. dialled + 1 # None
    BY <1>1 DEF None
  <2>5. QED BY <1>1, <2>1, <2>2, <2>3, <2>4 DEF ConnectionsTracked
<1>6. QED BY <1>4, <1>5

LEMMA ConnectionsStep ==
    ASSUME Connections, [Next]_vars
    PROVE  Connections'
<1> USE DEF Connections
<1>1. CASE UNCHANGED <<connector, connVars>>
  BY <1>1 DEF ConnectorPlace, OwnConnections, ConnectionsTracked, connVars
<1>2. CASE Dial
  BY <1>2, DialConnections, ConnectStepPlace DEF ConnectStep
<1>3. CASE DialFails
  <2>1. CurrentAddress \in Addresses /\ clients[CurrentAddress] = None
    BY <1>3, AddressesAreConfigured DEF DialFails, ConnectorAt, OwnConnections
  <2>2. UNCHANGED connVars
    BY <1>3, <2>1 DEF DialFails, ConnectionsTracked, connVars
  <2>3. QED
    BY <1>3, <2>2, ConnectStepPlace
       DEF ConnectStep, OwnConnections, ConnectionsTracked, connVars
<1>4. CASE Fetch \/ Offer
  <2>1. UNCHANGED connVars
    BY <1>4 DEF Fetch, Offer
  <2>2. QED
    BY <1>4, <2>1, ConnectStepPlace
       DEF ConnectStep, OwnConnections, ConnectionsTracked, connVars
<1>5. ASSUME NEW c \in Callers, CloseAll(c)
      PROVE  Connections'
  <2>1. /\ UNCHANGED <<connector, dialled>> /\ opened' = {}
        /\ clients' = [a \in Addresses |-> None]
    BY <1>5 DEF CloseAll, ConnectionsTracked
  <2>2. OwnConnections' /\ ConnectorPlace'
    BY <2>1, PeersAssumption DEF OwnConnections, ConnectorPlace, None
  <2>3. ConnectionsTracked'
    BY <2>1 DEF ConnectionsTracked
  <2>4. QED BY <2>2, <2>3
<1>6. ASSUME NEW c \in Callers, SpawnConnector(c)
      PROVE  Connections'
  <2>1. UNCHANGED connVars
    BY <1>6 DEF SpawnConnector
  <2>2. CASE Connecting
    BY <1>1, <1>6, <2>1, <2>2 DEF SpawnConnector
  <2>3. CASE ~Connecting
    <3>1. connector.i = 1 /\ (Indices # {} => 1 \in Indices)
      BY <2>3, PeersAssumption DEF Connecting, ConnectorPlace, Indices
    <3>2. connector' = [connector EXCEPT !.at = IF Indices = {} THEN "done" ELSE "dial"]
      BY <1>6, <2>3 DEF SpawnConnector
    <3>3. ConnectorPlace'
      BY <3>1, <3>2 DEF ConnectorPlace, Indices
    <3>4. QED BY <2>1, <3>3 DEF OwnConnections, ConnectionsTracked, connVars
  <2>4. QED BY <2>2, <2>3
<1>7. ASSUME NEW c \in Callers,
             CallStart(c) \/ CallStop(c) \/ (StartStep(c) /\ ~SpawnConnector(c))
               \/ (StopStep(c) /\ ~CloseAll(c))
      PROVE  UNCHANGED <<connector, connVars>>
  BY <1>7 DEF CallStart, CallStop, StartStep, StartServer, StartFails, RegisterHandler, SpawnLoop,
              StopStep, LookAtChannel, LookAtFlag, CloseStopChan, Await, DrainServer,
              ListenerCloses, ServerDrained, connVars
<1>8. CASE \/ BeginBroadcast \/ EndBroadcast
           \/ \E x \in Components : EndLoop(x)
           \/ \E r \in Requests : RPCStep(r)
  BY <1>1, <1>8 DEF BeginBroadcast, EndBroadcast, EndLoop, RPCStep, Elsewhere
<1>9. CASE UNCHANGED vars
  BY <1>1, <1>9 DEF vars
<1>10. QED
  BY <1>1, <1>2, <1>3, <1>4, <1>5, <1>6, <1>7, <1>8, <1>9 DEF Next, ConnectStep

LEMMA ConnectionsStart == Init => Connections
BY PeersAssumption
   DEF Init, Connections, ConnectorPlace, OwnConnections, ConnectionsTracked, None

\* No connection is ever left open that CloseAll, or dialling the address
\* again, would not close (grpc.go:206-270, ac.go:400-435).
THEOREM NoConnectionLost == SafeSpec => []ConnectionsTracked
<1>1. Init => Connections
  BY ConnectionsStart
<1>2. Connections /\ [Next]_vars => Connections'
  BY ConnectionsStep
<1>3. Connections => ConnectionsTracked
  BY DEF Connections
<1>4. QED BY <1>1, <1>2, <1>3, PTL DEF SafeSpec

-----------------------------------------------------------------------------
(* The order of Start and Stop.                                            *)

Instructions == {StartSteps[i] : i \in 1..8} \cup {StopSteps[i] : i \in 1..14}

\* What is left of a program from its k-th step on.
From(program, k) == SubSeq(program, k, Len(program))

\* The position in Stop, or in Start, of a caller with these steps before it;
\* 0 if it is not there.
StopAt(s) == IF s # <<>> /\ s[Len(s)] = <<"wait", "manager">> THEN 15 - Len(s) ELSE 0
StartAt(s) == IF s # <<>> /\ s[Len(s)] # <<"wait", "manager">> THEN 9 - Len(s) ELSE 0

StopPos == [c \in Callers |-> StopAt(todo[c])]
StartPos == [c \in Callers |-> StartAt(todo[c])]

Programs ==
    /\ todo = [c \in Callers |-> todo[c]]
    /\ \A c \in Callers :
          \/ todo[c] = <<>>
          \/ \E k \in 1..8 : todo[c] = From(StartSteps, k)
          \/ \E k \in 1..14 : todo[c] = From(StopSteps, k)

\* Where the programs deal with each component.
LoopPos == [dispatcher |-> 5, pi |-> 6, oca |-> 7, manager |-> 8]
ClosePos == [manager |-> 1, oca |-> 3, pi |-> 6, dispatcher |-> 9]
WaitPos == [oca |-> 4, pi |-> 7, dispatcher |-> 10, manager |-> 14]

\* The Stop has done its k-th step.
Past(k) == stops > 0 /\ \A c \in Callers : StopPos[c] = 0 \/ StopPos[c] > k

Stopped(x) == x \in stoppedChan

OneStop ==
    \A c \in Callers : StopPos[c] # 0 =>
        stops > 0 /\ \A d \in Callers \ {c} : StopPos[d] = 0

\* A Start that listens has the node to itself until its loops run.
OneStart ==
    /\ \A c \in Callers : StartPos[c] > 1 =>
          /\ \A d \in Callers \ {c} : StartPos[d] <= 1
          /\ running \/ Past(12)
          /\ \A x \in Components : LoopPos[x] >= StartPos[c] => loops[x] = 0 /\ ~Stopped(x)
          /\ StartPos[c] > 4 => Connecting
    /\ Connecting => running \/ Past(12)
    /\ \A x \in Components : loops[x] > 0 \/ Stopped(x) => Connecting

\* The channels follow the Stop.
Channels ==
    /\ loops \in [Components -> {0, 1}]
    /\ \A x \in stopChan : x \in Components /\ Past(ClosePos[x])
    /\ \A x \in Components : Stopped(x) => loops[x] = 0
    /\ \A x \in Components : Past(WaitPos[x]) => Stopped(x)
    /\ returned => Past(14)
    /\ sending => loops["dispatcher"] = 1

\* The server goes down between the steps 11 and 13.
ServerDown ==
    /\ Past(12) => ~running
    /\ draining \/ listening => running
    /\ ~running => InProgress = {}

\* Until CloseAll, the dispatcher has the connections of the connection manager,
\* but for one that is being replaced.
PeersFollow ==
    /\ ~Past(13) =>
        /\ \A a \in Addresses :
              \/ peers[a] \in {None, clients[a]}
              \/ connector.at \in {"fetch", "offer"} /\ CurrentAddress = a
        /\ connector.at = "fetch" => clients[CurrentAddress] # None
        /\ connector.at = "offer" => connector.got = clients[CurrentAddress]
    /\ Past(13) => \A n \in opened : n > closed
    /\ closed \in 0..dialled /\ peers \in [Addresses -> Nat]

Orderly ==
    /\ ~panicked
    /\ OneStop /\ OneStart /\ Channels /\ ServerDown /\ PeersFollow

OrderInv == stops \in Nat /\ Programs /\ (UsedOnce => Orderly)

LEMMA StartProgram ==
    /\ StartSteps \in Seq(Instructions) /\ Len(StartSteps) = 8
    /\ StartSteps[1] = <<"listen", "server">>
    /\ StartSteps[2] = <<"register", "update">> /\ StartSteps[3] = <<"register", "level">>
    /\ StartSteps[4] = <<"connect", "peers">> /\ StartSteps[5] = <<"loop", "dispatcher">>
    /\ StartSteps[6] = <<"loop", "pi">> /\ StartSteps[7] = <<"loop", "oca">>
    /\ StartSteps[8] = <<"loop", "manager">>
<1>1. Len(StartSteps) = 8 /\ DOMAIN StartSteps = 1..8
  BY DEF StartSteps
<1>2. \A i \in 1..8 : StartSteps[i] \in Instructions
  BY DEF Instructions
<1>3. StartSteps \in Seq(Instructions)
  BY <1>1, <1>2 DEF StartSteps
<1>4. QED BY <1>1, <1>3 DEF StartSteps

LEMMA StopProgram ==
    /\ StopSteps \in Seq(Instructions) /\ Len(StopSteps) = 14
    /\ StopSteps[1] = <<"close", "manager">>
    /\ StopSteps[2] = <<"look", "oca">> /\ StopSteps[3] = <<"close", "oca">>
    /\ StopSteps[4] = <<"wait", "oca">>
    /\ StopSteps[5] = <<"look", "pi">> /\ StopSteps[6] = <<"close", "pi">>
    /\ StopSteps[7] = <<"wait", "pi">>
    /\ StopSteps[8] = <<"look", "dispatcher">> /\ StopSteps[9] = <<"close", "dispatcher">>
    /\ StopSteps[10] = <<"wait", "dispatcher">>
    /\ StopSteps[11] = <<"drain", "server">> /\ StopSteps[12] = <<"drained", "server">>
    /\ StopSteps[13] = <<"closeAll", "connections">> /\ StopSteps[14] = <<"wait", "manager">>
<1>1. Len(StopSteps) = 14 /\ DOMAIN StopSteps = 1..14
  BY DEF StopSteps
<1>2. \A i \in 1..14 : StopSteps[i] \in Instructions
  BY DEF Instructions
<1>3. StopSteps \in Seq(Instructions)
  BY <1>1, <1>2 DEF StopSteps
<1>4. QED BY <1>1, <1>3 DEF StopSteps

\* What one step, or a skip of n steps, leaves of a program.
LEMMA FromStep ==
    ASSUME NEW program \in Seq(Instructions), NEW k \in 1..Len(program)
    PROVE  LET s == From(program, k)
           IN  /\ s # <<>> /\ Len(s) = Len(program) - k + 1
               /\ Head(s) = program[k] /\ s[Len(s)] = program[Len(program)]
               /\ Tail(s) = IF k = Len(program) THEN <<>> ELSE From(program, k + 1)
               /\ \A n \in 1..Len(program) - k : SubSeq(s, n + 1, Len(s)) = From(program, k + n)
<1> DEFINE s == From(program, k)
<1>1. Len(program) \in Nat /\ \A i \in k..Len(program) : program[i] \in Instructions
  OBVIOUS
<1>2. /\ s \in Seq(Instructions) /\ Len(s) = Len(program) - k + 1
      /\ \A i \in 1..Len(s) : s[i] = program[k + i - 1]
  BY <1>1, SubSeqProperties DEF From
<1>3. s # <<>> /\ s[Len(s)] = program[Len(program)]
  BY <1>1, <1>2
<1>4. Head(s) = program[k] /\ Tail(s) = SubSeq(program, k + 1, Len(program))
  BY <1>1, HeadTailOfSubSeq DEF From
<1>5. k = Len(program) => SubSeq(program, k + 1, Len(program)) = <<>>
  BY <1>1, SubSeqEmpty
<1>6. ASSUME NEW n \in 1..Len(program) - k
      PROVE  SubSeq(s, n + 1, Len(s)) = From(program, k + n)
  <2>1. /\ n + 1 \in 1..(Len(program) - k + 1) /\ Len(s) \in 1..(Len(program) - k + 1)
        /\ k + (n + 1) - 1 = k + n /\ k + Len(s) - 1 = Len(program)
    BY <1>1, <1>2
  <2>2. SubSeq(SubSeq(program, k, Len(program)), n + 1, Len(s))
           = SubSeq(program, k + (n + 1) - 1, k + Len(s) - 1)
    BY <1>1, <2>1, SubSeqOfSubSeq
  <2>3. QED BY <2>1, <2>2 DEF From
<1>7. QED BY <1>2, <1>3, <1>4, <1>5, <1>6 DEF From

\* The same of each of the two programs.
LEMMA StartFrom ==
    ASSUME NEW k \in 1..8
    PROVE  LET s == From(StartSteps, k)
           IN  /\ s # <<>> /\ Head(s) = StartSteps[k]
               /\ StartAt(s) = k /\ StopAt(s) = 0
               /\ Tail(s) = IF k = 8 THEN <<>> ELSE From(StartSteps, k + 1)
<1> DEFINE s == From(StartSteps, k)
<1>1. /\ StartSteps \in Seq(Instructions) /\ Len(StartSteps) = 8
      /\ StartSteps[8] = <<"loop", "manager">>
  BY StartProgram
<1>2. k \in 1..Len(StartSteps)
  BY <1>1
<1>3. /\ s # <<>> /\ Len(s) = Len(StartSteps) - k + 1
      /\ Head(s) = StartSteps[k] /\ s[Len(s)] = StartSteps[Len(StartSteps)]
      /\ Tail(s) = IF k = Len(StartSteps) THEN <<>> ELSE From(StartSteps, k + 1)
  BY <1>1, <1>2, FromStep
<1> HIDE DEF s
<1>4. Len(s) = 9 - k /\ s[Len(s)] = <<"loop", "manager">>
  BY <1>1, <1>3
<1>5. <<"loop", "manager">> # <<"wait", "manager">>
  OBVIOUS
<1>6. s[Len(s)] # <<"wait", "manager">>
  BY <1>4, <1>5
<1>7. StartAt(s) = 9 - Len(s) /\ StopAt(s) = 0
  BY <1>3, <1>6 DEF StartAt, StopAt
<1>8. Tail(s) = IF k = 8 THEN <<>> ELSE From(StartSteps, k + 1)
  BY <1>1, <1>3
<1>9. StartAt(s) = k
  BY <1>4, <1>7
<1>10. QED BY <1>3, <1>7, <1>8, <1>9 DEF s

LEMMA StopFrom ==
    ASSUME NEW k \in 1..14
    PROVE  LET s == From(StopSteps, k)
           IN  /\ s # <<>> /\ Head(s) = StopSteps[k]
               /\ StopAt(s) = k /\ StartAt(s) = 0
               /\ Tail(s) = IF k = 14 THEN <<>> ELSE From(StopSteps, k + 1)
               /\ \A n \in 1..(14 - k) : SubSeq(s, n + 1, Len(s)) = From(StopSteps, k + n)
<1> DEFINE s == From(StopSteps, k)
<1>1. /\ StopSteps \in Seq(Instructions) /\ Len(StopSteps) = 14
      /\ StopSteps[14] = <<"wait", "manager">>
  BY StopProgram
<1>2. k \in 1..Len(StopSteps)
  BY <1>1
<1>3. /\ s # <<>> /\ Len(s) = Len(StopSteps) - k + 1
      /\ Head(s) = StopSteps[k] /\ s[Len(s)] = StopSteps[Len(StopSteps)]
      /\ Tail(s) = IF k = Len(StopSteps) THEN <<>> ELSE From(StopSteps, k + 1)
      /\ \A n \in 1..Len(StopSteps) - k : SubSeq(s, n + 1, Len(s)) = From(StopSteps, k + n)
  BY <1>1, <1>2, FromStep
<1> HIDE DEF s
<1>4. Len(s) = 15 - k /\ s[Len(s)] = <<"wait", "manager">>
  BY <1>1, <1>3
<1>5. StopAt(s) = 15 - Len(s) /\ StartAt(s) = 0
  BY <1>3, <1>4 DEF StartAt, StopAt
<1>6. StopAt(s) = k
  BY <1>4, <1>5
<1>7. /\ Tail(s) = IF k = 14 THEN <<>> ELSE From(StopSteps, k + 1)
      /\ \A n \in 1..(14 - k) : SubSeq(s, n + 1, Len(s)) = From(StopSteps, k + n)
  BY <1>1, <1>3
<1>8. QED BY <1>3, <1>5, <1>6, <1>7 DEF s

LEMMA Placed ==
    ASSUME Programs, NEW c \in Callers
    PROVE  \/ todo[c] = <<>> /\ StopPos[c] = 0 /\ StartPos[c] = 0
           \/ StartPos[c] \in 1..8 /\ StopPos[c] = 0 /\ todo[c] = From(StartSteps, StartPos[c])
           \/ StopPos[c] \in 1..14 /\ StartPos[c] = 0 /\ todo[c] = From(StopSteps, StopPos[c])
<1>1. StopPos[c] = StopAt(todo[c]) /\ StartPos[c] = StartAt(todo[c])
  BY DEF StopPos, StartPos
<1>2. CASE todo[c] = <<>>
  BY <1>1, <1>2 DEF StopAt, StartAt
<1>3. ASSUME NEW k \in 1..8, todo[c] = From(StartSteps, k)
      PROVE  StartPos[c] = k /\ StopPos[c] = 0
  BY <1>1, <1>3, StartFrom
<1>4. ASSUME NEW k \in 1..14, todo[c] = From(StopSteps, k)
      PROVE  StopPos[c] = k /\ StartPos[c] = 0
  BY <1>1, <1>4, StopFrom
<1>5. QED BY <1>2, <1>3, <1>4 DEF Programs

\* Where in Start and Stop each instruction is.
LEMMA WhereInStart ==
    ASSUME NEW k \in 1..8, NEW step, NEW what, StartSteps[k] = <<step, what>>
    PROVE  /\ step \in {"listen", "register", "connect", "loop"}
           /\ step = "listen" => k = 1
           /\ step = "register" => k \in {2, 3}
           /\ step = "connect" => k = 4
           /\ step = "loop" => what \in Components /\ k = LoopPos[what]
<1>1. k \in {1, 2, 3, 4, 5, 6, 7, 8}
  OBVIOUS
<1>2. \A s, w, t, v : <<s, w>> = <<t, v>> => s = t /\ w = v
  OBVIOUS
<1>3. QED BY <1>1, <1>2, StartProgram DEF Components, LoopPos

LEMMA WhereInStop ==
    ASSUME NEW k \in 1..14, NEW step, NEW what, StopSteps[k] = <<step, what>>
    PROVE  /\ step \in {"close", "look", "wait", "drain", "drained", "closeAll"}
           /\ step = "close" => what \in Components /\ k = ClosePos[what]
           /\ step = "look" => what \in Components \ {"manager"} /\ k = ClosePos[what] - 1
           /\ step = "wait" => what \in Components /\ k = WaitPos[what]
           /\ step = "drain" => k = 11
           /\ step = "drained" => k = 12
           /\ step = "closeAll" => k = 13
<1>1. k \in {1, 2, 3, 4, 5, 6, 7, 8, 9, 10, 11, 12, 13, 14}
  OBVIOUS
<1>2. \A s, w, t, v : <<s, w>> = <<t, v>> => s = t /\ w = v
  OBVIOUS
<1>3. QED BY <1>1, <1>2, StopProgram DEF Components, ClosePos, WaitPos

\* A caller that goes on with a part of a program is there, the others stay.
LEMMA Moves ==
    ASSUME Programs, NEW c \in Callers, NEW rest, Goes(c, rest),
           \/ rest = <<>>
           \/ \E k \in 1..8 : rest = From(StartSteps, k)
           \/ \E k \in 1..14 : rest = From(StopSteps, k)
    PROVE  /\ Programs'
           /\ StopPos' = [StopPos EXCEPT ![c] = StopAt(rest)]
           /\ StartPos' = [StartPos EXCEPT ![c] = StartAt(rest)]
<1>1. todo' = [todo EXCEPT ![c] = rest] /\ todo = [d \in Callers |-> todo[d]]
  BY DEF Goes, Programs
<1>2. todo' = [d \in Callers |-> IF d = c THEN rest ELSE todo[d]]
  BY <1>1
<1>3. todo'[c] = rest /\ \A d \in Callers \ {c} : todo'[d] = todo[d]
  BY <1>2
<1>4. todo' = [d \in Callers |-> todo'[d]]
  BY <1>2
<1>5. \A d \in Callers : \/ todo'[d] = <<>>
                         \/ \E k \in 1..8 : todo'[d] = From(StartSteps, k)
                         \/ \E k \in 1..14 : todo'[d] = From(StopSteps, k)
  BY <1>3 DEF Programs
<1>6. Programs'
  BY <1>4, <1>5 DEF Programs
<1>7. StopPos' = [d \in Callers |-> IF d = c THEN StopAt(rest) ELSE StopAt(todo[d])]
  BY <1>3 DEF StopPos
<1>8. StartPos' = [d \in Callers |-> IF d = c THEN StartAt(rest) ELSE StartAt(todo[d])]
  BY <1>3 DEF StartPos
<1>9. QED BY <1>6, <1>7, <1>8 DEF StopPos, StartPos

LEMMA Returns ==
    ASSUME Programs, NEW c \in Callers, Goes(c, <<>>)
    PROVE  /\ Programs'
           /\ StopPos' = [StopPos EXCEPT ![c] = 0] /\ StartPos' = [StartPos EXCEPT ![c] = 0]
<1>1. StopAt(<<>>) = 0 /\ StartAt(<<>>) = 0
  BY DEF StopAt, StartAt
<1>2. QED BY <1>1, Moves

\* A caller that does something is where its program says so.
LEMMA StartMoves ==
    ASSUME Programs, NEW c \in Callers, NEW step \in {"listen", "register", "connect", "loop"},
           NEW what, Doing(c, step, what)
    PROVE  /\ StartPos[c] \in 1..8 /\ StopPos[c] = 0
           /\ StartSteps[StartPos[c]] = <<step, what>>
           /\ Proceeds(c) =>
                 /\ Programs' /\ StopPos' = StopPos
                 /\ StartPos' = [StartPos EXCEPT ![c] = IF StartPos[c] = 8 THEN 0 ELSE StartPos[c] + 1]
<1>1. todo[c] # <<>> /\ Head(todo[c]) = <<step, what>>
  BY DEF Doing
<1>2. CASE StopPos[c] \in 1..14 /\ todo[c] = From(StopSteps, StopPos[c])
  <2>1. StopSteps[StopPos[c]] = <<step, what>>
    BY <1>1, <1>2, StopFrom
  <2>2. step \in {"close", "look", "wait", "drain", "drained", "closeAll"}
    BY <1>2, <2>1, WhereInStop
  <2>3. QED BY <2>2
<1>3. CASE StartPos[c] \in 1..8 /\ StopPos[c] = 0 /\ todo[c] = From(StartSteps, StartPos[c])
  <2> DEFINE k == StartPos[c]
  <2>1. StartSteps[k] = <<step, what>>
    BY <1>1, <1>3, StartFrom
  <2>2. ASSUME Proceeds(c)
        PROVE  /\ Programs' /\ StopPos' = StopPos
               /\ StartPos' = [StartPos EXCEPT ![c] = IF k = 8 THEN 0 ELSE k + 1]
    <3> HIDE DEF k
    <3>1. k \in 1..8 /\ Goes(c, IF k = 8 THEN <<>> ELSE From(StartSteps, k + 1))
      <4>1. k \in 1..8 /\ todo[c] = From(StartSteps, k)
        BY <1>3 DEF k
      <4>2. Tail(From(StartSteps, k)) = IF k = 8 THEN <<>> ELSE From(StartSteps, k + 1)
        BY <4>1, StartFrom
      <4>3. Goes(c, Tail(todo[c]))
        BY <2>2 DEF Proceeds
      <4>4. QED BY <4>1, <4>2, <4>3, Zenon
    <3>2. StopPos = [StopPos EXCEPT ![c] = 0]
      BY <1>3 DEF StopPos
    <3>3. CASE k = 8
      BY <3>1, <3>2, <3>3, Returns
    <3>4. CASE k # 8
      <4>1. k + 1 \in 1..8 /\ Goes(c, From(StartSteps, k + 1))
        BY <3>1, <3>4
      <4>2. StartAt(From(StartSteps, k + 1)) = k + 1 /\ StopAt(From(StartSteps, k + 1)) = 0
        BY <4>1, StartFrom
      <4>3. /\ Programs'
            /\ StopPos' = [StopPos EXCEPT ![c] = StopAt(From(StartSteps, k + 1))]
            /\ StartPos' = [StartPos EXCEPT ![c] = StartAt(From(StartSteps, k + 1))]
        BY <4>1, Moves
      <4>4. QED BY <3>2, <3>4, <4>2, <4>3
    <3>5. QED BY <3>3, <3>4
  <2>3. QED BY <1>3, <2>1, <2>2
<1>4. QED BY <1>1, <1>2, <1>3, Placed

LEMMA StopMoves ==
    ASSUME Programs, NEW c \in Callers,
           NEW step \in {"close", "look", "wait", "drain", "drained", "closeAll"},
           NEW what, Doing(c, step, what)
    PROVE  /\ StopPos[c] \in 1..14 /\ StartPos[c] = 0
           /\ StopSteps[StopPos[c]] = <<step, what>>
           /\ Proceeds(c) =>
                 /\ Programs' /\ StartPos' = StartPos
                 /\ StopPos' = [StopPos EXCEPT ![c] = IF StopPos[c] = 14 THEN 0 ELSE StopPos[c] + 1]
           /\ \A n \in 1..(14 - StopPos[c]) : Skips(c, n) =>
                 /\ Programs' /\ StartPos' = StartPos
                 /\ StopPos' = [StopPos EXCEPT ![c] = StopPos[c] + n]
<1>1. todo[c] # <<>> /\ Head(todo[c]) = <<step, what>>
  BY DEF Doing
<1>2. CASE StartPos[c] \in 1..8 /\ todo[c] = From(StartSteps, StartPos[c])
  <2>1. StartSteps[StartPos[c]] = <<step, what>>
    BY <1>1, <1>2, StartFrom
  <2>2. step \in {"listen", "register", "connect", "loop"}
    BY <1>2, <2>1, WhereInStart
  <2>3. QED BY <2>2
<1>3. CASE StopPos[c] \in 1..14 /\ StartPos[c] = 0 /\ todo[c] = From(StopSteps, StopPos[c])
  <2> DEFINE k == StopPos[c]
  <2>1. StopSteps[k] = <<step, what>>
    BY <1>1, <1>3, StopFrom
  <2>2. StartPos = [StartPos EXCEPT ![c] = 0]
    BY <1>3 DEF StartPos
  <2>3. ASSUME NEW n \in 1..(14 - k), Goes(c, From(StopSteps, k + n))
        PROVE  /\ Programs' /\ StartPos' = StartPos /\ StopPos' = [StopPos EXCEPT ![c] = k + n]
    <3> HIDE DEF k
    <3>1. k + n \in 1..14
      BY <1>3 DEF k
    <3>2. StopAt(From(StopSteps, k + n)) = k + n /\ StartAt(From(StopSteps, k + n)) = 0
      BY <3>1, StopFrom
    <3>3. /\ Programs'
          /\ StopPos' = [StopPos EXCEPT ![c] = StopAt(From(StopSteps, k + n))]
          /\ StartPos' = [StartPos EXCEPT ![c] = StartAt(From(StopSteps, k + n))]
      BY <2>3, <3>1, Moves
    <3>4. QED BY <2>2, <3>2, <3>3
  <2>4. ASSUME Proceeds(c)
        PROVE  /\ Programs' /\ StartPos' = StartPos
               /\ StopPos' = [StopPos EXCEPT ![c] = IF k = 14 THEN 0 ELSE k + 1]
    <3> HIDE DEF k
    <3>1. k \in 1..14 /\ Goes(c, IF k = 14 THEN <<>> ELSE From(StopSteps, k + 1))
      <4>1. k \in 1..14 /\ todo[c] = From(StopSteps, k)
        BY <1>3 DEF k
      <4>2. Tail(From(StopSteps, k)) = IF k = 14 THEN <<>> ELSE From(StopSteps, k + 1)
        BY <4>1, StopFrom
      <4>3. Goes(c, Tail(todo[c]))
        BY <2>4 DEF Proceeds
      <4>4. QED BY <4>1, <4>2, <4>3, Zenon
    <3>2. CASE k = 14
      BY <2>2, <3>1, <3>2, Returns
    <3>3. CASE k # 14
      <4>1. 1 \in 1..(14 - k) /\ Goes(c, From(StopSteps, k + 1))
        BY <3>1, <3>3
      <4>2. QED BY <2>3, <3>3, <4>1
    <3>4. QED BY <3>2, <3>3
  <2>5. ASSUME NEW n \in 1..(14 - k), Skips(c, n)
        PROVE  Goes(c, From(StopSteps, k + n))
    <3> HIDE DEF k
    <3>1. k \in 1..14 /\ todo[c] = From(StopSteps, k)
      BY <1>3 DEF k
    <3>2. SubSeq(From(StopSteps, k), n + 1, Len(From(StopSteps, k))) = From(StopSteps, k + n)
      BY <3>1, StopFrom
    <3>3. Goes(c, SubSeq(todo[c], n + 1, Len(todo[c])))
      BY <2>5 DEF Skips
    <3>4. QED BY <3>1, <3>2, <3>3, Zenon
  <2>6. QED BY <1>3, <2>1, <2>3, <2>4, <2>5
<1>4. QED BY <1>1, <1>2, <1>3, Placed

\* A call begins at the first step.
LEMMA Begins ==
    ASSUME Programs, NEW c \in Callers, todo[c] = <<>>
    PROVE  /\ StopPos[c] = 0 /\ StartPos[c] = 0
           /\ Goes(c, StartSteps) =>
                 Programs' /\ StopPos' = StopPos /\ StartPos' = [StartPos EXCEPT ![c] = 1]
           /\ Goes(c, StopSteps) =>
                 Programs' /\ StartPos' = StartPos /\ StopPos' = [StopPos EXCEPT ![c] = 1]
<1>1. StopPos[c] = 0 /\ StartPos[c] = 0
  BY DEF StopPos, StartPos, StopAt, StartAt
<1>2. StopPos = [StopPos EXCEPT ![c] = 0] /\ StartPos = [StartPos EXCEPT ![c] = 0]
  BY <1>1 DEF StopPos, StartPos
<1>3. From(StartSteps, 1) = StartSteps /\ From(StopSteps, 1) = StopSteps
  BY StartProgram, StopProgram, SubSeqFull DEF From
<1>4. /\ StartAt(StartSteps) = 1 /\ StopAt(StartSteps) = 0
      /\ StopAt(StopSteps) = 1 /\ StartAt(StopSteps) = 0
  <2>1. 1 \in 1..8 /\ 1 \in 1..14
    OBVIOUS
  <2>2. StartAt(From(StartSteps, 1)) = 1 /\ StopAt(From(StartSteps, 1)) = 0
    BY <2>1, StartFrom
  <2>3. StopAt(From(StopSteps, 1)) = 1 /\ StartAt(From(StopSteps, 1)) = 0
    BY <2>1, StopFrom
  <2>4. QED BY <1>3, <2>2, <2>3
<1>5. ASSUME Goes(c, StartSteps)
      PROVE  Programs' /\ StopPos' = StopPos /\ StartPos' = [StartPos EXCEPT ![c] = 1]
  <2>1. \E k \in 1..8 : StartSteps = From(StartSteps, k)
    BY <1>3
  <2>2. /\ Programs' /\ StopPos' = [StopPos EXCEPT ![c] = StopAt(StartSteps)]
        /\ StartPos' = [StartPos EXCEPT ![c] = StartAt(StartSteps)]
    BY <1>5, <2>1, Moves
  <2>3. QED BY <1>2, <1>4, <2>2
<1>6. ASSUME Goes(c, StopSteps)
      PROVE  Programs' /\ StartPos' = StartPos /\ StopPos' = [StopPos EXCEPT ![c] = 1]
  <2>1. \E k \in 1..14 : StopSteps = From(StopSteps, k)
    BY <1>3
  <2>2. /\ Programs' /\ StopPos' = [StopPos EXCEPT ![c] = StopAt(StopSteps)]
        /\ StartPos' = [StartPos EXCEPT ![c] = StartAt(StopSteps)]
    BY <1>6, <2>1, Moves
  <2>3. QED BY <1>2, <1>4, <2>2
<1>7. QED BY <1>1, <1>5, <1>6

LEMMA PositionTypes ==
    ASSUME Programs
    PROVE  StopPos \in [Callers -> 0..14] /\ StartPos \in [Callers -> 0..8]
<1>1. \A c \in Callers : StopPos[c] \in 0..14 /\ StartPos[c] \in 0..8
  BY Placed
<1>2. StopPos = [c \in Callers |-> StopPos[c]] /\ StartPos = [c \in Callers |-> StartPos[c]]
  BY DEF StopPos, StartPos
<1>3. QED BY <1>1, <1>2

-----------------------------------------------------------------------------
(* Nothing but its own steps moves what the order is about.                *)

\* What a step needs to know besides the order.
Ready == Programs /\ stops \in Nat /\ Connections /\ Orderly

StayPut == StopPos' = StopPos /\ StartPos' = StartPos /\ stops' = stops

LEMMA Staying ==
    ASSUME todo' = todo
    PROVE  StopPos' = StopPos /\ StartPos' = StartPos /\ (Programs => Programs')
BY DEF StopPos, StartPos, Programs

\* The one Stop that is under way tells what is past.
LEMMA PastMoves ==
    ASSUME Programs, stops \in Nat, OneStop, NEW c \in Callers, NEW n \in 1..2,
           StopPos[c] \in 1..14, StopPos[c] + n <= 15, stops' = stops,
           NEW next, next = IF StopPos[c] + n = 15 THEN 0 ELSE StopPos[c] + n,
           StopPos' = [StopPos EXCEPT ![c] = next]
    PROVE  /\ OneStop'
           /\ \A k \in 1..14 : Past(k) <=> k < StopPos[c]
           /\ \A k \in 1..14 : Past(k)' <=> k < StopPos[c] + n
<1>1. StopPos \in [Callers -> 0..14]
  BY PositionTypes
<1>2. \A d \in Callers \ {c} : StopPos[d] = 0 /\ StopPos'[d] = 0
  BY <1>1 DEF OneStop
<1>3. StopPos'[c] = IF StopPos[c] + n = 15 THEN 0 ELSE StopPos[c] + n
  BY <1>1
<1>4. stops > 0
  BY DEF OneStop
<1>5. OneStop'
  BY <1>2, <1>3, <1>4 DEF OneStop
<1>6. ASSUME NEW k \in 1..14 PROVE Past(k) <=> k < StopPos[c]
  BY <1>2, <1>4 DEF Past
<1>7. ASSUME NEW k \in 1..14 PROVE Past(k)' <=> k < StopPos[c] + n
  BY <1>2, <1>3, <1>4 DEF Past
<1>8. QED BY <1>5, <1>6, <1>7

LEMMA Positions ==
    /\ LoopPos["dispatcher"] = 5 /\ LoopPos["pi"] = 6 /\ LoopPos["oca"] = 7 /\ LoopPos["manager"] = 8
    /\ \A x \in Components : LoopPos[x] \in 5..8 /\ ClosePos[x] \in 1..9 /\ WaitPos[x] \in 4..14
    /\ \A x, y \in Components : x # y => LoopPos[x] # LoopPos[y] /\ WaitPos[x] # WaitPos[y]
    /\ \A x \in Components : x # "manager" => WaitPos[x] = ClosePos[x] + 1 /\ WaitPos[x] < 12
    /\ \A x \in Components : ClosePos[x] < WaitPos[x]
    /\ ClosePos["manager"] = 1 /\ WaitPos["manager"] = 14 /\ WaitPos["dispatcher"] = 10
    /\ \A x \in Components : WaitPos[x] \in {4, 7, 10, 14} /\ ClosePos[x] \in {1, 3, 6, 9}
BY DEF LoopPos, ClosePos, WaitPos, Components

\* The four parts, when what they are about stays as it is.
LEMMA StartsKept ==
    ASSUME OneStart, StayPut, UNCHANGED <<running, loops, stoppedChan>>,
           connector'.at = "none" <=> connector.at = "none"
    PROVE  OneStart'
BY DEF OneStart, StayPut, Past, Connecting, Stopped

LEMMA ChannelsKept ==
    ASSUME Channels, StopPos' = StopPos, stops' = stops, UNCHANGED <<chanVars, sending, returned>>
    PROVE  Channels'
BY DEF Channels, Past, Stopped, chanVars

LEMMA ServerKept ==
    ASSUME ServerDown, StopPos' = StopPos, stops' = stops, UNCHANGED serverVars
    PROVE  ServerDown'
BY DEF ServerDown, Past, serverVars, InProgress

LEMMA PeersKept ==
    ASSUME PeersFollow, StopPos' = StopPos, stops' = stops,
           UNCHANGED <<connector, connVars, peers, closed>>
    PROVE  PeersFollow'
BY DEF PeersFollow, Past, CurrentAddress, connVars

-----------------------------------------------------------------------------
(* The steps that leave the callers where they are.                        *)

LEMMA LoopsEnd ==
    ASSUME Ready, NEW x \in Components, EndLoop(x)
    PROVE  Programs' /\ Orderly'
<1> USE DEF Ready, Orderly
<1>1. /\ StayPut /\ Programs' /\ OneStop' /\ x \in stopChan /\ (x = "dispatcher" => ~sending)
      /\ loops' = [loops EXCEPT ![x] = loops[x] - 1] /\ stoppedChan' = stoppedChan \cup {x}
      /\ loops[x] > 0 /\ UNCHANGED <<serverVars, stopChan, sending, connector, connVars, peers,
                                     closed, returned>>
  BY Staying DEF EndLoop, StayPut, OneStop, historyVars
<1>2. loops \in [Components -> {0, 1}] /\ loops[x] = 1 /\ ~Stopped(x)
  BY <1>1 DEF Channels
<1>3. ~panicked'
  BY <1>2 DEF EndLoop, Stopped
<1>4. /\ loops' \in [Components -> {0, 1}] /\ loops'[x] = 0 /\ Stopped(x)'
      /\ \A y \in Components \ {x} : loops'[y] = loops[y] /\ (Stopped(y)' <=> Stopped(y))
  BY <1>1, <1>2 DEF Stopped
<1>5. \A c \in Callers : StartPos[c] > 1 => ~(LoopPos[x] >= StartPos[c])
  BY <1>2 DEF OneStart
<1>6. OneStart'
  BY <1>1, <1>2, <1>4, <1>5 DEF OneStart, StayPut, Past, Connecting, serverVars
<1>7. Channels'
  BY <1>1, <1>2, <1>4 DEF Channels, StayPut, Past, Components
<1>8. ServerDown' /\ PeersFollow'
  BY <1>1, ServerKept, PeersKept DEF StayPut
<1>9. QED BY <1>1, <1>3, <1>6, <1>7, <1>8

LEMMA BroadcastsKeep ==
    ASSUME Ready, BeginBroadcast \/ EndBroadcast
    PROVE  Programs' /\ Orderly'
<1> USE DEF Ready, Orderly
<1>1. /\ StayPut /\ Programs' /\ OneStop' /\ ~panicked'
      /\ UNCHANGED <<serverVars, chanVars, connector, connVars, peers, closed, returned>>
  BY Staying DEF BeginBroadcast, EndBroadcast, StayPut, OneStop, historyVars
<1>2. sending' => loops["dispatcher"] = 1
  <2>1. loops["dispatcher"] \in {0, 1}
    BY DEF Channels, Components
  <2>2. QED BY <2>1 DEF BeginBroadcast, EndBroadcast
<1>3. Channels'
  BY <1>1, <1>2 DEF Channels, StayPut, Past, Stopped, chanVars
<1>4. OneStart' /\ ServerDown' /\ PeersFollow'
  BY <1>1, StartsKept, ServerKept, PeersKept DEF StayPut, serverVars, chanVars
<1>5. QED BY <1>1, <1>3, <1>4

LEMMA RPCsKeep ==
    ASSUME Ready, RPCsKnown, NEW r \in Requests, RPCStep(r)
    PROVE  Programs' /\ Orderly'
<1> USE DEF Ready, Orderly
<1>1. /\ StayPut /\ Programs' /\ OneStop' /\ ~panicked'
      /\ UNCHANGED <<chanVars, connector, connVars, peers, closed, returned, sending>>
  BY Staying DEF RPCStep, Elsewhere, StayPut, OneStop, historyVars
<1>2. UNCHANGED <<running, draining, listening>>
  BY DEF RPCStep, Client, Handler, Open, Recv, EndStream, Lookup, Call, Reply, ReplyFails
<1>3. ~running => InProgress' = {}
  <2> SUFFICES ASSUME ~running PROVE InProgress' = {}
    OBVIOUS
  <2>1. InProgress = {} /\ ~listening
    BY DEF ServerDown
  <2>2. rpc[r].at \in {"unborn", "done"}
    BY <2>1 DEF InProgress
  <2>3. QED
    BY <2>1, <2>2 DEF RPCStep, Client, Handler, Open, Recv, EndStream, Lookup, Call, Reply, ReplyFails, At
<1>4. ServerDown'
  BY <1>1, <1>2, <1>3 DEF ServerDown, StayPut, Past
<1>5. OneStart' /\ Channels' /\ PeersFollow'
  BY <1>1, <1>2, StartsKept, ChannelsKept, PeersKept DEF StayPut, chanVars
<1>6. QED BY <1>1, <1>4, <1>5

\* connectToPeers goes on and the dispatcher's connections follow.
LEMMA NextAddressKeeps ==
    ASSUME ConnectorPlace, connector.at \in {"dial", "fetch", "offer"}, NextAddress
    PROVE  connector'.at \in {"dial", "done"}
BY DEF NextAddress, ConnectorPlace

LEMMA ConnectingKeeps ==
    ASSUME Ready, ConnectStep
    PROVE  Programs' /\ Orderly'
<1> USE DEF Ready, Orderly, Connections
<1>1. /\ StayPut /\ Programs' /\ OneStop' /\ ~panicked'
      /\ UNCHANGED <<serverVars, chanVars, sending, closed, returned>>
  BY Staying DEF ConnectStep, Dial, DialFails, Fetch, Offer, ConnectorAt, StayPut, OneStop, historyVars
<1>2. /\ connector.at \in {"dial", "fetch", "offer"} /\ CurrentAddress \in Addresses
      /\ connector \in [at : {"none", "dial", "fetch", "offer", "done"}, i : Nat, try : Nat, got : Nat]
  BY AddressesAreConfigured
     DEF ConnectStep, Dial, DialFails, Fetch, Offer, ConnectorAt, ConnectorPlace
<1>3. Past(13)' <=> Past(13)
  BY <1>1 DEF StayPut, Past
<1>4. closed \in 0..dialled /\ dialled \in Nat /\ clients \in [Addresses -> 0..dialled]
  BY DEF PeersFollow, OwnConnections
<1>5. connector'.at # "none" /\ PeersFollow'
  <2>1. CASE Dial
    <3>1. /\ connector' = [connector EXCEPT !.at = "fetch"] /\ connector.at = "dial"
          /\ dialled' = dialled + 1 /\ opened' \subseteq opened \cup {dialled + 1}
          /\ clients' = [clients EXCEPT ![CurrentAddress] = dialled + 1] /\ peers' = peers
      BY <2>1 DEF Dial, ConnectorAt
    <3>2. connector'.at = "fetch" /\ CurrentAddress' = CurrentAddress
      BY <1>2, <3>1 DEF CurrentAddress
    <3>3. /\ clients'[CurrentAddress] # None
          /\ \A a \in Addresses \ {CurrentAddress} : clients'[a] = clients[a]
      BY <1>2, <1>4, <3>1 DEF None
    <3>4. \A n \in opened' : n \in opened \/ n > closed
      BY <1>4, <3>1
    <3>5. closed' \in 0..dialled'
      BY <1>1, <1>4, <3>1
    <3>6. QED BY <1>1, <1>3, <3>1, <3>2, <3>3, <3>4, <3>5 DEF PeersFollow
  <2>2. CASE DialFails
    <3>1. /\ connector.at = "dial" /\ opened' \subseteq opened /\ UNCHANGED <<clients, dialled,
                                                                              peers>>
      BY <2>2 DEF DialFails, ConnectorAt
    <3>2. connector'.at \in {"dial", "done"}
      BY <1>2, <2>2, <3>1, NextAddressKeeps DEF DialFails
    <3>3. QED BY <1>1, <1>3, <3>1, <3>2 DEF PeersFollow
  <2>3. CASE Fetch
    <3>1. connector.at = "fetch" /\ UNCHANGED <<connVars, peers>>
      BY <2>3 DEF Fetch, ConnectorAt
    <3>2. CASE clients[CurrentAddress] = None
      <4>1. connector'.at \in {"dial", "done"}
        BY <1>2, <2>3, <3>2, NextAddressKeeps DEF Fetch
      <4>2. Past(13)
        BY <3>1, <3>2 DEF PeersFollow
      <4>3. QED BY <1>1, <1>3, <3>1, <4>1, <4>2 DEF PeersFollow, connVars
    <3>3. CASE clients[CurrentAddress] # None
      <4>1. connector' = [connector EXCEPT !.at = "offer", !.got = clients[CurrentAddress]]
        BY <2>3, <3>3 DEF Fetch
      <4>2. /\ connector'.at = "offer" /\ CurrentAddress' = CurrentAddress
            /\ connector'.got = clients[CurrentAddress]
        BY <1>2, <4>1 DEF CurrentAddress
      <4>3. QED BY <1>1, <1>3, <3>1, <4>2 DEF PeersFollow, connVars
    <3>4. QED BY <3>2, <3>3
  <2>4. CASE Offer
    <3>1. /\ connector.at = "offer" /\ UNCHANGED connVars
          /\ peers' = [peers EXCEPT ![CurrentAddress] = connector.got]
      BY <2>4 DEF Offer, ConnectorAt
    <3>2. connector'.at \in {"dial", "done"}
      BY <1>2, <2>4, <3>1, NextAddressKeeps DEF Offer
    <3>3. peers \in [Addresses -> Nat] /\ connector.got \in Nat
      BY <1>2 DEF PeersFollow
    <3>4. /\ peers' \in [Addresses -> Nat] /\ peers'[CurrentAddress] = connector.got
          /\ \A a \in Addresses \ {CurrentAddress} : peers'[a] = peers[a]
      BY <1>2, <3>1, <3>3
    <3>5. CASE Past(13)
      BY <1>1, <1>3, <3>1, <3>2, <3>4, <3>5 DEF PeersFollow, connVars
    <3>6. CASE ~Past(13)
      <4>1. \A a \in Addresses : peers'[a] \in {None, clients'[a]}
        BY <3>1, <3>4, <3>6 DEF PeersFollow, connVars
      <4>2. QED BY <1>1, <1>3, <3>1, <3>2, <3>4, <3>6, <4>1 DEF PeersFollow, connVars
    <3>7. QED BY <3>5, <3>6
  <2>5. QED BY <2>1, <2>2, <2>3, <2>4 DEF ConnectStep
<1>6. OneStart' /\ Channels' /\ ServerDown'
  BY <1>1, <1>2, <1>5, StartsKept, ChannelsKept, ServerKept DEF StayPut, serverVars, chanVars
<1>7. QED BY <1>1, <1>5, <1>6

-----------------------------------------------------------------------------
(* Calls, and the steps of Start.                                          *)

LEMMA CallsKeep ==
    ASSUME Ready, UsedOnce', NEW c \in Callers, CallStart(c) \/ CallStop(c)
    PROVE  Programs' /\ Orderly'
<1> USE DEF Ready, Orderly
<1>1. /\ ~panicked' /\ todo[c] = <<>>
      /\ UNCHANGED <<serverVars, chanVars, sending, connector, connVars, peers, closed, returned>>
  BY DEF CallStart, CallStop, MayCall, historyVars
<1>2. StopPos \in [Callers -> 0..14] /\ StartPos \in [Callers -> 0..8]
  BY PositionTypes
<1>3. StopPos[c] = 0 /\ StartPos[c] = 0
  BY <1>1, Begins
<1>4. CASE CallStart(c)
  <2>1. /\ Programs' /\ StopPos' = StopPos /\ stops' = stops
        /\ StartPos' = [StartPos EXCEPT ![c] = 1]
    BY <1>1, <1>4, Begins DEF CallStart, historyVars
  <2>2. \A d \in Callers : StartPos'[d] > 1 => StartPos[d] > 1 /\ StartPos'[d] = StartPos[d]
    BY <1>2, <2>1
  <2>3. \A d \in Callers : StartPos[d] <= 1 => StartPos'[d] <= 1
    BY <1>2, <2>1
  <2>4. OneStart'
    BY <1>1, <2>1, <2>2, <2>3 DEF OneStart, Past, Connecting, Stopped, serverVars, chanVars
  <2>5. OneStop' /\ Channels' /\ ServerDown' /\ PeersFollow'
    BY <1>1, <2>1, ChannelsKept, ServerKept, PeersKept DEF OneStop
  <2>6. QED BY <1>1, <2>1, <2>4, <2>5
<1>5. CASE CallStop(c)
  <2>1. /\ Programs' /\ StartPos' = StartPos /\ stops' = stops + 1
        /\ StopPos' = [StopPos EXCEPT ![c] = 1]
    BY <1>1, <1>5, Begins DEF CallStop
  <2>2. stops = 0
    BY <2>1 DEF UsedOnce
  <2>3. \A k \in Nat : ~Past(k)
    BY <2>2 DEF Past
  <2>4. \A d \in Callers : StopPos[d] = 0
    BY <2>2 DEF OneStop
  <2>5. StopPos'[c] = 1 /\ \A d \in Callers \ {c} : StopPos'[d] = 0
    BY <1>2, <2>1, <2>4
  <2>6. \A k \in Nat : k >= 1 => ~Past(k)'
    BY <2>5 DEF Past
  <2>7. OneStop'
    BY <2>1, <2>2, <2>5 DEF OneStop
  <2>8. OneStart'
    BY <1>1, <2>1, <2>3 DEF OneStart, Connecting, Stopped, serverVars, chanVars
  <2>9. Channels'
    <3>1. stopChan = {} /\ ~returned
      BY <2>3, Positions DEF Channels
    <3>2. \A x \in Components : ~Past(WaitPos[x])'
      BY <2>6, Positions
    <3>3. QED BY <1>1, <3>1, <3>2 DEF Channels, Stopped, chanVars
  <2>10. ServerDown' /\ PeersFollow'
    BY <1>1, <2>3, <2>6 DEF ServerDown, PeersFollow, serverVars, InProgress, CurrentAddress, connVars
  <2>11. QED BY <1>1, <2>1, <2>7, <2>8, <2>9, <2>10
<1>6. QED BY <1>4, <1>5

\* The server cannot be started again before the step 12 of the Stop, and
\* after it only by a node that was not used once.
LEMMA ListensAlone ==
    ASSUME Ready, UsedOnce', NEW c \in Callers, StartServer(c)
    PROVE  /\ ~Connecting /\ ~Past(12)
           /\ \A d \in Callers : StartPos[d] <= 1
<1> USE DEF Ready, Orderly
<1>1. ~running /\ (stops > 0 => ~Connecting)
  BY DEF StartServer, Listen, UsedOnce
<1>2. ~Connecting
  BY <1>1 DEF OneStart, Past
<1>3. ~Past(12)
  <2>1. "oca" \in Components /\ WaitPos["oca"] = 4
    BY DEF Components, WaitPos
  <2>2. ~Past(4)
    BY <1>2, <2>1 DEF OneStart, Channels
  <2>3. StopPos \in [Callers -> 0..14]
    BY PositionTypes
  <2>4. QED BY <2>2, <2>3 DEF Past
<1>4. ASSUME NEW d \in Callers PROVE StartPos[d] <= 1
  <2>1. StartPos[d] \in 0..8
    BY PositionTypes
  <2>2. ~(StartPos[d] > 1)
    BY <1>1, <1>3 DEF OneStart
  <2>3. QED BY <2>1, <2>2
<1>5. QED BY <1>2, <1>3, <1>4

LEMMA ListenKeeps ==
    ASSUME Ready, UsedOnce', NEW c \in Callers, StartServer(c)
    PROVE  Programs' /\ Orderly'
<1> USE DEF Ready, Orderly
<1>1. /\ Doing(c, "listen", "server") /\ Proceeds(c) /\ ~panicked'
      /\ ~draining /\ ~running /\ running'
      /\ UNCHANGED <<draining, rpc, chanVars, sending, connector, connVars, peers, stops, closed,
                     returned>>
  BY DEF StartServer, Listen, Doing
<1>2. StartPos[c] = 1
  <2>1. StartPos[c] \in 1..8 /\ StartSteps[StartPos[c]] = <<"listen", "server">>
    BY <1>1, StartMoves
  <2>2. QED BY <2>1, WhereInStart
<1>3. Programs' /\ StopPos' = StopPos /\ StartPos' = [StartPos EXCEPT ![c] = 2]
  BY <1>1, <1>2, StartMoves
<1>4. StartPos \in [Callers -> 0..8]
  BY PositionTypes
<1>5. StartPos'[c] = 2 /\ \A d \in Callers \ {c} : StartPos'[d] <= 1
  BY <1>3, <1>4, ListensAlone
<1>6. \A x \in Components : loops[x] = 0 /\ ~Stopped(x)
  <2>1. \A x \in Components : loops[x] \in {0, 1}
    BY DEF Channels
  <2>2. QED BY <2>1, ListensAlone DEF OneStart
<1>7. \A x \in Components : loops'[x] = 0 /\ ~Stopped(x)'
  BY <1>1, <1>6 DEF Stopped, chanVars
<1>8. OneStart'
  <2>1. \A d \in Callers : StartPos'[d] > 1 => d = c
    <3>1. \A d \in Callers : StartPos'[d] \in 0..8
      BY <1>3, <1>4
    <3>2. QED BY <1>5, <3>1
  <2>2. ~(StartPos'[c] > 4)
    BY <1>5
  <2>3. QED BY <1>1, <1>5, <1>7, <2>1, <2>2 DEF OneStart
<1>9. ServerDown'
  <2>1. ~Past(12)'
    BY <1>1, <1>3, ListensAlone DEF Past
  <2>2. QED BY <1>1, <2>1 DEF ServerDown
<1>10. OneStop' /\ Channels' /\ PeersFollow'
  BY <1>1, <1>3, ChannelsKept, PeersKept DEF OneStop
<1>11. QED BY <1>1, <1>3, <1>8, <1>9, <1>10

LEMMA FailedStartKeeps ==
    ASSUME Ready, NEW c \in Callers, StartFails(c)
    PROVE  Programs' /\ Orderly'
<1> USE DEF Ready, Orderly
<1>1. /\ Doing(c, "listen", "server") /\ Goes(c, <<>>) /\ ~panicked'
      /\ UNCHANGED <<serverVars, chanVars, sending, connector, connVars, peers, stops, closed,
                     returned>>
  BY DEF StartFails, Doing, historyVars
<1>2. StopPos[c] = 0
  BY <1>1, StartMoves
<1>3. Programs' /\ StopPos' = StopPos /\ StartPos' = [StartPos EXCEPT ![c] = 0]
  <2>1. StopPos = [StopPos EXCEPT ![c] = 0]
    BY <1>2 DEF StopPos
  <2>2. QED BY <1>1, <2>1, Returns
<1>4. StartPos \in [Callers -> 0..8]
  BY PositionTypes
<1>5. \A d \in Callers : /\ StartPos'[d] > 1 => StartPos[d] > 1 /\ StartPos'[d] = StartPos[d]
                         /\ StartPos[d] <= 1 => StartPos'[d] <= 1
  BY <1>3, <1>4
<1>6. OneStart'
  BY <1>1, <1>3, <1>5 DEF OneStart, Past, Connecting, Stopped, serverVars, chanVars
<1>7. OneStop' /\ Channels' /\ ServerDown' /\ PeersFollow'
  BY <1>1, <1>3, ChannelsKept, ServerKept, PeersKept DEF OneStop
<1>8. QED BY <1>1, <1>3, <1>6, <1>7

\* A Start that goes on below its loops keeps the node to itself.
LEMMA StartGoesOn ==
    ASSUME Programs, OneStart, NEW c \in Callers, StartPos[c] > 1, NEW k \in 0..8,
           StartPos' = [StartPos EXCEPT ![c] = k]
    PROVE  /\ StartPos'[c] = k /\ (running \/ Past(12))
           /\ \A d \in Callers : StartPos'[d] > 1 => d = c
           /\ \A d \in Callers : StartPos'[d] > 1 => \A e \in Callers \ {d} : StartPos'[e] <= 1
<1>1. StartPos \in [Callers -> 0..8]
  BY PositionTypes
<1>2. (running \/ Past(12)) /\ \A d \in Callers \ {c} : StartPos[d] <= 1
  BY DEF OneStart
<1>3. StartPos'[c] = k /\ \A d \in Callers \ {c} : StartPos'[d] = StartPos[d]
  BY <1>1
<1>4. \A d \in Callers \ {c} : StartPos'[d] <= 1 /\ ~(StartPos'[d] > 1)
  BY <1>1, <1>2, <1>3
<1>5. QED BY <1>2, <1>3, <1>4

LEMMA RegistersKeep ==
    ASSUME Ready, NEW c \in Callers, RegisterHandler(c)
    PROVE  Programs' /\ Orderly'
<1> USE DEF Ready, Orderly
<1>1. PICK kind \in Kinds : Doing(c, "register", kind)
  BY DEF RegisterHandler
<1>2. /\ Proceeds(c) /\ ~panicked'
      /\ UNCHANGED <<running, draining, listening, rpc, chanVars, sending, connector, connVars, peers,
                     stops, closed, returned>>
  BY DEF RegisterHandler, Register, Doing, historyVars
<1>3. StartPos[c] \in {2, 3}
  <2>1. StartPos[c] \in 1..8 /\ StartSteps[StartPos[c]] = <<"register", kind>>
    BY <1>1, StartMoves
  <2>2. QED BY <2>1, WhereInStart
<1>4. Programs' /\ StopPos' = StopPos /\ StartPos' = [StartPos EXCEPT ![c] = StartPos[c] + 1]
  BY <1>1, <1>2, <1>3, StartMoves
<1>5. /\ StartPos'[c] = StartPos[c] + 1 /\ (running \/ Past(12))
      /\ \A d \in Callers : StartPos'[d] > 1 => d = c
      /\ \A d \in Callers : StartPos'[d] > 1 => \A e \in Callers \ {d} : StartPos'[e] <= 1
  <2>1. StartPos[c] > 1 /\ StartPos[c] + 1 \in 0..8
    BY <1>3
  <2>2. QED BY <1>4, <2>1, StartGoesOn
<1>6. OneStart'
  <2>1. \A d \in Callers : StartPos'[d] > 1 => d = c
    BY <1>5
  <2>2. ~(StartPos'[c] > 4) /\ StartPos'[c] > StartPos[c]
    BY <1>3, <1>5
  <2>3. \A x \in Components : loops[x] = 0 /\ ~Stopped(x)
    <3>1. \A x \in Components : LoopPos[x] >= StartPos[c]
      BY <1>3, Positions
    <3>2. QED BY <1>3, <3>1 DEF OneStart
  <2>4. (running \/ Past(12))' /\ (Connecting' <=> Connecting)
    BY <1>2, <1>4, <1>5 DEF Past, Connecting
  <2>5. \A d \in Callers : StartPos'[d] > 1 => \A e \in Callers \ {d} : StartPos'[e] <= 1
    BY <1>5
  <2>6. QED BY <1>2, <2>1, <2>2, <2>3, <2>4, <2>5 DEF OneStart, Stopped, chanVars
<1>7. ServerDown'
  BY <1>2, <1>4 DEF ServerDown, Past, InProgress
<1>8. OneStop' /\ Channels' /\ PeersFollow'
  BY <1>2, <1>4, ChannelsKept, PeersKept DEF OneStop
<1>9. QED BY <1>2, <1>4, <1>6, <1>7, <1>8

LEMMA ConnectorKeeps ==
    ASSUME Ready, NEW c \in Callers, SpawnConnector(c)
    PROVE  Programs' /\ Orderly'
<1> USE DEF Ready, Orderly, Connections
<1>1. /\ Doing(c, "connect", "peers") /\ Proceeds(c) /\ ~panicked'
      /\ UNCHANGED <<serverVars, chanVars, sending, connVars, peers, stops, closed, returned>>
  BY DEF SpawnConnector, Doing, historyVars
<1>2. StartPos[c] = 4
  <2>1. StartPos[c] \in 1..8 /\ StartSteps[StartPos[c]] = <<"connect", "peers">>
    BY <1>1, StartMoves
  <2>2. QED BY <2>1, WhereInStart
<1>3. Programs' /\ StopPos' = StopPos /\ StartPos' = [StartPos EXCEPT ![c] = 5]
  BY <1>1, <1>2, StartMoves
<1>4. /\ StartPos'[c] = 5 /\ (running \/ Past(12))
      /\ \A d \in Callers : StartPos'[d] > 1 => d = c
      /\ \A d \in Callers : StartPos'[d] > 1 => \A e \in Callers \ {d} : StartPos'[e] <= 1
  <2>1. StartPos[c] > 1 /\ 5 \in 0..8
    BY <1>2
  <2>2. QED BY <1>3, <2>1, StartGoesOn
<1>5. /\ connector'.at # "none" /\ CurrentAddress' = CurrentAddress
      /\ connector'.at \in {"fetch", "offer"} <=> connector.at \in {"fetch", "offer"}
      /\ connector.at \in {"fetch", "offer"} => connector' = connector
  <2>1. CASE Connecting
    BY <2>1 DEF SpawnConnector, Connecting, CurrentAddress
  <2>2. CASE ~Connecting
    BY <2>2 DEF SpawnConnector, Connecting, CurrentAddress, ConnectorPlace
  <2>3. QED BY <2>1, <2>2
<1>6. PeersFollow'
  <2>1. Past(13)' <=> Past(13)
    BY <1>1, <1>3 DEF Past
  <2>2. \/ connector'.at = connector.at
        \/ connector'.at \notin {"fetch", "offer"} /\ connector.at \notin {"fetch", "offer"}
    BY <1>5
  <2>3. QED BY <1>1, <1>5, <2>1, <2>2 DEF PeersFollow, connVars
<1>7. OneStart'
  <2>1. \A d \in Callers : StartPos'[d] > 1 => d = c
    BY <1>4
  <2>2. \A x \in Components : loops[x] = 0 /\ ~Stopped(x)
    <3>1. \A x \in Components : LoopPos[x] >= StartPos[c]
      BY <1>2, Positions
    <3>2. QED BY <1>2, <3>1 DEF OneStart
  <2>3. (running \/ Past(12))' /\ Connecting'
    BY <1>1, <1>3, <1>4, <1>5 DEF Past, Connecting, serverVars
  <2>4. \A d \in Callers : StartPos'[d] > 1 => \A e \in Callers \ {d} : StartPos'[e] <= 1
    BY <1>4
  <2>5. QED BY <1>1, <2>1, <2>2, <2>3, <2>4 DEF OneStart, Stopped, chanVars
<1>8. OneStop' /\ Channels' /\ ServerDown'
  BY <1>1, <1>3, ChannelsKept, ServerKept DEF OneStop
<1>9. QED BY <1>1, <1>3, <1>6, <1>7, <1>8

LEMMA SpawnsKeep ==
    ASSUME Ready, NEW c \in Callers, SpawnLoop(c)
    PROVE  Programs' /\ Orderly'
<1> USE DEF Ready, Orderly
<1>1. PICK x \in Components : Doing(c, "loop", x) /\ loops' = [loops EXCEPT ![x] = loops[x] + 1]
  BY DEF SpawnLoop
<1>2. /\ Proceeds(c) /\ ~panicked'
      /\ UNCHANGED <<serverVars, stopChan, stoppedChan, sending, connector, connVars, peers,
                     stops, closed, returned>>
  BY DEF SpawnLoop, Doing, historyVars
<1>3. StartPos[c] = LoopPos[x] /\ StartPos[c] \in 5..8
  <2>1. StartPos[c] \in 1..8 /\ StartSteps[StartPos[c]] = <<"loop", x>>
    BY <1>1, StartMoves
  <2>2. StartPos[c] = LoopPos[x]
    BY <2>1, WhereInStart
  <2>3. QED BY <2>2, Positions
<1>4. /\ Programs' /\ StopPos' = StopPos
      /\ StartPos' = [StartPos EXCEPT ![c] = IF StartPos[c] = 8 THEN 0 ELSE StartPos[c] + 1]
  BY <1>1, <1>2, StartMoves
<1>5. /\ StartPos'[c] = IF StartPos[c] = 8 THEN 0 ELSE StartPos[c] + 1
      /\ running \/ Past(12)
      /\ \A d \in Callers : StartPos'[d] > 1 => d = c
      /\ \A d \in Callers : StartPos'[d] > 1 => \A e \in Callers \ {d} : StartPos'[e] <= 1
  <2>1. PICK next : next = IF StartPos[c] = 8 THEN 0 ELSE StartPos[c] + 1
    OBVIOUS
  <2>2. StartPos[c] > 1 /\ next \in 0..8
    BY <1>3, <2>1
  <2>3. StartPos' = [StartPos EXCEPT ![c] = next]
    BY <1>4, <2>1
  <2>4. StartPos'[c] = next /\ (running \/ Past(12))
    BY <2>2, <2>3, StartGoesOn
  <2>5. /\ \A d \in Callers : StartPos'[d] > 1 => d = c
        /\ \A d \in Callers : StartPos'[d] > 1 => \A e \in Callers \ {d} : StartPos'[e] <= 1
    BY <2>2, <2>3, StartGoesOn
  <2>6. QED BY <2>1, <2>4, <2>5
<1>6. loops[x] = 0 /\ ~Stopped(x) /\ Connecting
  BY <1>3 DEF OneStart
<1>7. /\ loops' \in [Components -> {0, 1}] /\ loops'[x] = 1
      /\ \A y \in Components \ {x} : loops'[y] = loops[y]
  BY <1>1, <1>6 DEF Channels
<1>8. OneStart'
  <2>1. \A d \in Callers : StartPos'[d] > 1 => d = c
    BY <1>5
  <2>2. ASSUME NEW y \in Components, StartPos'[c] > 1, LoopPos[y] >= StartPos'[c]
        PROVE  loops'[y] = 0 /\ ~Stopped(y)
    <3>1. StartPos'[c] = StartPos[c] + 1
      BY <1>5, <2>2
    <3>2. LoopPos[y] >= StartPos[c] /\ y # x
      BY <1>3, <2>2, <3>1, Positions
    <3>3. QED BY <1>3, <1>7, <3>2 DEF OneStart
  <2>3. (running \/ Past(12))' /\ Connecting'
    BY <1>2, <1>4, <1>5, <1>6 DEF Past, Connecting, serverVars
  <2>4. \A d \in Callers : StartPos'[d] > 1 => \A e \in Callers \ {d} : StartPos'[e] <= 1
    BY <1>5
  <2>5. QED BY <1>2, <2>1, <2>2, <2>3, <2>4 DEF OneStart, Stopped
<1>9. Channels'
  BY <1>2, <1>4, <1>6, <1>7 DEF Channels, Past, Stopped, Components
<1>10. OneStop' /\ ServerDown' /\ PeersFollow'
  BY <1>2, <1>4, ServerKept, PeersKept DEF OneStop
<1>11. QED BY <1>2, <1>4, <1>8, <1>9, <1>10

-----------------------------------------------------------------------------
(* The steps of Stop.                                                      *)

LEMMA StartsWhileStopping ==
    ASSUME OneStart, StartPos' = StartPos, UNCHANGED <<loops, stoppedChan, connector>>,
           Past(12) => Past(12)', running => running' \/ Past(12)'
    PROVE  OneStart'
BY DEF OneStart, Connecting, Stopped

\* A step that leaves Stop's caller in front of the step k + 1.
LEMMA StopGoesOn ==
    ASSUME Ready, NEW c \in Callers,
           NEW step \in {"close", "look", "wait", "drain", "drained", "closeAll"}, NEW what,
           Doing(c, step, what), Proceeds(c), stops' = stops
    PROVE  /\ Programs' /\ StartPos' = StartPos /\ OneStop'
           /\ StopPos[c] \in 1..14 /\ StopSteps[StopPos[c]] = <<step, what>>
           /\ \A k \in 1..14 : Past(k) <=> k < StopPos[c]
           /\ \A k \in 1..14 : Past(k)' <=> k <= StopPos[c]
<1> USE DEF Ready, Orderly
<1>1. /\ Programs' /\ StartPos' = StartPos
      /\ StopPos[c] \in 1..14 /\ StopSteps[StopPos[c]] = <<step, what>>
      /\ StopPos' = [StopPos EXCEPT ![c] = IF StopPos[c] = 14 THEN 0 ELSE StopPos[c] + 1]
  BY StopMoves
<1> DEFINE n == 1
           next == IF StopPos[c] = 14 THEN 0 ELSE StopPos[c] + 1
<1>2. /\ n \in 1..2 /\ StopPos[c] \in 1..14 /\ StopPos[c] + n <= 15
      /\ next = IF StopPos[c] + n = 15 THEN 0 ELSE StopPos[c] + n
      /\ StopPos' = [StopPos EXCEPT ![c] = next]
  BY <1>1
<1>3. n = 1
  OBVIOUS
<1> HIDE DEF n, next
<1>4. /\ OneStop' /\ \A k \in 1..14 : Past(k) <=> k < StopPos[c]
      /\ \A k \in 1..14 : Past(k)' <=> k < StopPos[c] + n
  BY <1>2, PastMoves
<1>5. \A k \in 1..14 : Past(k)' <=> k <= StopPos[c]
  BY <1>1, <1>3, <1>4
<1>6. QED BY <1>1, <1>4, <1>5

\* As long as nobody closed it before, a channel is found open.
LEMMA LooksKeep ==
    ASSUME Ready, NEW c \in Callers, LookAtChannel(c) \/ LookAtFlag(c)
    PROVE  Programs' /\ Orderly'
<1> USE DEF Ready, Orderly
<1>1. PICK x \in Components \ {"manager"} :
          Doing(c, "look", x) /\ (x \in stopChan \/ Proceeds(c))
  BY DEF LookAtChannel, LookAtFlag, Components
<1>2. /\ ~panicked'
      /\ UNCHANGED <<serverVars, chanVars, sending, connector, connVars, peers, stops, closed,
                     returned>>
  BY DEF LookAtChannel, LookAtFlag, Doing, historyVars
<1>3. StopPos[c] \in 1..14 /\ StopPos[c] = ClosePos[x] - 1
  <2>1. StopPos[c] \in 1..14 /\ StopSteps[StopPos[c]] = <<"look", x>>
    BY <1>1, StopMoves
  <2>2. QED BY <2>1, WhereInStop
<1>4. x \notin stopChan
  <2>1. ~Past(ClosePos[x])
    BY <1>3, Positions DEF Past
  <2>2. QED BY <2>1 DEF Channels
<1>5. Proceeds(c) /\ stops' = stops
  BY <1>1, <1>2, <1>4
<1>6. /\ Programs' /\ StartPos' = StartPos /\ OneStop'
      /\ \A k \in 1..14 : Past(k) <=> k < StopPos[c]
      /\ \A k \in 1..14 : Past(k)' <=> k <= StopPos[c]
  BY <1>1, <1>5, StopGoesOn
<1>7. \A k \in 1..14 : k # ClosePos[x] - 1 => (Past(k)' <=> Past(k))
  BY <1>3, <1>6
<1>8. /\ Past(12)' <=> Past(12)
      /\ Past(13)' <=> Past(13)
      /\ Past(14)' <=> Past(14)
      /\ \A y \in Components : /\ Past(WaitPos[y])' <=> Past(WaitPos[y])
                               /\ Past(ClosePos[y])' <=> Past(ClosePos[y])
  <2>1. ClosePos[x] - 1 \in {2, 5, 8}
    BY Positions DEF Components, ClosePos
  <2>2. \A y \in Components : WaitPos[y] \in 1..14 /\ ClosePos[y] \in 1..14
                              /\ WaitPos[y] # ClosePos[x] - 1 /\ ClosePos[y] # ClosePos[x] - 1
    BY <2>1, Positions
  <2>3. QED BY <1>7, <2>1, <2>2
<1>9. OneStart'
  BY <1>2, <1>6, <1>8, StartsWhileStopping DEF serverVars, chanVars
<1>10. Channels'
  BY <1>2, <1>8 DEF Channels, Stopped, chanVars
<1>11. ServerDown' /\ PeersFollow'
  BY <1>2, <1>8 DEF ServerDown, PeersFollow, serverVars, InProgress, CurrentAddress, connVars
<1>12. QED BY <1>2, <1>6, <1>9, <1>10, <1>11

LEMMA ClosesKeep ==
    ASSUME Ready, NEW c \in Callers, CloseStopChan(c)
    PROVE  Programs' /\ Orderly'
<1> USE DEF Ready, Orderly
<1>1. PICK x \in Components :
          /\ Doing(c, "close", x) /\ panicked' = (x \in stopChan) /\ stopChan' = stopChan \cup {x}
  BY DEF CloseStopChan
<1>2. /\ Proceeds(c)
      /\ UNCHANGED <<serverVars, stoppedChan, loops, sending, connector, connVars, peers, stops,
                     closed, returned>>
  BY DEF CloseStopChan, historyVars
<1>3. StopPos[c] \in 1..14 /\ StopPos[c] = ClosePos[x]
  <2>1. StopPos[c] \in 1..14 /\ StopSteps[StopPos[c]] = <<"close", x>>
    BY <1>1, StopMoves
  <2>2. QED BY <2>1, WhereInStop
<1>4. /\ Programs' /\ StartPos' = StartPos /\ OneStop'
      /\ \A k \in 1..14 : Past(k) <=> k < StopPos[c]
      /\ \A k \in 1..14 : Past(k)' <=> k <= StopPos[c]
  BY <1>1, <1>2, StopGoesOn
<1>5. ~panicked' /\ Past(ClosePos[x])'
  <2>1. ~Past(ClosePos[x]) /\ Past(ClosePos[x])'
    BY <1>3, <1>4
  <2>2. QED BY <1>1, <2>1 DEF Channels
<1>6. /\ \A k \in 1..14 : Past(k) => Past(k)'
      /\ \A k \in 1..14 : k # ClosePos[x] => (Past(k)' <=> Past(k))
  BY <1>3, <1>4
<1>7. /\ Past(12)' <=> Past(12)
      /\ Past(13)' <=> Past(13)
      /\ Past(14)' <=> Past(14)
      /\ \A y \in Components : /\ Past(WaitPos[y])' <=> Past(WaitPos[y])
                               /\ Past(ClosePos[y]) => Past(ClosePos[y])'
  <2>1. ClosePos[x] \in {1, 3, 6, 9}
    BY Positions
  <2>2. \A y \in Components : WaitPos[y] \in 1..14 /\ ClosePos[y] \in 1..14 /\ WaitPos[y] # ClosePos[x]
    BY <2>1, Positions
  <2>3. QED BY <1>6, <2>1, <2>2
<1>8. OneStart'
  BY <1>2, <1>4, <1>7, StartsWhileStopping DEF serverVars
<1>9. Channels'
  BY <1>1, <1>2, <1>5, <1>7 DEF Channels, Stopped
<1>10. ServerDown' /\ PeersFollow'
  BY <1>2, <1>7 DEF ServerDown, PeersFollow, serverVars, InProgress, CurrentAddress, connVars
<1>11. QED BY <1>4, <1>5, <1>8, <1>9, <1>10

LEMMA AwaitsKeep ==
    ASSUME Ready, NEW c \in Callers, Await(c)
    PROVE  Programs' /\ Orderly'
<1> USE DEF Ready, Orderly
<1>1. PICK x \in stoppedChan : Doing(c, "wait", x) /\ returned' = (returned \/ x = "manager")
  BY DEF Await
<1>2. /\ Proceeds(c) /\ ~panicked'
      /\ UNCHANGED <<serverVars, chanVars, sending, connector, connVars, peers, stops, closed>>
  BY DEF Await, Doing
<1>3. x \in Components /\ StopPos[c] \in 1..14 /\ StopPos[c] = WaitPos[x]
  <2>1. StopPos[c] \in 1..14 /\ StopSteps[StopPos[c]] = <<"wait", x>>
    BY <1>1, StopMoves
  <2>2. QED BY <2>1, WhereInStop
<1>4. /\ Programs' /\ StartPos' = StartPos /\ OneStop'
      /\ \A k \in 1..14 : Past(k) <=> k < StopPos[c]
      /\ \A k \in 1..14 : Past(k)' <=> k <= StopPos[c]
  BY <1>1, <1>2, StopGoesOn
<1>5. /\ \A k \in 1..14 : Past(k) => Past(k)'
      /\ \A k \in 1..14 : k # WaitPos[x] => (Past(k)' <=> Past(k))
  BY <1>3, <1>4
<1>6. /\ Past(12)' <=> Past(12)
      /\ Past(13)' <=> Past(13)
      /\ Past(14) => Past(14)'
      /\ \A y \in Components \ {x} : Past(WaitPos[y])' <=> Past(WaitPos[y])
      /\ \A y \in Components : Past(ClosePos[y]) => Past(ClosePos[y])'
  <2>1. WaitPos[x] \in {4, 7, 10, 14}
    BY <1>3, Positions
  <2>2. /\ \A y \in Components : WaitPos[y] \in 1..14 /\ ClosePos[y] \in 1..14
        /\ \A y \in Components \ {x} : WaitPos[y] # WaitPos[x]
    BY <1>3, Positions
  <2>3. QED BY <1>5, <2>1, <2>2
<1>7. OneStart'
  BY <1>2, <1>4, <1>6, StartsWhileStopping DEF serverVars, chanVars
<1>8. Channels'
  <2>1. x = "manager" => Past(14)'
    BY <1>3, <1>4, Positions
  <2>2. Stopped(x)'
    BY <1>1, <1>2 DEF Stopped, chanVars
  <2>3. QED BY <1>1, <1>2, <1>6, <2>1, <2>2 DEF Channels, Stopped, chanVars
<1>9. ServerDown' /\ PeersFollow'
  BY <1>2, <1>6 DEF ServerDown, PeersFollow, serverVars, InProgress, CurrentAddress, connVars
<1>10. QED BY <1>2, <1>4, <1>7, <1>8, <1>9

LEMMA DrainsKeep ==
    ASSUME Ready, NEW c \in Callers, DrainServer(c)
    PROVE  Programs' /\ Orderly'
<1> USE DEF Ready, Orderly
<1>1. /\ Doing(c, "drain", "server") /\ ~panicked'
      /\ UNCHANGED <<running, listening, rpc, chanVars, sending, connector, connVars, peers, stops,
                     closed, returned>>
  BY DEF DrainServer, BeginGracefulStop, Doing, serverVars, historyVars
<1>2. StopPos[c] = 11
  <2>1. StopPos[c] \in 1..14 /\ StopSteps[StopPos[c]] = <<"drain", "server">>
    BY <1>1, StopMoves
  <2>2. QED BY <2>1, WhereInStop
<1>3. PICK n \in 1..2 :
          /\ Programs' /\ StartPos' = StartPos /\ StopPos' = [StopPos EXCEPT ![c] = 11 + n]
          /\ IF n = 1 THEN running /\ ~draining /\ draining' ELSE ~running /\ draining' = draining
  <2>1. CASE running
    <3>1. Proceeds(c) /\ ~draining /\ draining'
      BY <2>1 DEF DrainServer, BeginGracefulStop
    <3>2. /\ Programs' /\ StartPos' = StartPos /\ StopPos' = [StopPos EXCEPT ![c] = 11 + 1]
      BY <1>1, <1>2, <3>1, StopMoves
    <3>3. QED BY <2>1, <3>1, <3>2
  <2>2. CASE ~running
    <3>1. Skips(c, 2) /\ draining' = draining
      BY <2>2 DEF DrainServer, serverVars
    <3>2. 2 \in 1..(14 - StopPos[c])
      BY <1>2
    <3>3. Programs' /\ StartPos' = StartPos /\ StopPos' = [StopPos EXCEPT ![c] = StopPos[c] + 2]
      BY <1>1, <3>1, <3>2, StopMoves
    <3>4. QED BY <1>2, <2>2, <3>1, <3>3
  <2>3. QED BY <2>1, <2>2
<1>4. /\ OneStop' /\ \A k \in 1..14 : Past(k) <=> k < 11
      /\ \A k \in 1..14 : Past(k)' <=> k < 11 + n
  <2>1. /\ StopPos[c] \in 1..14 /\ StopPos[c] + n <= 15 /\ stops' = stops
        /\ 11 + n = IF StopPos[c] + n = 15 THEN 0 ELSE StopPos[c] + n
        /\ StopPos' = [StopPos EXCEPT ![c] = 11 + n]
    BY <1>1, <1>2, <1>3
  <2>2. /\ OneStop' /\ \A k \in 1..14 : Past(k) <=> k < StopPos[c]
        /\ \A k \in 1..14 : Past(k)' <=> k < StopPos[c] + n
    BY <2>1, PastMoves
  <2>3. QED BY <1>2, <2>2
<1>5. /\ \A y \in Components : /\ Past(WaitPos[y])' <=> Past(WaitPos[y])
                               /\ Past(ClosePos[y])' <=> Past(ClosePos[y])
      /\ ~Past(12) /\ ~Past(13) /\ ~Past(13)' /\ ~Past(14)
      /\ Past(12)' <=> n = 2
  <2>1. \A y \in Components : WaitPos[y] \in {4, 7, 10, 14} /\ ClosePos[y] \in {1, 3, 6, 9}
    BY Positions
  <2>2. \A k \in {1, 3, 4, 6, 7, 9, 10, 14} : Past(k)' <=> Past(k)
    BY <1>4
  <2>3. QED BY <1>4, <2>1, <2>2
<1>6. OneStart'
  BY <1>1, <1>3, <1>5, StartsWhileStopping DEF chanVars
<1>7. Channels'
  BY <1>1, <1>5 DEF Channels, Stopped, chanVars
<1>8. ServerDown' /\ PeersFollow'
  BY <1>1, <1>3, <1>5 DEF ServerDown, PeersFollow, InProgress, CurrentAddress, connVars
<1>9. QED BY <1>1, <1>3, <1>4, <1>6, <1>7, <1>8

\* The listener closes while the caller stays in GracefulStop.
LEMMA ListenerKeeps ==
    ASSUME Ready, NEW c \in Callers, ListenerCloses(c)
    PROVE  Programs' /\ Orderly'
<1> USE DEF Ready, Orderly
<1>1. /\ StayPut /\ Programs' /\ OneStop' /\ ~panicked' /\ ~listening'
      /\ UNCHANGED <<running, draining, rpc, chanVars, sending, connector, connVars, peers, closed,
                     returned>>
  BY Staying DEF ListenerCloses, CloseListener, Doing, StayPut, OneStop, historyVars
<1>2. ServerDown'
  BY <1>1 DEF ServerDown, StayPut, Past, InProgress
<1>3. OneStart' /\ Channels' /\ PeersFollow'
  BY <1>1, StartsKept, ChannelsKept, PeersKept DEF StayPut, chanVars
<1>4. QED BY <1>1, <1>2, <1>3

LEMMA DrainedKeeps ==
    ASSUME Ready, NEW c \in Callers, ServerDrained(c)
    PROVE  Programs' /\ Orderly'
<1> USE DEF Ready, Orderly
<1>1. /\ Doing(c, "drained", "server") /\ Proceeds(c) /\ ~panicked'
      /\ ~running' /\ ~draining' /\ ~listening' /\ InProgress = {}
      /\ UNCHANGED <<rpc, chanVars, sending, connector, connVars, peers, stops, closed, returned>>
  BY DEF ServerDrained, EndGracefulStop, Doing, historyVars
<1>2. StopPos[c] = 12
  <2>1. StopPos[c] \in 1..14 /\ StopSteps[StopPos[c]] = <<"drained", "server">>
    BY <1>1, StopMoves
  <2>2. QED BY <2>1, WhereInStop
<1>3. /\ Programs' /\ StartPos' = StartPos /\ OneStop'
      /\ \A k \in 1..14 : Past(k) <=> k < 12
      /\ \A k \in 1..14 : Past(k)' <=> k <= 12
  <2>1. /\ Programs' /\ StartPos' = StartPos /\ OneStop'
        /\ \A k \in 1..14 : Past(k) <=> k < StopPos[c]
        /\ \A k \in 1..14 : Past(k)' <=> k <= StopPos[c]
    BY <1>1, StopGoesOn
  <2>2. QED BY <1>2, <2>1
<1>4. /\ \A y \in Components : /\ Past(WaitPos[y])' <=> Past(WaitPos[y])
                               /\ Past(ClosePos[y])' <=> Past(ClosePos[y])
      /\ Past(12)' /\ ~Past(13) /\ ~Past(13)' /\ ~Past(14)
  <2>1. \A y \in Components : WaitPos[y] \in {4, 7, 10, 14} /\ ClosePos[y] \in {1, 3, 6, 9}
    BY Positions
  <2>2. \A k \in {1, 3, 4, 6, 7, 9, 10, 14} : Past(k)' <=> Past(k)
    BY <1>3
  <2>3. QED BY <1>3, <2>1, <2>2
<1>5. OneStart'
  BY <1>1, <1>3, <1>4, StartsWhileStopping DEF chanVars
<1>6. Channels'
  BY <1>1, <1>4 DEF Channels, Stopped, chanVars
<1>7. ServerDown' /\ PeersFollow'
  BY <1>1, <1>4 DEF ServerDown, PeersFollow, InProgress, CurrentAddress, connVars
<1>8. QED BY <1>1, <1>3, <1>5, <1>6, <1>7

LEMMA CloseAllKeeps ==
    ASSUME Ready, NEW c \in Callers, CloseAll(c)
    PROVE  Programs' /\ Orderly'
<1> USE DEF Ready, Orderly, Connections
<1>1. /\ Doing(c, "closeAll", "connections") /\ Proceeds(c) /\ ~panicked'
      /\ opened' = {} /\ closed' = dialled
      /\ UNCHANGED <<serverVars, chanVars, sending, connector, dialled, peers, stops, returned>>
  BY DEF CloseAll, ConnectionsTracked, Doing
<1>2. StopPos[c] = 13
  <2>1. StopPos[c] \in 1..14 /\ StopSteps[StopPos[c]] = <<"closeAll", "connections">>
    BY <1>1, StopMoves
  <2>2. QED BY <2>1, WhereInStop
<1>3. /\ Programs' /\ StartPos' = StartPos /\ OneStop'
      /\ \A k \in 1..14 : Past(k) <=> k < 13
      /\ \A k \in 1..14 : Past(k)' <=> k <= 13
  <2>1. /\ Programs' /\ StartPos' = StartPos /\ OneStop'
        /\ \A k \in 1..14 : Past(k) <=> k < StopPos[c]
        /\ \A k \in 1..14 : Past(k)' <=> k <= StopPos[c]
    BY <1>1, StopGoesOn
  <2>2. QED BY <1>2, <2>1
<1>4. /\ \A y \in Components : /\ Past(WaitPos[y])' <=> Past(WaitPos[y])
                               /\ Past(ClosePos[y])' <=> Past(ClosePos[y])
      /\ Past(12) /\ Past(12)' /\ Past(13)' /\ ~Past(14)
  <2>1. \A y \in Components : WaitPos[y] \in {4, 7, 10, 14} /\ ClosePos[y] \in {1, 3, 6, 9}
    BY Positions
  <2>2. \A k \in {1, 3, 4, 6, 7, 9, 10, 14} : Past(k)' <=> Past(k)
    BY <1>3
  <2>3. QED BY <1>3, <2>1, <2>2
<1>5. OneStart'
  BY <1>1, <1>3, <1>4, StartsWhileStopping DEF serverVars, chanVars
<1>6. Channels'
  BY <1>1, <1>4 DEF Channels, Stopped, chanVars
<1>7. ServerDown' /\ PeersFollow'
  BY <1>1, <1>4 DEF ServerDown, PeersFollow, InProgress, serverVars, OwnConnections
<1>8. QED BY <1>1, <1>3, <1>5, <1>6, <1>7

-----------------------------------------------------------------------------
\* The order holds from the start, as long as the node is used once.
LEMMA OrderStarts == Init => OrderInv
<1> SUFFICES ASSUME Init PROVE OrderInv
  OBVIOUS
<1>1. /\ todo = [c \in Callers |-> <<>>] /\ stops = 0 /\ stopChan = {} /\ stoppedChan = {}
      /\ loops = [x \in Components |-> 0] /\ ~sending /\ connector.at = "none" /\ ~panicked
      /\ clients = [a \in Addresses |-> None] /\ peers = [a \in Addresses |-> None]
      /\ opened = {} /\ dialled = 0 /\ closed = 0 /\ ~returned /\ ~running /\ ~draining
      /\ ~listening
      /\ rpc = [r \in Requests |-> Unborn]
  BY DEF Init, ServerInit
<1>2. Programs
  BY <1>1 DEF Programs
<1>3. \A c \in Callers : StopPos[c] = 0 /\ StartPos[c] = 0
  BY <1>1 DEF StopPos, StartPos, StopAt, StartAt
<1>4. \A k : ~Past(k)
  BY <1>1 DEF Past
<1>5. OneStop /\ OneStart
  BY <1>1, <1>3 DEF OneStop, OneStart, Connecting, Stopped
<1>6. Channels /\ ServerDown /\ PeersFollow
  BY <1>1, <1>4 DEF Channels, Stopped, ServerDown, InProgress, Unborn, PeersFollow, None, Components
<1>7. QED BY <1>1, <1>2, <1>5, <1>6 DEF OrderInv, Orderly

\* A step of Stop follows the program, and no caller moves in Start.
LEMMA StopStepStays ==
    ASSUME Programs, NEW c \in Callers, StopStep(c)
    PROVE  Programs' /\ StartPos' = StartPos
<1>1. ASSUME NEW what,
             NEW step \in {"close", "look", "wait", "drain", "drained", "closeAll"},
             Doing(c, step, what),
             Proceeds(c) \/ \E n \in 1..(14 - StopPos[c]) : Skips(c, n)
      PROVE  Programs' /\ StartPos' = StartPos
  BY <1>1, StopMoves
<1>2. CASE CloseStopChan(c) \/ Await(c) \/ ServerDrained(c) \/ CloseAll(c)
  BY <1>1, <1>2 DEF CloseStopChan, Await, ServerDrained, CloseAll
<1>3. CASE LookAtChannel(c) \/ LookAtFlag(c)
  <2>1. PICK x \in Components \ {"manager"} :
            Doing(c, "look", x) /\ (Proceeds(c) \/ \E n \in {2, 3} : Skips(c, n))
    BY <1>3 DEF LookAtChannel, LookAtFlag, Components
  <2>2. StopPos[c] \in 1..14 /\ StopPos[c] = ClosePos[x] - 1
    <3>1. StopPos[c] \in 1..14 /\ StopSteps[StopPos[c]] = <<"look", x>>
      BY <2>1, StopMoves
    <3>2. QED BY <3>1, WhereInStop
  <2>3. \A n \in {2, 3} : n \in 1..(14 - StopPos[c])
    BY <2>2, Positions
  <2>4. QED BY <1>1, <2>1, <2>3
<1>4. CASE DrainServer(c)
  <2>1. Doing(c, "drain", "server") /\ (Proceeds(c) \/ Skips(c, 2))
    BY <1>4 DEF DrainServer
  <2>2. StopPos[c] = 11
    <3>1. StopPos[c] \in 1..14 /\ StopSteps[StopPos[c]] = <<"drain", "server">>
      BY <2>1, StopMoves
    <3>2. QED BY <3>1, WhereInStop
  <2>3. 2 \in 1..(14 - StopPos[c])
    BY <2>2
  <2>4. QED BY <1>1, <2>1, <2>3
<1>5. CASE ListenerCloses(c)
  BY <1>5, Staying DEF ListenerCloses
<1>6. QED BY <1>2, <1>3, <1>4, <1>5 DEF StopStep

\* Programs are followed even by a node that is used more than once.
LEMMA ProgramsKept ==
    ASSUME Programs, [Next]_vars
    PROVE  Programs'
<1>1. ASSUME NEW c \in Callers, CallStart(c) \/ CallStop(c)
      PROVE  Programs'
  BY <1>1, Begins DEF CallStart, CallStop, MayCall
<1>2. ASSUME NEW c \in Callers, NEW what, NEW step \in {"listen", "register", "connect", "loop"},
             Doing(c, step, what), Proceeds(c)
      PROVE  Programs'
  BY <1>2, StartMoves
<1>3. ASSUME NEW c \in Callers, StartStep(c)
      PROVE  Programs'
  <2>1. CASE StartFails(c)
    BY <2>1, Returns DEF StartFails
  <2>2. CASE StartServer(c) \/ SpawnConnector(c)
    BY <1>2, <2>2 DEF StartServer, SpawnConnector
  <2>3. CASE RegisterHandler(c) \/ SpawnLoop(c)
    BY <1>2, <2>3 DEF RegisterHandler, SpawnLoop
  <2>4. QED BY <1>3, <2>1, <2>2, <2>3 DEF StartStep
<1>4. ASSUME NEW c \in Callers, StopStep(c)
      PROVE  Programs'
  BY <1>4, StopStepStays
<1>5. CASE todo' = todo
  BY <1>5, Staying
<1>6. CASE \/ ConnectStep \/ BeginBroadcast \/ EndBroadcast
           \/ (\E x \in Components : EndLoop(x)) \/ \E r \in Requests : RPCStep(r)
  <2>1. todo' = todo
    BY <1>6 DEF ConnectStep, Dial, DialFails, Fetch, Offer, BeginBroadcast, EndBroadcast, EndLoop,
                RPCStep, Elsewhere
  <2>2. QED BY <1>5, <2>1
<1>7. CASE UNCHANGED vars
  BY <1>5, <1>7 DEF vars
<1>8. QED BY <1>1, <1>3, <1>4, <1>6, <1>7 DEF Next

\* A node that is used once so far was used once before.
LEMMA UseCounts ==
    ASSUME stops \in Nat, [Next]_vars
    PROVE  stops' \in Nat /\ (UsedOnce' => UsedOnce)
<1>1. CASE UNCHANGED <<stops, restarted>>
  BY <1>1 DEF UsedOnce
<1>2. ASSUME NEW c \in Callers,
             CallStart(c) \/ StartFails(c) \/ RegisterHandler(c) \/ SpawnConnector(c) \/ SpawnLoop(c)
      PROVE  UNCHANGED <<stops, restarted>>
  BY <1>2 DEF CallStart, StartFails, RegisterHandler, SpawnConnector, SpawnLoop, historyVars
<1>3. ASSUME NEW c \in Callers, CallStop(c) \/ StartServer(c)
      PROVE  stops' \in Nat /\ (UsedOnce' => UsedOnce)
  <2>1. CASE CallStop(c)
    <3>1. stops' = stops + 1 /\ restarted' = restarted
      BY <2>1 DEF CallStop
    <3>2. QED BY <3>1 DEF UsedOnce
  <2>2. CASE StartServer(c)
    <3>1. stops' = stops /\ (restarted => restarted')
      BY <2>2 DEF StartServer
    <3>2. QED BY <3>1 DEF UsedOnce
  <2>3. QED BY <1>3, <2>1, <2>2
<1>4. ASSUME NEW c \in Callers, StopStep(c)
      PROVE  UNCHANGED <<stops, restarted>>
  BY <1>4 DEF StopStep, LookAtChannel, LookAtFlag, CloseStopChan, Await, DrainServer,
              ListenerCloses, ServerDrained, CloseAll, historyVars
<1>5. CASE \/ ConnectStep \/ BeginBroadcast \/ EndBroadcast
           \/ (\E x \in Components : EndLoop(x)) \/ \E r \in Requests : RPCStep(r)
  BY <1>1, <1>5 DEF ConnectStep, Dial, DialFails, Fetch, Offer, BeginBroadcast, EndBroadcast,
                    EndLoop, RPCStep, Elsewhere, historyVars
<1>6. CASE UNCHANGED vars
  BY <1>1, <1>6 DEF vars, historyVars
<1>7. QED BY <1>1, <1>2, <1>3, <1>4, <1>5, <1>6 DEF Next, StartStep

LEMMA OrderStays ==
    ASSUME OrderInv, Connections, RPCsKnown, [Next]_vars
    PROVE  OrderInv'
<1>1. Programs' /\ stops' \in Nat
  BY ProgramsKept, UseCounts DEF OrderInv
<1>2. SUFFICES ASSUME UsedOnce' PROVE Orderly'
  BY <1>1 DEF OrderInv
<1>3. Ready
  BY <1>2, UseCounts DEF OrderInv, Ready
<1>4. ASSUME NEW c \in Callers, CallStart(c) \/ CallStop(c) PROVE Orderly'
  BY <1>2, <1>3, <1>4, CallsKeep
<1>5. ASSUME NEW c \in Callers, StartStep(c) PROVE Orderly'
  BY <1>2, <1>3, <1>5, ListenKeeps, FailedStartKeeps, RegistersKeep, ConnectorKeeps, SpawnsKeep
     DEF StartStep
<1>6. ASSUME NEW c \in Callers, StopStep(c) PROVE Orderly'
  BY <1>3, <1>6, LooksKeep, ClosesKeep, AwaitsKeep, DrainsKeep, ListenerKeeps, DrainedKeeps,
     CloseAllKeeps
     DEF StopStep
<1>7. ASSUME NEW x \in Components, EndLoop(x) PROVE Orderly'
  BY <1>3, <1>7, LoopsEnd
<1>8. CASE ConnectStep \/ BeginBroadcast \/ EndBroadcast
  BY <1>3, <1>8, ConnectingKeeps, BroadcastsKeep
<1>9. ASSUME NEW r \in Requests, RPCStep(r) PROVE Orderly'
  BY <1>3, <1>9, RPCsKeep
<1>10. CASE UNCHANGED vars
  <2>1. /\ StopPos' = StopPos /\ StartPos' = StartPos /\ stops' = stops /\ panicked' = panicked
        /\ UNCHANGED <<serverVars, chanVars, sending, connector, connVars, peers, closed, returned>>
    BY <1>10, Staying DEF vars, historyVars
  <2>2. OneStop' /\ OneStart' /\ Channels' /\ ServerDown' /\ PeersFollow'
    BY <1>3, <2>1, StartsKept, ChannelsKept, ServerKept, PeersKept
       DEF Ready, Orderly, OneStop, StayPut, serverVars, chanVars
  <2>3. QED BY <1>3, <2>1, <2>2 DEF Ready, Orderly
<1>11. QED BY <1>4, <1>5, <1>6, <1>7, <1>8, <1>9, <1>10 DEF Next

\* Everything that is about the order of Start and Stop, at once.
LEMMA OrderAlways == SafeSpec => [](OrderInv /\ Connections)
<1>1. Init => RPCsKnown /\ Connections /\ OrderInv
  BY OrderStarts, RPCsStart, ConnectionsStart
<1>2. RPCsKnown /\ Connections /\ OrderInv /\ [Next]_vars => (RPCsKnown /\ Connections /\ OrderInv)'
  BY RPCsStay, ConnectionsStep, OrderStays
<1>3. QED BY <1>1, <1>2, PTL DEF SafeSpec

\* No channel of the four components is closed twice, however the looks and
\* closes of several callers and the ends of the loops interleave
\* (ac.go:214-237, dispatcher.go:106-118, pi/inspector.go:58-69, oca/controller.go:93-110).
THEOREM ClosedOnce == SafeSpec => []NoDoubleClose
<1>1. OrderInv => NoDoubleClose
  BY DEF OrderInv, Orderly, NoDoubleClose
<1>2. QED BY <1>1, OrderAlways, PTL

\* A Stop that has returned leaves no loop, no broadcast, no RPC, no server
\* and no connection dialled before CloseAll (ac.go:214-237).
THEOREM NothingLeftBehind == SafeSpec => []QuietAfterStop
<1>1. OrderInv => QuietAfterStop
  <2> SUFFICES ASSUME OrderInv, returned, UsedOnce
               PROVE  /\ \A x \in Components : loops[x] = 0
                      /\ ~sending /\ ~running /\ ~listening /\ InProgress = {}
                      /\ \A n \in opened : n > closed
    BY DEF QuietAfterStop
  <2>1. Programs /\ Orderly
    BY DEF OrderInv
  <2>2. StopPos \in [Callers -> 0..14] /\ Past(14)
    BY <2>1, PositionTypes DEF Orderly, Channels
  <2>3. \A k \in 1..14 : Past(k)
    BY <2>2 DEF Past
  <2>4. Past(12) /\ Past(13) /\ \A x \in Components : Past(WaitPos[x])
    BY <2>3, Positions
  <2>5. \A x \in Components : loops[x] = 0
    BY <2>1, <2>4 DEF Orderly, Channels
  <2>6. ~sending
    BY <2>1, <2>5 DEF Orderly, Channels, Components
  <2>7. QED BY <2>1, <2>4, <2>5, <2>6 DEF Orderly, ServerDown, PeersFollow
<1>2. QED BY <1>1, OrderAlways, PTL

\* The dispatcher sends over connections that are open, up to one that is just
\* being replaced (ac.go:220-229, dispatcher.go:359).
THEOREM NoClosedConnectionUsed == SafeSpec => []SendsOverOpen
<1>1. OrderInv /\ Connections => SendsOverOpen
  <2> SUFFICES ASSUME OrderInv, Connections, sending, UsedOnce, NEW a \in Addresses
               PROVE  \/ peers[a] \in opened \cup {None}
                      \/ connector.at \in {"fetch", "offer"} /\ CurrentAddress = a
    BY DEF SendsOverOpen
  <2>1. Programs /\ Orderly
    BY DEF OrderInv
  <2>2. StopPos \in [Callers -> 0..14]
    BY <2>1, PositionTypes
  <2>3. ~Past(13)
    <3>1. ~Past(10)
      BY <2>1, Positions DEF Orderly, Channels, Components
    <3>2. QED BY <2>2, <3>1 DEF Past
  <2>4. clients[a] \in opened \cup {None}
    BY DEF Connections, ConnectionsTracked
  <2>5. QED BY <2>1, <2>3, <2>4 DEF Orderly, PeersFollow
<1>2. QED BY <1>1, OrderAlways, PTL

-----------------------------------------------------------------------------
(* Types.                                                                  *)

\* Channels, flags and counts of calls.
Flags ==
    /\ running \in BOOLEAN /\ draining \in BOOLEAN /\ listening \in BOOLEAN
    /\ registered \subseteq Kinds /\ applied \subseteq Requests
    /\ stopChan \subseteq Components /\ stoppedChan \subseteq Components
    /\ sending \in BOOLEAN
    /\ panicked \in BOOLEAN /\ restarted \in BOOLEAN /\ returned \in BOOLEAN
    /\ calls \in 0..MaxCalls /\ stops \in 0..calls

\* connectToPeers dials at most once for each place in the configuration.
DialledOnce ==
    /\ dialled \in Nat
    /\ connector \in Connector
    /\ dialled <= Len(PeerAddresses)
    /\ connector.at \in {"none", "dial"} => dialled < connector.i
    /\ connector.at \in {"fetch", "offer"} => dialled <= connector.i
    /\ connector.got <= dialled
    /\ peers \in [Addresses -> 0..dialled] /\ closed \in 0..dialled

\* Callers that have yet to begin the loop of x.
ToSpawn(x) == {c \in Callers : StartPos[c] \in 1..LoopPos[x]}

\* Every call begins a loop at most once.
LoopsCounted ==
    /\ loops \in [Components -> Nat]
    /\ \A x \in Components : IsFiniteSet(ToSpawn(x)) /\ loops[x] + Cardinality(ToSpawn(x)) <= calls

\* The inductive form of TypeOK.
TypesInv == RPCsKnown /\ Connections /\ Programs /\ Flags /\ DialledOnce /\ LoopsCounted

\* A step leaves the flags of the server and of the channels flags.
LEMMA FlagsKept ==
    ASSUME Flags, [Next]_vars
    PROVE  Flags'
<1> USE DEF Flags
<1>1. CASE UNCHANGED <<serverVars, chanVars, sending, panicked, calls, restarted, returned, stops>>
  BY <1>1 DEF serverVars, chanVars
<1>2. ASSUME NEW c \in Callers, CallStart(c) PROVE Flags'
  <2>1. calls' = calls + 1 /\ stops' = stops /\ calls + 1 \in 0..MaxCalls
    BY <1>2, MaxCallsAssumption DEF CallStart, MayCall, historyVars
  <2>2. stops \in 0..(calls + 1)
    BY MaxCallsAssumption
  <2> QED
    BY <1>2, <2>1, <2>2 DEF CallStart, serverVars, chanVars, historyVars
<1>3. ASSUME NEW c \in Callers, CallStop(c) PROVE Flags'
  <2>1. calls' = calls + 1 /\ stops' = stops + 1 /\ calls + 1 \in 0..MaxCalls
    BY <1>3, MaxCallsAssumption DEF CallStop, MayCall
  <2>2. stops + 1 \in 0..(calls + 1)
    BY MaxCallsAssumption
  <2> QED
    BY <1>3, <2>1, <2>2 DEF CallStop, serverVars, chanVars
<1>4. ASSUME NEW c \in Callers, StartStep(c) PROVE Flags'
  BY <1>4 DEF StartStep, StartServer, StartFails, RegisterHandler, SpawnConnector, SpawnLoop, Listen,
              Register, serverVars, chanVars, historyVars
<1>5. ASSUME NEW c \in Callers, StopStep(c) PROVE Flags'
  <2>1. CASE LookAtChannel(c) \/ LookAtFlag(c)
    BY <1>1, <2>1 DEF LookAtChannel, LookAtFlag, historyVars
  <2>2. CASE CloseStopChan(c)
    BY <2>2 DEF CloseStopChan, serverVars, historyVars
  <2>3. CASE Await(c)
    BY <2>3 DEF Await, serverVars, chanVars
  <2>4. CASE DrainServer(c) \/ ListenerCloses(c) \/ ServerDrained(c)
    BY <2>4 DEF DrainServer, ListenerCloses, ServerDrained, BeginGracefulStop, CloseListener,
                EndGracefulStop, serverVars, chanVars, historyVars
  <2>5. CASE CloseAll(c)
    BY <2>5 DEF CloseAll, serverVars, chanVars
  <2> QED
    BY <1>5, <2>1, <2>2, <2>3, <2>4, <2>5 DEF StopStep
<1>6. ASSUME NEW x \in Components, EndLoop(x) PROVE Flags'
  BY <1>6 DEF EndLoop, serverVars, historyVars
<1>7. CASE ConnectStep
  BY <1>1, <1>7 DEF ConnectStep, Dial, DialFails, Fetch, Offer, historyVars
<1>8. CASE BeginBroadcast \/ EndBroadcast
  BY <1>8 DEF BeginBroadcast, EndBroadcast, serverVars, chanVars, historyVars
<1>9. ASSUME NEW r \in Requests, RPCStep(r) PROVE Flags'
  <2>1. UNCHANGED <<running, draining, listening, registered>> /\ applied' \subseteq applied \cup {r}
    BY <1>9 DEF RPCStep, Client, Handler, Open, Recv, EndStream, Lookup, Call, Reply, ReplyFails
  <2> QED
    BY <1>9, <2>1 DEF RPCStep, Elsewhere, chanVars, historyVars
<1>10. CASE UNCHANGED vars
  BY <1>1, <1>10 DEF vars, historyVars
<1> QED
  BY <1>2, <1>3, <1>4, <1>5, <1>6, <1>7, <1>8, <1>9, <1>10 DEF Next

\* The next address is a place further on in the configuration.
LEMMA NextAddressDials ==
    ASSUME DialledOnce, ConnectorPlace, connector.at \in {"dial", "fetch", "offer"}, NextAddress,
           dialled' = dialled, closed' = closed, peers' \in [Addresses -> 0..dialled]
    PROVE  DialledOnce'
<1>1. connector.i \in Indices /\ Len(PeerAddresses) \in Nat /\ MaxRetries \in Nat \ {0}
  BY PeersAssumption, MaxRetriesAssumption DEF ConnectorPlace
<1>2. connector' = [connector EXCEPT
          !.at = IF connector.i = Len(PeerAddresses) THEN "done" ELSE "dial",
          !.i = connector.i + 1, !.try = 1, !.got = None]
  BY DEF NextAddress
<1>3. connector.i + 1 \in 1..(Len(PeerAddresses) + 1) /\ 1 \in 1..MaxRetries /\ None \in 0..Len(PeerAddresses)
  BY <1>1 DEF Indices, None
<1>4. connector' \in Connector
  BY <1>2, <1>3 DEF DialledOnce, Connector
<1>5. /\ connector'.at \in {"dial", "done"} /\ connector'.i = connector.i + 1 /\ connector'.got = None
  BY <1>2 DEF DialledOnce, Connector
<1>6. connector.i \in Nat /\ dialled <= connector.i /\ dialled \in Nat /\ closed \in 0..dialled
  BY <1>1 DEF DialledOnce, Indices
<1>7. dialled < connector.i + 1 /\ None <= dialled /\ dialled <= Len(PeerAddresses)
  BY <1>6 DEF None, DialledOnce
<1> QED
  BY <1>4, <1>5, <1>6, <1>7 DEF DialledOnce

\* What connectToPeers does keeps its place and what it has dialled together.
LEMMA ConnectStepDials ==
    ASSUME DialledOnce, Connections, ConnectStep
    PROVE  DialledOnce'
<1> USE DEF Connections
<1>0. /\ Len(PeerAddresses) \in Nat /\ MaxRetries \in Nat \ {0} /\ dialled \in Nat
      /\ connector \in Connector /\ connector.i \in Nat /\ closed \in 0..dialled
      /\ peers \in [Addresses -> 0..dialled]
  BY PeersAssumption, MaxRetriesAssumption DEF DialledOnce, Connector
<1>1. CASE Dial
  <2>1. /\ connector.at = "dial" /\ connector' = [connector EXCEPT !.at = "fetch"]
        /\ dialled' = dialled + 1 /\ peers' = peers /\ closed' = closed
    BY <1>1 DEF Dial, ConnectorAt, historyVars
  <2>2. connector.i \in Indices /\ dialled < connector.i /\ connector.got <= dialled /\ connector.got \in Nat
    BY <1>0, <2>1 DEF ConnectorPlace, DialledOnce, Connector
  <2>3. connector' \in Connector
    BY <1>0, <2>1 DEF Connector
  <2>4. connector'.at = "fetch" /\ connector'.i = connector.i /\ connector'.got = connector.got
    BY <1>0, <2>1 DEF Connector
  <2>5. /\ dialled + 1 \in Nat /\ dialled + 1 <= Len(PeerAddresses) /\ dialled + 1 <= connector.i
        /\ connector.got <= dialled + 1 /\ closed \in 0..(dialled + 1)
        /\ peers \in [Addresses -> 0..(dialled + 1)]
    BY <1>0, <2>2 DEF Indices
  <2> QED
    BY <2>1, <2>3, <2>4, <2>5 DEF DialledOnce
<1>2. CASE DialFails
  <2>1. connector.at = "dial" /\ dialled' = dialled /\ peers' = peers /\ closed' = closed
    BY <1>2 DEF DialFails, ConnectorAt, historyVars
  <2>2. CASE NextAddress
    BY <1>0, <2>1, <2>2, NextAddressDials
  <2>3. CASE connector.try < MaxRetries /\ connector' = [connector EXCEPT !.try = connector.try + 1]
    <3>1. connector.try + 1 \in 1..MaxRetries
      BY <1>0, <2>3 DEF Connector
    <3>2. connector' \in Connector
      BY <1>0, <2>3, <3>1 DEF Connector
    <3>3. connector'.at = connector.at /\ connector'.i = connector.i /\ connector'.got = connector.got
      BY <1>0, <2>3 DEF Connector
    <3> QED
      BY <2>1, <3>2, <3>3 DEF DialledOnce
  <2> QED
    BY <1>2, <2>2, <2>3 DEF DialFails
<1>3. CASE Fetch
  <2>1. /\ connector.at = "fetch" /\ CurrentAddress \in Addresses
        /\ dialled' = dialled /\ peers' = peers /\ closed' = closed
    BY <1>3, AddressesAreConfigured DEF Fetch, ConnectorAt, connVars, historyVars
  <2>2. CASE NextAddress
    BY <1>0, <2>1, <2>2, NextAddressDials
  <2>3. CASE connector' = [connector EXCEPT !.at = "offer", !.got = clients[CurrentAddress]]
    <3>1. clients[CurrentAddress] \in 0..dialled
      BY <2>1 DEF OwnConnections
    <3>2. clients[CurrentAddress] \in 0..Len(PeerAddresses)
      BY <1>0, <3>1 DEF DialledOnce
    <3>3. connector' \in Connector
      BY <1>0, <2>3, <3>2 DEF Connector
    <3>4. connector'.at = "offer" /\ connector'.i = connector.i /\ connector'.got = clients[CurrentAddress]
      BY <1>0, <2>3 DEF Connector
    <3> QED
      BY <1>0, <2>1, <3>1, <3>3, <3>4 DEF DialledOnce
  <2> QED
    BY <1>3, <2>2, <2>3 DEF Fetch
<1>4. CASE Offer
  <2>1. /\ connector.at = "offer" /\ NextAddress /\ dialled' = dialled /\ closed' = closed
        /\ peers' = [peers EXCEPT ![CurrentAddress] = connector.got]
    BY <1>4 DEF Offer, ConnectorAt, connVars, historyVars
  <2>2. connector.got \in 0..dialled
    BY <1>0 DEF DialledOnce, Connector
  <2>3. peers' \in [Addresses -> 0..dialled]
    BY <1>0, <2>1, <2>2
  <2> QED
    BY <2>1, <2>3, NextAddressDials
<1> QED
  BY <1>1, <1>2, <1>3, <1>4 DEF ConnectStep

\* Every step does.
LEMMA DialledKept ==
    ASSUME DialledOnce, Connections, [Next]_vars
    PROVE  DialledOnce'
<1>1. CASE UNCHANGED <<connector, dialled, peers, closed>>
  BY <1>1 DEF DialledOnce
<1>2. ASSUME NEW c \in Callers, CloseAll(c) PROVE DialledOnce'
  <2>1. closed' = dialled /\ UNCHANGED <<connector, dialled, peers>> /\ dialled \in 0..dialled
    BY <1>2 DEF CloseAll, DialledOnce
  <2> QED
    BY <2>1 DEF DialledOnce
<1>3. ASSUME NEW c \in Callers, SpawnConnector(c) PROVE DialledOnce'
  <2>1. UNCHANGED <<dialled, peers, closed>>
    BY <1>3 DEF SpawnConnector, connVars, historyVars
  <2>2. CASE Connecting
    BY <1>1, <1>3, <2>1, <2>2 DEF SpawnConnector
  <2>3. CASE ~Connecting
    <3>1. connector' = [connector EXCEPT !.at = IF Indices = {} THEN "done" ELSE "dial"]
      BY <1>3, <2>3 DEF SpawnConnector
    <3>2. /\ connector' \in Connector /\ connector'.at \in {"done", "dial"}
          /\ connector'.i = connector.i /\ connector'.got = connector.got
      BY <3>1 DEF DialledOnce, Connector
    <3>3. dialled < connector.i
      BY <2>3 DEF Connecting, DialledOnce
    <3> QED
      BY <2>1, <3>2, <3>3 DEF DialledOnce
  <2> QED
    BY <2>2, <2>3
<1>4. ASSUME NEW c \in Callers,
             CallStart(c) \/ CallStop(c) \/ (StartStep(c) /\ ~SpawnConnector(c))
               \/ (StopStep(c) /\ ~CloseAll(c))
      PROVE  DialledOnce'
  BY <1>1, <1>4 DEF CallStart, CallStop, StartStep, StartServer, StartFails, RegisterHandler, SpawnLoop,
              StopStep, LookAtChannel, LookAtFlag, CloseStopChan, Await, DrainServer,
              ListenerCloses, ServerDrained, connVars, historyVars
<1>5. CASE \/ BeginBroadcast \/ EndBroadcast
           \/ \E x \in Components : EndLoop(x)
           \/ \E r \in Requests : RPCStep(r)
  BY <1>1, <1>5 DEF BeginBroadcast, EndBroadcast, EndLoop, RPCStep, Elsewhere, connVars, historyVars
<1>6. CASE UNCHANGED vars
  BY <1>1, <1>6 DEF vars, connVars, historyVars
<1> QED
  BY <1>2, <1>3, <1>4, <1>5, <1>6, ConnectStepDials DEF Next

\* Where nobody is added to those that have yet to begin a loop, and no loop begins.
LEMMA CountsShrink ==
    ASSUME LoopsCounted, calls \in Nat, calls' \in Nat, calls <= calls',
           loops' \in [Components -> Nat], \A x \in Components : loops'[x] <= loops[x],
           \A x \in Components : ToSpawn(x)' \subseteq ToSpawn(x)
    PROVE  LoopsCounted'
<1> SUFFICES ASSUME NEW x \in Components
             PROVE  /\ IsFiniteSet(ToSpawn(x)')
                    /\ loops'[x] + Cardinality(ToSpawn(x)') <= calls'
  BY DEF LoopsCounted
<1>1. /\ IsFiniteSet(ToSpawn(x)) /\ loops[x] + Cardinality(ToSpawn(x)) <= calls
      /\ loops[x] \in Nat /\ loops'[x] \in Nat /\ loops'[x] <= loops[x]
  BY DEF LoopsCounted
<1>2. /\ IsFiniteSet(ToSpawn(x)') /\ Cardinality(ToSpawn(x)') <= Cardinality(ToSpawn(x))
      /\ Cardinality(ToSpawn(x)') \in Nat /\ Cardinality(ToSpawn(x)) \in Nat
  BY <1>1, FS_Subset, FS_CardinalityType
<1> QED
  BY <1>1, <1>2

\* A caller of Start that goes on or ends it is ahead of no more loops than before.
LEMMA GoingOnShrinks ==
    ASSUME Programs, NEW c \in Callers, StartPos[c] \in 1..8,
           NEW k \in {0, StartPos[c] + 1}, StartPos' = [StartPos EXCEPT ![c] = k]
    PROVE  /\ \A x \in Components : ToSpawn(x)' \subseteq ToSpawn(x)
           /\ \A x \in Components : StartPos[c] = LoopPos[x] => ToSpawn(x)' = ToSpawn(x) \ {c}
<1>1. StartPos \in [Callers -> 0..8]
  BY PositionTypes
<1>2. StartPos'[c] = k /\ \A d \in Callers \ {c} : StartPos'[d] = StartPos[d]
  BY <1>1
<1>3. \A x \in Components : LoopPos[x] \in 5..8
  BY Positions
<1> QED
  BY <1>1, <1>2, <1>3 DEF ToSpawn

\* The steps of Start.
LEMMA StartStepCounts ==
    ASSUME LoopsCounted, Flags, Programs, NEW c \in Callers, StartStep(c)
    PROVE  LoopsCounted'
<1>1. loops \in [Components -> Nat] /\ calls \in Nat
  BY MaxCallsAssumption DEF LoopsCounted, Flags
<1>2. ASSUME NEW what, NEW step \in {"listen", "register", "connect", "loop"},
             Doing(c, step, what), Proceeds(c)
      PROVE  \E k \in {0, StartPos[c] + 1} : StartPos[c] \in 1..8 /\ StartPos' = [StartPos EXCEPT ![c] = k]
  BY <1>2, StartMoves
<1>3. CASE StartFails(c)
  <2>1. Goes(c, <<>>) /\ Doing(c, "listen", "server") /\ loops' = loops /\ calls' = calls
    BY <1>3 DEF StartFails, chanVars
  <2>2. StartPos' = [StartPos EXCEPT ![c] = 0] /\ StartPos[c] \in 1..8
    BY <2>1, Returns, StartMoves
  <2>3. \A x \in Components : ToSpawn(x)' \subseteq ToSpawn(x)
    BY <2>2, GoingOnShrinks
  <2> QED
    BY <1>1, <2>1, <2>3, CountsShrink
<1>4. CASE StartServer(c) \/ SpawnConnector(c) \/ RegisterHandler(c)
  <2>1. /\ \E step \in {"listen", "register", "connect", "loop"} : \E what : Doing(c, step, what)
        /\ Proceeds(c) /\ loops' = loops /\ calls' = calls
    BY <1>4 DEF StartServer, SpawnConnector, RegisterHandler, chanVars
  <2>2. \A x \in Components : ToSpawn(x)' \subseteq ToSpawn(x)
    BY <1>2, <2>1, GoingOnShrinks
  <2> QED
    BY <1>1, <2>1, <2>2, CountsShrink
<1>5. CASE SpawnLoop(c)
  <2>1. PICK y \in Components : /\ Doing(c, "loop", y) /\ Proceeds(c)
                                /\ loops' = [loops EXCEPT ![y] = @ + 1] /\ calls' = calls
    BY <1>5 DEF SpawnLoop
  <2>2. StartPos[c] \in 1..8 /\ StartPos[c] = LoopPos[y]
    <3>1. StartPos[c] \in 1..8 /\ StartSteps[StartPos[c]] = <<"loop", y>>
      BY <2>1, StartMoves
    <3> QED
      BY <3>1, WhereInStart
  <2>3. PICK k \in {0, StartPos[c] + 1} : StartPos' = [StartPos EXCEPT ![c] = k]
    BY <1>2, <2>1
  <2>4. /\ \A x \in Components : ToSpawn(x)' \subseteq ToSpawn(x)
        /\ ToSpawn(y)' = ToSpawn(y) \ {c} /\ c \in ToSpawn(y)
    <3>1. c \in ToSpawn(y)
      BY <2>2, Positions DEF ToSpawn
    <3>2. /\ \A x \in Components : ToSpawn(x)' \subseteq ToSpawn(x)
          /\ \A x \in Components : StartPos[c] = LoopPos[x] => ToSpawn(x)' = ToSpawn(x) \ {c}
      BY <2>2, <2>3, GoingOnShrinks
    <3> QED
      BY <2>2, <3>1, <3>2
  <2>5. /\ loops' \in [Components -> Nat] /\ loops'[y] = loops[y] + 1
        /\ \A x \in Components \ {y} : loops'[x] = loops[x]
    BY <1>1, <2>1
  <2>6. ASSUME NEW x \in Components
        PROVE  IsFiniteSet(ToSpawn(x)') /\ loops'[x] + Cardinality(ToSpawn(x)') <= calls'
    <3>1. /\ IsFiniteSet(ToSpawn(x)) /\ loops[x] + Cardinality(ToSpawn(x)) <= calls
          /\ loops[x] \in Nat /\ calls' = calls
      BY <2>1 DEF LoopsCounted
    <3>2. IsFiniteSet(ToSpawn(x)') /\ Cardinality(ToSpawn(x)') <= Cardinality(ToSpawn(x))
          /\ Cardinality(ToSpawn(x)') \in Nat /\ Cardinality(ToSpawn(x)) \in Nat
      BY <2>4, <3>1, FS_Subset, FS_CardinalityType
    <3>3. CASE x = y
      <4>1. Cardinality(ToSpawn(x) \ {c}) = Cardinality(ToSpawn(x)) - 1
        BY <2>4, <3>1, <3>3, FS_RemoveElement
      <4>2. Cardinality(ToSpawn(x)') = Cardinality(ToSpawn(x)) - 1
        BY <2>4, <3>3, <4>1
      <4> QED
        BY <1>1, <2>5, <3>1, <3>2, <3>3, <4>2
    <3>4. CASE x # y
      BY <1>1, <2>5, <3>1, <3>2, <3>4
    <3> QED
      BY <3>3, <3>4
  <2> QED
    BY <2>5, <2>6 DEF LoopsCounted
<1> QED
  BY <1>3, <1>4, <1>5 DEF StartStep

\* A call of Start counts one more caller for every loop, a call of Stop none.
LEMMA CallCounts ==
    ASSUME LoopsCounted, Flags, Flags', Programs, NEW c \in Callers, CallStart(c) \/ CallStop(c)
    PROVE  LoopsCounted'
<1>1. loops \in [Components -> Nat] /\ calls \in Nat /\ calls' \in Nat
  BY MaxCallsAssumption DEF LoopsCounted, Flags
<1>2. loops' = loops /\ calls' = calls + 1 /\ todo[c] = <<>>
  BY DEF CallStart, CallStop, MayCall, chanVars
<1>3. CASE CallStop(c)
  <2>1. StartPos' = StartPos
    BY <1>2, <1>3, Begins DEF CallStop
  <2>2. \A x \in Components : ToSpawn(x)' \subseteq ToSpawn(x)
    BY <2>1 DEF ToSpawn
  <2> QED
    BY <1>1, <1>2, <2>2, CountsShrink
<1>4. CASE CallStart(c)
  <2>1. StartPos' = [StartPos EXCEPT ![c] = 1] /\ StartPos[c] = 0 /\ StartPos \in [Callers -> 0..8]
    BY <1>2, <1>4, Begins, PositionTypes DEF CallStart
  <2>2. StartPos'[c] = 1 /\ \A d \in Callers \ {c} : StartPos'[d] = StartPos[d]
    BY <2>1
  <2>3. \A x \in Components : ToSpawn(x)' = ToSpawn(x) \cup {c} /\ c \notin ToSpawn(x)
    BY <2>1, <2>2, Positions DEF ToSpawn
  <2>4. ASSUME NEW x \in Components
        PROVE  IsFiniteSet(ToSpawn(x)') /\ loops'[x] + Cardinality(ToSpawn(x)') <= calls'
    <3>1. IsFiniteSet(ToSpawn(x)) /\ loops[x] + Cardinality(ToSpawn(x)) <= calls /\ loops[x] \in Nat
      BY DEF LoopsCounted
    <3>2. IsFiniteSet(ToSpawn(x) \cup {c}) /\ Cardinality(ToSpawn(x) \cup {c}) = Cardinality(ToSpawn(x)) + 1
      BY <2>3, <3>1, FS_AddElement
    <3>3. IsFiniteSet(ToSpawn(x)') /\ Cardinality(ToSpawn(x)') = Cardinality(ToSpawn(x)) + 1
      BY <2>3, <3>2
    <3>4. Cardinality(ToSpawn(x)) \in Nat
      BY <3>1, FS_CardinalityType
    <3> QED
      BY <1>1, <1>2, <3>1, <3>3, <3>4
  <2> QED
    BY <1>1, <1>2, <2>4 DEF LoopsCounted
<1> QED
  BY <1>3, <1>4

\* Every step keeps the count.
LEMMA CountsKept ==
    ASSUME LoopsCounted, Flags, Flags', Programs, [Next]_vars
    PROVE  LoopsCounted'
<1>1. loops \in [Components -> Nat] /\ calls \in Nat
  BY MaxCallsAssumption DEF LoopsCounted, Flags
<1>2. ASSUME StartPos' = StartPos, loops' \in [Components -> Nat],
             \A x \in Components : loops'[x] <= loops[x], calls' = calls
      PROVE  LoopsCounted'
  <2>1. \A x \in Components : ToSpawn(x)' \subseteq ToSpawn(x)
    BY <1>2 DEF ToSpawn
  <2> QED
    BY <1>1, <1>2, <2>1, CountsShrink
<1>3. ASSUME StartPos' = StartPos, loops' = loops, calls' = calls PROVE LoopsCounted'
  BY <1>1, <1>2, <1>3
<1>4. ASSUME NEW c \in Callers, StopStep(c) PROVE LoopsCounted'
  <2>1. loops' = loops /\ calls' = calls
    BY <1>4 DEF StopStep, LookAtChannel, LookAtFlag, CloseStopChan, Await, DrainServer,
                ListenerCloses, ServerDrained, CloseAll, chanVars
  <2> QED
    BY <1>3, <1>4, <2>1, StopStepStays
<1>5. ASSUME NEW x \in Components, EndLoop(x) PROVE LoopsCounted'
  <2>1. /\ loops' = [loops EXCEPT ![x] = loops[x] - 1] /\ loops[x] > 0 /\ calls' = calls
        /\ StartPos' = StartPos
    BY <1>5, Staying DEF EndLoop
  <2>2. loops[x] - 1 \in Nat /\ loops[x] - 1 <= loops[x]
    BY <1>1, <2>1
  <2>3. loops' \in [Components -> Nat] /\ \A y \in Components : loops'[y] <= loops[y]
    BY <1>1, <2>1, <2>2
  <2> QED
    BY <1>2, <2>1, <2>3
<1>6. CASE ConnectStep \/ BeginBroadcast \/ EndBroadcast
  <2>1. todo' = todo /\ loops' = loops /\ calls' = calls
    BY <1>6 DEF ConnectStep, Dial, DialFails, Fetch, Offer, BeginBroadcast, EndBroadcast, chanVars
  <2> QED
    BY <1>3, <2>1, Staying
<1>7. ASSUME NEW r \in Requests, RPCStep(r) PROVE LoopsCounted'
  <2>1. todo' = todo /\ loops' = loops /\ calls' = calls
    BY <1>7 DEF RPCStep, Elsewhere, chanVars
  <2> QED
    BY <1>3, <2>1, Staying
<1>8. CASE UNCHANGED vars
  <2>1. todo' = todo /\ loops' = loops /\ calls' = calls
    BY <1>8 DEF vars, chanVars
  <2> QED
    BY <1>3, <2>1, Staying
<1> QED
  BY <1>4, <1>5, <1>6, <1>7, <1>8, CallCounts, StartStepCounts DEF Next

\* At first nothing is begun.
LEMMA TypesStart == Init => TypesInv
<1> SUFFICES ASSUME Init PROVE TypesInv
  OBVIOUS
<1>1. RPCsKnown /\ Connections /\ Programs
  BY RPCsStart, ConnectionsStart, OrderStarts DEF OrderInv
<1>2. Flags
  <2>1. 0 \in 0..MaxCalls /\ 0 \in 0..0
    BY MaxCallsAssumption
  <2> QED
    BY <2>1 DEF Init, ServerInit, Flags
<1>3. DialledOnce
  <2>1. Len(PeerAddresses) \in Nat /\ 1 \in 1..(Len(PeerAddresses) + 1) /\ 1 \in 1..MaxRetries
    BY PeersAssumption, MaxRetriesAssumption
  <2> QED
    BY <2>1 DEF Init, DialledOnce, Connector, None
<1>4. LoopsCounted
  <2>1. \A c \in Callers : StartPos[c] = 0
    BY DEF Init, StartPos, StartAt
  <2>2. \A x \in Components : ToSpawn(x) = {}
    BY <2>1 DEF ToSpawn
  <2>3. IsFiniteSet({}) /\ Cardinality({}) = 0
    BY FS_EmptySet
  <2>4. loops \in [Components -> Nat] /\ calls = 0 /\ \A x \in Components : loops[x] = 0
    BY DEF Init
  <2>5. \A x \in Components : IsFiniteSet(ToSpawn(x)) /\ loops[x] + Cardinality(ToSpawn(x)) <= calls
    BY <2>2, <2>3, <2>4
  <2> QED
    BY <2>4, <2>5 DEF LoopsCounted
<1> QED
  BY <1>1, <1>2, <1>3, <1>4 DEF TypesInv

\* What is left of a program is one of its ends.
LEMMA ProgramsAreSuffixes ==
    ASSUME Programs
    PROVE  \A c \in Callers : todo[c] \in Suffixes(StartSteps) \cup Suffixes(StopSteps)
<1>1. Len(StartSteps) = 8 /\ Len(StopSteps) = 14
  BY StartProgram, StopProgram
<1>2. StartSteps \in Seq(Instructions)
  BY StartProgram
<1>3. SubSeq(StartSteps, 9, 8) = <<>>
  BY <1>2, SubSeqEmpty
<1>4. <<>> \in Suffixes(StartSteps)
  BY <1>1, <1>3 DEF Suffixes
<1>5. \A k \in 1..8 : From(StartSteps, k) \in Suffixes(StartSteps)
  BY <1>1 DEF Suffixes, From
<1>6. \A k \in 1..14 : From(StopSteps, k) \in Suffixes(StopSteps)
  BY <1>1 DEF Suffixes, From
<1> QED
  BY <1>4, <1>5, <1>6 DEF Programs

\* The types follow.
LEMMA TypesFollow == TypesInv => TypeOK
<1> SUFFICES ASSUME TypesInv PROVE TypeOK
  OBVIOUS
<1> USE DEF TypesInv
<1>1. ServerTypeOK
  BY DEF ServerTypeOK, RPCsKnown, Flags
<1>2. \A c \in Callers : todo[c] \in Suffixes(StartSteps) \cup Suffixes(StopSteps)
  BY ProgramsAreSuffixes
<1>3. loops \in [Components -> 0..MaxCalls]
  <2>1. ASSUME NEW x \in Components PROVE loops[x] \in 0..MaxCalls
    <3>1. /\ IsFiniteSet(ToSpawn(x)) /\ loops[x] + Cardinality(ToSpawn(x)) <= calls
          /\ loops[x] \in Nat /\ calls \in 0..MaxCalls
      BY DEF LoopsCounted, Flags
    <3>2. Cardinality(ToSpawn(x)) \in Nat
      BY <3>1, FS_CardinalityType
    <3> QED
      BY <3>1, <3>2, MaxCallsAssumption
  <2> QED
    BY <2>1 DEF LoopsCounted
<1>4. clients \in [Addresses -> 0..dialled] /\ dialled \in Nat
  BY DEF Connections, OwnConnections
<1>5. opened \subseteq 1..dialled
  BY <1>4 DEF Connections, ConnectionsTracked, None
<1>6. dialled \in 0..Len(PeerAddresses)
  BY <1>4, PeersAssumption DEF DialledOnce
<1> QED
  BY <1>1, <1>2, <1>3, <1>4, <1>5, <1>6 DEF TypeOK, Flags, DialledOnce

\* Every variable of a node that starts and stops keeps its type, however often
\* it is started and stopped; in particular connectToPeers stays within the
\* configuration and the retries (ac.go:400-435), and no component has more
\* loops than there were calls.
THEOREM LifecycleTypes == SafeSpec => []TypeOK
<1>1. TypesInv /\ [Next]_vars => TypesInv'
  BY RPCsStay, ConnectionsStep, ProgramsKept, FlagsKept, DialledKept, CountsKept DEF TypesInv
<1> QED
  BY <1>1, TypesStart, TypesFollow, PTL DEF SafeSpec
==============================================================================
