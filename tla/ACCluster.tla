------------------------------ MODULE ACCluster ------------------------------
(***************************************************************************)
(* ac.go and transport/grpc.go: managers that share one key.  Update adds  *)
(* the delta to the local counter, offers it to the dispatcher and takes   *)
(* it back if the dispatcher refuses.  The dispatch loop sends accepted    *)
(* deltas to one peer after the other and waits for each acknowledgement;  *)
(* the peer's gRPC server passes the message to HandleRemoteUpdate, which  *)
(* merges it into the local counter.                                       *)
(*                                                                         *)
(* The dispatcher is used through its abstract specification (Outbox): an  *)
(* accepted update leaves the outbox once, in any order.  Counters of      *)
(* different keys are independent, so one key is enough.                   *)
(***************************************************************************)
EXTENDS PNCounter, FiniteSets

CONSTANTS
    Deltas,         \* amounts callers pass to Update
    MaxUpdates,     \* bound: calls of Update on one node
    Reliable,       \* TRUE: no message is lost and no wait runs out
    Connected       \* TRUE: start after connectToPeers has run everywhere

ASSUME NodesAssumption == IsFiniteSet(Nodes)
ASSUME DeltasAssumption == Deltas \subseteq Int
ASSUME MaxUpdatesAssumption == MaxUpdates \in Nat
ASSUME SwitchesAssumption == Reliable \in BOOLEAN /\ Connected \in BOOLEAN

VARIABLES
    incr, decr,     \* Incr and Decr of every node's counter
    issued,         \* calls of Update so far, per node
    entering,       \* updates inside Update: applied locally, not yet answered
    outbox,         \* updates accepted by the dispatcher and not yet taken
    broadcasts,     \* the update each dispatch loop is sending
    network,        \* requests and acknowledgements under way
    clients,        \* peers each dispatcher has a client for
    handling,       \* nodes whose update handler is registered
    accepted,       \* history: updates for which Update returned nil
    reported,       \* history: updates counted as SuccessfulSends, with the
                    \* peers that were clients when the broadcast began
    unheard         \* history: updates that found a peer without a handler

countersVars == <<incr, decr>>
historyVars == <<accepted, reported, unheard>>
vars == <<countersVars, issued, entering, outbox, broadcasts, network, clients,
          handling, historyVars>>

Update == [node : Nodes, seq : 1..MaxUpdates, delta : Deltas]
Broadcasting == [update : Update, to : SUBSET Nodes, left : SUBSET Nodes, waiting : SUBSET Nodes, ok : BOOLEAN]
Messages == [kind : {"request", "ack"}, update : Update, to : Nodes, ok : BOOLEAN]

Amount(d) == IF d < 0 THEN -d ELSE d

\* The message sendSingle and sendBatch build from a request.
Wire(u) == [op |-> IF u.delta < 0 THEN "DECREMENT" ELSE "INCREMENT", value |-> Amount(u.delta)]

Init ==
    /\ incr = [n \in Nodes |-> Empty]
    /\ decr = [n \in Nodes |-> Empty]
    /\ issued = [n \in Nodes |-> 0]
    /\ entering = {}
    /\ outbox = {}
    /\ broadcasts = {}
    /\ network = {}
    /\ clients = [n \in Nodes |-> IF Connected THEN Nodes \ {n} ELSE {}]
    /\ handling = IF Connected THEN Nodes ELSE {}
    /\ accepted = {}
    /\ reported = {}
    /\ unheard = {}

-----------------------------------------------------------------------------
(* Update, called by any number of goroutines.                             *)

\* Wrong variant: the sign of a decrement is kept.
ApplyLocalSigned(n, d) ==
    IF d >= 0
    THEN incr' = [incr EXCEPT ![n] = Plus(@, n, d)] /\ UNCHANGED decr
    ELSE decr' = [decr EXCEPT ![n] = Plus(@, n, d)] /\ UNCHANGED incr

\* Increment for a delta that is not negative, Decrement otherwise.
ApplyLocal(n, d) ==
    IF d >= 0
    THEN incr' = [incr EXCEPT ![n] = Plus(@, n, d)] /\ UNCHANGED decr
    ELSE decr' = [decr EXCEPT ![n] = Plus(@, n, -d)] /\ UNCHANGED incr

BeginUpdate(n, d) ==
    /\ issued[n] < MaxUpdates
    /\ issued' = [issued EXCEPT ![n] = @ + 1]
    /\ ApplyLocal(n, d)
    /\ entering' = entering \cup {[node |-> n, seq |-> issued[n] + 1, delta |-> d]}
    /\ UNCHANGED <<outbox, broadcasts, network, clients, handling, historyVars>>

\* Enqueue returned nil.
Accept(u) ==
    /\ u \in entering
    /\ entering' = entering \ {u}
    /\ outbox' = outbox \cup {u}
    /\ accepted' = accepted \cup {u}
    /\ UNCHANGED <<countersVars, issued, broadcasts, network, clients, handling, reported, unheard>>

\* Wrong variant: the roll back is forgotten.
RefuseWithoutRollback(u) ==
    /\ u \in entering
    /\ entering' = entering \ {u}
    /\ UNCHANGED <<countersVars, issued, outbox, broadcasts, network, clients, handling,
                   historyVars>>

\* Enqueue returned an error: the opposite operation undoes the value, and both
\* maps keep the amount.  For a delta of zero it is a Decrement of zero.
Refuse(u) ==
    /\ u \in entering
    /\ entering' = entering \ {u}
    /\ IF u.delta >= 0
       THEN decr' = [decr EXCEPT ![u.node] = Plus(@, u.node, u.delta)] /\ UNCHANGED incr
       ELSE incr' = [incr EXCEPT ![u.node] = Plus(@, u.node, -u.delta)] /\ UNCHANGED decr
    /\ UNCHANGED <<issued, outbox, broadcasts, network, clients, handling, historyVars>>

-----------------------------------------------------------------------------
(* Starting up: registerGRPCHandlers and connectToPeers.                   *)

Sending(n) == \E b \in broadcasts : b.update.node = n

\* The server already listens; until now it answered with Success = false.
RegisterHandler(n) ==
    /\ n \notin handling
    /\ handling' = handling \cup {n}
    /\ UNCHANGED <<countersVars, issued, entering, outbox, broadcasts, network, clients,
                   historyVars>>

\* grpc.Dial does not wait for the peer, so the connection always succeeds.
\* AddPeer of the dispatcher waits for the broadcast that holds clientMutex.
ConnectToPeer(n, p) ==
    /\ p \notin clients[n] \cup {n}
    /\ ~Sending(n)
    /\ clients' = [clients EXCEPT ![n] = @ \cup {p}]
    /\ UNCHANGED <<countersVars, issued, entering, outbox, broadcasts, network, handling,
                   historyVars>>

-----------------------------------------------------------------------------
(* broadcastUpdate, called by the dispatch loop of u.node.                 *)

Replace(b, c) == broadcasts' = (broadcasts \ {b}) \cup {c}

BeginBroadcast(u) ==
    /\ u \in outbox
    /\ ~Sending(u.node)
    /\ outbox' = outbox \ {u}
    /\ broadcasts' = broadcasts \cup {[update |-> u, to |-> clients[u.node],
                                       left |-> clients[u.node], waiting |-> {}, ok |-> TRUE]}
    /\ UNCHANGED <<countersVars, issued, entering, network, clients, handling, historyVars>>

SendTo(b, p) ==
    /\ b \in broadcasts
    /\ b.waiting = {}
    /\ p \in b.left
    /\ Replace(b, [b EXCEPT !.left = @ \ {p}, !.waiting = {p}])
    /\ network' = network \cup {[kind |-> "request", update |-> b.update, to |-> p, ok |-> TRUE]}
    /\ UNCHANGED <<countersVars, issued, entering, outbox, clients, handling, historyVars>>

\* The stream cannot be opened or written; the loop goes on with the next peer.
SendFails(b, p) ==
    /\ ~Reliable
    /\ b \in broadcasts
    /\ b.waiting = {}
    /\ p \in b.left
    /\ Replace(b, [b EXCEPT !.left = @ \ {p}, !.ok = FALSE])
    /\ UNCHANGED <<countersVars, issued, entering, outbox, network, clients, handling,
                   historyVars>>

\* Any acknowledgement will do: ack.Success is not looked at.
ReceiveAck(b, m) ==
    /\ b \in broadcasts /\ m \in network
    /\ m.kind = "ack" /\ m.update = b.update /\ m.to \in b.waiting
    /\ Replace(b, [b EXCEPT !.waiting = {}])
    /\ network' = network \ {m}
    /\ UNCHANGED <<countersVars, issued, entering, outbox, clients, handling, historyVars>>

\* Wrong variant: a wait that ran out is not counted as a failure.
GiveUpSilently(b) ==
    /\ ~Reliable
    /\ b \in broadcasts
    /\ b.waiting # {}
    /\ Replace(b, [b EXCEPT !.waiting = {}])
    /\ network' = {m \in network : ~(m.kind = "ack" /\ m.update = b.update)}
    /\ UNCHANGED <<countersVars, issued, entering, outbox, clients, handling, historyVars>>

\* The context's deadline or a broken stream ends the wait.  The request may
\* still reach the peer; an acknowledgement finds nobody.
GiveUp(b) ==
    /\ ~Reliable
    /\ b \in broadcasts
    /\ b.waiting # {}
    /\ Replace(b, [b EXCEPT !.waiting = {}, !.ok = FALSE])
    /\ network' = {m \in network : ~(m.kind = "ack" /\ m.update = b.update)}
    /\ UNCHANGED <<countersVars, issued, entering, outbox, clients, handling, historyVars>>

\* Wrong variant: the loop over the clients ends after the first of them.
EndBroadcastEarly(b) ==
    /\ b \in broadcasts
    /\ b.waiting = {}
    /\ b.left # b.to
    /\ broadcasts' = broadcasts \ {b}
    /\ reported' = IF b.ok THEN reported \cup {[update |-> b.update, to |-> b.to]} ELSE reported
    /\ UNCHANGED <<countersVars, issued, entering, outbox, network, clients, handling,
                   accepted, unheard>>

EndBroadcast(b) ==
    /\ b \in broadcasts
    /\ b.left = {} /\ b.waiting = {}
    /\ broadcasts' = broadcasts \ {b}
    /\ reported' = IF b.ok THEN reported \cup {[update |-> b.update, to |-> b.to]} ELSE reported
    /\ UNCHANGED <<countersVars, issued, entering, outbox, network, clients, handling,
                   accepted, unheard>>

-----------------------------------------------------------------------------
(* The receiving side.                                                     *)

\* HandleRemoteUpdate: a delta, not a state, is what gets merged.
RemoteValue(u) == IF Wire(u).op = "DECREMENT" THEN -Wire(u).value ELSE Wire(u).value

\* Wrong variant: the sign is lost on the way.
MergeRemoteUnsigned(p, u) ==
    /\ incr' = [incr EXCEPT ![p] = MergeMap(@, Only(u.node, Wire(u).value))]
    /\ UNCHANGED decr

MergeRemote(p, u) ==
    LET value == RemoteValue(u)
    IN  IF value >= 0
        THEN incr' = [incr EXCEPT ![p] = MergeMap(@, Only(u.node, value))] /\ UNCHANGED decr
        ELSE decr' = [decr EXCEPT ![p] = MergeMap(@, Only(u.node, -value))] /\ UNCHANGED incr

\* The server answers the sender if it still waits.
Answer(m, success) ==
    network' = (network \ {m}) \cup
        (IF \E b \in broadcasts : b.update = m.update /\ m.to \in b.waiting
         THEN {[m EXCEPT !.kind = "ack", !.ok = success]} ELSE {})

HandleRequest(m) ==
    /\ m \in network
    /\ m.kind = "request"
    /\ IF m.to \in handling
       THEN MergeRemote(m.to, m.update) /\ Answer(m, TRUE) /\ UNCHANGED unheard
       ELSE /\ UNCHANGED countersVars /\ Answer(m, FALSE)
            /\ unheard' = unheard \cup {[update |-> m.update, by |-> m.to]}
    /\ UNCHANGED <<issued, entering, outbox, broadcasts, clients, handling, accepted, reported>>

Lose(m) ==
    /\ ~Reliable
    /\ m \in network
    /\ network' = network \ {m}
    /\ UNCHANGED <<countersVars, issued, entering, outbox, broadcasts, clients, handling,
                   historyVars>>

-----------------------------------------------------------------------------
Calls ==
    \/ \E n \in Nodes, d \in Deltas : BeginUpdate(n, d)
    \/ \E u \in entering : Accept(u) \/ Refuse(u)

Startup ==
    \E n \in Nodes : RegisterHandler(n) \/ \E p \in Nodes : ConnectToPeer(n, p)

DispatchLoops ==
    \/ \E u \in outbox : BeginBroadcast(u)
    \/ \E b \in broadcasts :
        \/ \E p \in Nodes : SendTo(b, p) \/ SendFails(b, p)
        \/ \E m \in network : ReceiveAck(b, m)
        \/ GiveUp(b)
        \/ EndBroadcast(b)

Network == \E m \in network : HandleRequest(m) \/ Lose(m)

Quiet == entering = {} /\ outbox = {} /\ broadcasts = {} /\ network = {}

\* Callers have used up the bound and nothing is left to do.
Rest ==
    /\ Quiet
    /\ \A n \in Nodes : issued[n] = MaxUpdates
    /\ UNCHANGED vars

Next == Calls \/ Startup \/ DispatchLoops \/ Network \/ Rest

Answered == \E u \in entering : Accept(u) \/ Refuse(u)

\* Update returns, the managers start up, every dispatch loop goes on and
\* what is under way is handled.  No call of Update is owed.
Fairness ==
    /\ WF_vars(Answered)
    /\ WF_vars(Startup)
    /\ WF_vars(DispatchLoops)
    /\ WF_vars(Network)

SafeSpec == Init /\ [][Next]_vars
Spec == SafeSpec /\ Fairness

-----------------------------------------------------------------------------
(* Properties.                                                             *)

TypeOK ==
    /\ incr \in [Nodes -> Maps]
    /\ decr \in [Nodes -> Maps]
    /\ issued \in [Nodes -> 0..MaxUpdates]
    /\ entering \subseteq Update
    /\ outbox \subseteq Update
    /\ broadcasts \subseteq Broadcasting
    /\ network \subseteq Messages
    /\ clients \in [Nodes -> SUBSET Nodes]
    /\ handling \subseteq Nodes
    /\ accepted \subseteq Update
    /\ reported \subseteq [update : Update, to : SUBSET Nodes]
    /\ unheard \subseteq [update : Update, by : Nodes]

\* No node ever credits another with more than that node has done, whatever is
\* lost, late, refused or rolled back.
NeverAhead ==
    \A n, m \in Nodes : incr[m][n] <= incr[n][n] /\ decr[m][n] <= decr[n][n]

SumDeltas(S) == SumFunction([u \in S |-> u.delta])

\* A node's own part of the value is exactly the updates it accepted and those
\* still being decided: a refused update leaves no trace in it, and neither
\* does any message from a peer.
OwnValueExact ==
    \A n \in Nodes :
        incr[n][n] - decr[n][n] = SumDeltas({u \in accepted \cup entering : u.node = n})

NodeValue(n) == Value(incr[n], decr[n])

AllEqual == \A n, m \in Nodes : NodeValue(n) = NodeValue(m)

Applied(u, p) == Amount(u.delta) <= IF u.delta >= 0 THEN incr[p][u.node] ELSE decr[p][u.node]

\* An update counted as a successful send has reached the counter of every peer
\* the node was connected to when the broadcast began, even if waits run out,
\* messages are lost or late and peers connect meanwhile; the only excuse is a
\* peer that had not registered its handler, whose refusal nobody looks at.
ReportedIsApplied ==
    \A s \in reported : \A p \in s.to :
        Applied(s.update, p) \/ [update |-> s.update, by |-> p] \in unheard

\* With one update per node, no loss and all connections up, all nodes agree
\* whenever nothing is under way: every peer then holds exactly what each node
\* accepted, and nothing of the updates it refused and rolled back.
AgreeWhenQuiet == Quiet => AllEqual

\* README.md:85, "PN-Counter, supports eventually consistent counting in a
\* distributed environment", and testPlan.md:848, "all nodes are eventually
\* consistent": in the end all nodes agree for good.  With one update per node,
\* no loss and all connections up (the test plan's scenario) it holds; a second
\* update of a node is lost at its peers even so.
EventuallyConsistent == <>[]AllEqual
=============================================================================
