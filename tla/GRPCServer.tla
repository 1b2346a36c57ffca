----------------------------- MODULE GRPCServer -----------------------------
(***************************************************************************)
(* transport/grpc.go, the server: the RPCs of the peers, each in a         *)
(* goroutine of its own, the two callbacks they look up under the server's *)
(* mutex, and Start and Stop, which hold that mutex to write.  Who calls   *)
(* Start and Stop is said by the module that extends this one.             *)
(*                                                                         *)
(* A lookup takes the read lock and gives it back in one step, so the      *)
(* mutex is seen by others only while Stop keeps it: that is "draining".    *)
(***************************************************************************)
EXTENDS Naturals, Sequences

CONSTANT Requests       \* bound: the RPCs that peers issue

VARIABLES
    running,            \* isRunning
    draining,           \* a Stop holds the mutex, from its test to its end
    listening,          \* gRPC listens
    registered,         \* kinds of RPC whose callback is set
    rpc,                \* where each RPC is
    applied             \* history: RPCs whose callback was called

serverVars == <<running, draining, listening, registered, rpc, applied>>

\* PropagateUpdate is a stream, ChangeConsistencyLevel is unary.
Kinds == {"update", "level"}

Stages == {"unborn", "recv", "lookup", "handle", "send", "done"}

RPC == [kind : Kinds, at : Stages,
        found : BOOLEAN,                \* local variable handler is not nil
        success : BOOLEAN,              \* local variable success
        answer : {"none", "yes", "no"}] \* what the client was told

Unborn == [kind |-> "update", at |-> "unborn", found |-> FALSE, success |-> FALSE,
           answer |-> "none"]

ServerTypeOK ==
    /\ {running, draining, listening} \subseteq BOOLEAN
    /\ registered \subseteq Kinds
    /\ rpc \in [Requests -> RPC]
    /\ applied \subseteq Requests

ServerInit ==
    /\ running = FALSE /\ draining = FALSE /\ listening = FALSE
    /\ registered = {}
    /\ rpc = [r \in Requests |-> Unborn]
    /\ applied = {}

InProgress == {r \in Requests : rpc[r].at \notin {"unborn", "done"}}

-----------------------------------------------------------------------------
(* Start, Stop and the registrations; each returns with the mutex free,    *)
(* but for a Stop that goes on.                                            *)

Listen ==
    /\ ~draining /\ ~running
    /\ running' = TRUE /\ listening' = TRUE
    /\ UNCHANGED <<draining, registered, rpc, applied>>

Register(kind) ==
    /\ ~draining
    /\ registered' = registered \cup {kind}
    /\ UNCHANGED <<running, draining, listening, rpc, applied>>

BeginGracefulStop ==
    /\ ~draining /\ running
    /\ draining' = TRUE
    /\ UNCHANGED <<running, listening, registered, rpc, applied>>

\* The first thing that GracefulStop does.
CloseListener ==
    /\ draining /\ listening
    /\ listening' = FALSE
    /\ UNCHANGED <<running, draining, registered, rpc, applied>>

\* Wrong variant: grpc's Stop, which closes connections but does not wait for handlers.
EndAbruptStop ==
    /\ draining /\ ~listening
    /\ draining' = FALSE /\ running' = FALSE
    /\ UNCHANGED <<listening, registered, rpc, applied>>

\* GracefulStop returns when no RPC is left.
EndGracefulStop ==
    /\ draining /\ ~listening
    /\ InProgress = {}
    /\ draining' = FALSE /\ running' = FALSE
    /\ UNCHANGED <<listening, registered, rpc, applied>>

-----------------------------------------------------------------------------
(* The RPCs.                                                               *)

At(r, stage) == rpc[r].at = stage

\* A client opens a stream, or calls: a unary handler starts with its message.
\* New RPCs come in as long as gRPC listens, a little into Stop.
Open(r, kind) ==
    /\ At(r, "unborn") /\ listening
    /\ rpc' = [rpc EXCEPT ![r].kind = kind,
                          ![r].at = IF kind = "update" THEN "recv" ELSE "lookup"]
    /\ UNCHANGED <<running, draining, listening, registered, applied>>

\* The one message that the clients send on a stream.
Recv(r) ==
    /\ At(r, "recv") /\ rpc[r].answer = "none"
    /\ rpc' = [rpc EXCEPT ![r].at = "lookup"]
    /\ UNCHANGED <<running, draining, listening, registered, applied>>

\* CloseSend, the deadline of the client or a lost connection: Recv returns an error.
EndStream(r) ==
    /\ At(r, "recv")
    /\ rpc' = [rpc EXCEPT ![r].at = "done"]
    /\ UNCHANGED <<running, draining, listening, registered, applied>>

\* RLock, read the callback, RUnlock: waits while a Stop has the mutex.
Lookup(r) ==
    /\ At(r, "lookup") /\ ~draining
    /\ rpc' = [rpc EXCEPT ![r].at = "handle", ![r].found = rpc[r].kind \in registered]
    /\ UNCHANGED <<running, draining, listening, registered, applied>>

\* Wrong variant: the callback is read again for the answer.
CallTwice(r) ==
    /\ At(r, "handle")
    /\ rpc' = [rpc EXCEPT ![r].at = "send", ![r].found = FALSE,
                          ![r].success = rpc[r].kind \in registered]
    /\ applied' = IF rpc[r].found THEN applied \cup {r} ELSE applied
    /\ UNCHANGED <<running, draining, listening, registered>>

\* Neither callback ever returns an error.
Call(r) ==
    /\ At(r, "handle")
    /\ rpc' = [rpc EXCEPT ![r].at = "send", ![r].found = FALSE, ![r].success = rpc[r].found]
    /\ applied' = IF rpc[r].found THEN applied \cup {r} ELSE applied
    /\ UNCHANGED <<running, draining, listening, registered>>

\* A stream goes back to Recv, a unary RPC is over.
Reply(r) ==
    /\ At(r, "send")
    /\ rpc' = [rpc EXCEPT ![r].at = IF rpc[r].kind = "update" THEN "recv" ELSE "done",
                          ![r].success = FALSE,
                          ![r].answer = IF rpc[r].success THEN "yes" ELSE "no"]
    /\ UNCHANGED <<running, draining, listening, registered, applied>>

\* The client has given up meanwhile: the answer finds nobody.
ReplyFails(r) ==
    /\ At(r, "send")
    /\ rpc' = [rpc EXCEPT ![r].at = "done", ![r].success = FALSE]
    /\ UNCHANGED <<running, draining, listening, registered, applied>>

Handler(r) == Lookup(r) \/ Call(r) \/ Reply(r) \/ ReplyFails(r)

Client(r) == (\E kind \in Kinds : Open(r, kind)) \/ Recv(r) \/ EndStream(r)

-----------------------------------------------------------------------------
\* A client that was told Success had its message applied, one that was told
\* otherwise did not, however the call raced with the registration of the
\* callbacks and with a Stop.
AnsweredTruly ==
    \A r \in Requests :
        /\ rpc[r].answer = "yes" => r \in applied
        /\ rpc[r].answer = "no" => r \notin applied

\* Stop holds the mutex that a handler needs to get to its end: GracefulStop
\* waits for the handler and the handler for the mutex.
Wedged == draining /\ \E r \in Requests : At(r, "lookup")
=============================================================================
