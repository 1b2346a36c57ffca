-------------------------- MODULE SDNControllerProofs --------------------------
(***************************************************************************)
(* Proofs about SDNController, for any number of goroutines, servers,      *)
(* costs, peers' amounts and requests: its types, that the shared pool is  *)
(* not oversold and gets back no more than was taken, that the load shown  *)
(* covers what was allocated, and how far a server can be overshot.        *)
(***************************************************************************)
EXTENDS SDNController, SumTheorems

Paying == {"embed", "global", "return"}
\* Under the write lock; and there, where the pool has to cover the cost.
Locked == {"drain", "check", "take", "taken", "given"}
Owing == {"take", "given"}
OnServer == {"charge", "charged", "load", "refund", "refunded", "unload"}

\* Who holds the write lock, and what a goroutine knows about the request it
\* is serving at each point.
ShapeOf(t) ==
    /\ thread[t].at = "scan" => readers[t] = 1
    /\ thread[t].at # "scan" => readers[t] = 0
    /\ writer = t <=> thread[t].at \in Locked
    /\ thread[t].job \in Paying => thread[t].cost \in Costs
    /\ thread[t].job # "release" => thread[t].cost \in Nat
    /\ thread[t].at \in {"charge", "charged", "load"} => thread[t].job = "embed"
    /\ thread[t].at \in {"take", "taken"} => thread[t].job = "global"
    /\ thread[t].at = "given" => thread[t].job = "return"
    /\ thread[t].at = "rlock" => thread[t].avail = -1
    /\ thread[t].at = "scan" /\ thread[t].avail >= 0 => thread[t].server \in Servers
    /\ thread[t].at \in OnServer => thread[t].server \in Servers

Shape == \A t \in Threads : ShapeOf(t)

\* Between the check and the update the pool cannot lose what was checked, nor,
\* before a refused return is taken back, what was returned.
Covered ==
    \A t \in Threads :
        thread[t].at \in Owing => own[Global] + peer[Global].incr >= thread[t].cost

Inv == TypeOK /\ Shape /\ Covered /\ PoolNotOversold

-----------------------------------------------------------------------------
(* What one goroutine's step does to the locals of all.                    *)

ThreadType == thread \in [Threads -> Locals]
OthersStay(t) == \A u \in Threads \ {t} : thread'[u] = thread[u]

\* Only the program counter of t moves.
LEMMA GotoMoves ==
    ASSUME ThreadType, NEW t \in Threads, NEW p \in Points, Goto(t, p)
    PROVE  /\ ThreadType' /\ OthersStay(t)
           /\ thread'[t] = [thread[t] EXCEPT !.at = p]
           /\ thread'[t].at = p /\ thread'[t].job = thread[t].job
           /\ thread'[t].server = thread[t].server /\ thread'[t].cost = thread[t].cost
           /\ thread'[t].avail = thread[t].avail
<1>1. thread[t] \in Locals
    BY DEF ThreadType
<1>2. [thread[t] EXCEPT !.at = p] \in Locals
    BY <1>1 DEF Locals
<1> QED
    BY <1>1, <1>2 DEF ThreadType, OthersStay, Goto, Locals

\* A goroutine that is done forgets its locals.
LEMMA DoneMoves ==
    ASSUME ThreadType, NEW t \in Threads, Done(t)
    PROVE  ThreadType' /\ OthersStay(t) /\ thread'[t] = Idle
<1>1. Idle \in Locals
    BY DEF Idle, Locals, Points, Jobs, Keys
<1> QED
    BY <1>1 DEF ThreadType, OthersStay, Done

\* A goroutine that begins a request knows its job, server and cost.
LEMMA BeginMoves ==
    ASSUME ThreadType, NEW t \in Threads, NEW j \in Jobs, NEW s \in Keys,
           NEW c \in Amounts \cup {0}, NEW p \in Points, Begin(t, j, s, c, p)
    PROVE  /\ ThreadType' /\ OthersStay(t)
           /\ thread'[t].at = p /\ thread'[t].job = j /\ thread'[t].server = s
           /\ thread'[t].cost = c /\ thread'[t].avail = -1
<1>1. [Idle EXCEPT !.at = p, !.job = j, !.server = s, !.cost = c] \in Locals
    BY DEF Idle, Locals
<1> QED
    BY <1>1 DEF ThreadType, OthersStay, Begin, Idle

\* A step of t leaves the locks of the others alone.
LockStays(t) ==
    \A u \in Threads \ {t} : readers'[u] = readers[u] /\ (writer' = u <=> writer = u)

\* A step of t that keeps what is said of t keeps it of all others.
LEMMA ShapeKept ==
    ASSUME Shape, NEW t \in Threads, OthersStay(t), LockStays(t), ShapeOf(t)'
    PROVE  Shape'
BY DEF Shape, ShapeOf, OthersStay, LockStays

\* What may be a goroutine's cost.
LEMMA AmountsKnown ==
    /\ \A c \in Amounts \cup {0} : c \in Int /\ -c \in Int
    /\ \A c \in Costs : c \in Nat /\ c \in Amounts
<1>1. Costs \subseteq Nat /\ Releases \subseteq Int
    BY AmountsAssumption
<1> QED
    BY <1>1 DEF Amounts

\* What is known of a goroutine.
LEMMA LocalsKnown ==
    ASSUME Inv, NEW t \in Threads
    PROVE  /\ thread[t].at \in Points /\ thread[t].job \in Jobs /\ thread[t].server \in Keys
           /\ thread[t].cost \in Amounts \cup {0} /\ thread[t].avail \in Nat \cup {-1}
           /\ thread[t].left \in SUBSET Servers
           /\ thread[t].cost \in Int /\ -thread[t].cost \in Int
           /\ thread[t].job # "release" => thread[t].cost \in Nat
           /\ ShapeOf(t)
<1>1. thread[t] \in Locals
    BY DEF Inv, TypeOK
<1>2. /\ thread[t].at \in Points /\ thread[t].job \in Jobs /\ thread[t].server \in Keys
      /\ thread[t].cost \in Amounts \cup {0} /\ thread[t].avail \in Nat \cup {-1}
      /\ thread[t].left \in SUBSET Servers
    BY <1>1 DEF Locals
<1>3. thread[t].cost \in Int /\ -thread[t].cost \in Int
    BY <1>2, AmountsKnown
<1>4. ShapeOf(t)
    BY DEF Inv, Shape
<1> QED
    BY <1>2, <1>3, <1>4 DEF ShapeOf

\* The shape after the three kinds of moves: beginning, being done, going on.
LEMMA BeginShape ==
    ASSUME Inv, NEW t \in Threads, NEW j \in Jobs, NEW s \in Keys, NEW c \in Amounts \cup {0},
           NEW p \in {"rlock", "wlock", "refund"}, Begin(t, j, s, c, p),
           At(t, "idle"), UNCHANGED lockVars,
           j \in Paying => c \in Costs, j # "release" => c \in Nat, p = "refund" => s \in Servers
    PROVE  ThreadType' /\ OthersStay(t) /\ Shape' /\ thread'[t].at \notin Owing
<1>0. ThreadType /\ p \in Points
    BY DEF Inv, TypeOK, ThreadType, Points
<1>1. /\ ThreadType' /\ OthersStay(t)
      /\ thread'[t].at = p /\ thread'[t].job = j /\ thread'[t].server = s
      /\ thread'[t].cost = c /\ thread'[t].avail = -1
    BY <1>0, BeginMoves
<1>2. readers[t] = 0 /\ writer # t
    BY LocalsKnown DEF ShapeOf, At, Locked
<1>3. ShapeOf(t)'
    BY <1>1, <1>2 DEF ShapeOf, lockVars, Locked, OnServer
<1>4. LockStays(t)
    BY DEF LockStays, lockVars
<1> QED
    BY <1>1, <1>3, <1>4, ShapeKept DEF Inv, Owing

\* What was begun is done.
LEMMA DoneShape ==
    ASSUME Inv, NEW t \in Threads, Done(t), LockStays(t), readers'[t] = 0, writer' # t
    PROVE  ThreadType' /\ OthersStay(t) /\ Shape' /\ thread'[t].at \notin Owing
<1>1. ThreadType' /\ OthersStay(t) /\ thread'[t] = Idle
    BY DoneMoves DEF Inv, TypeOK, ThreadType
<1>2. ShapeOf(t)'
    BY <1>1 DEF ShapeOf, Idle, Paying, Locked, OnServer
<1> QED
    BY <1>1, <1>2, ShapeKept DEF Inv, Idle, Owing

\* A goroutine goes on to point p.
LEMMA GotoShape ==
    ASSUME Inv, NEW t \in Threads, NEW p \in Points, Goto(t, p), LockStays(t),
           p \notin {"scan", "rlock"}, readers'[t] = 0,
           writer' = t <=> p \in Locked,
           p \in {"charge", "charged", "load"} => thread[t].job = "embed",
           p \in {"take", "taken"} => thread[t].job = "global",
           p = "given" => thread[t].job = "return",
           p \in OnServer => thread[t].server \in Servers
    PROVE  ThreadType' /\ OthersStay(t) /\ Shape' /\ thread'[t].at = p
<1>1. /\ ThreadType' /\ OthersStay(t)
      /\ thread'[t].at = p /\ thread'[t].job = thread[t].job
      /\ thread'[t].server = thread[t].server /\ thread'[t].cost = thread[t].cost
      /\ thread'[t].avail = thread[t].avail
    BY GotoMoves DEF Inv, TypeOK, ThreadType
<1>2. ShapeOf(t)'
    BY <1>1, LocalsKnown DEF ShapeOf
<1> QED
    BY <1>1, <1>2, ShapeKept DEF Inv

-----------------------------------------------------------------------------
(* The steps of the requests keep locals, lock and shape.                  *)

\* A new request only moves its own goroutine, from its idle point.
LEMMA NewRequestShape ==
    ASSUME Inv, NEW t \in Handlers, Requests(t)
    PROVE  ThreadType' /\ OthersStay(t) /\ Shape' /\ thread'[t].at \notin Owing
<1>a. NewRequest(t)
    BY DEF Requests, BeginEmbed, BeginGlobal, BeginList, BeginRelease
<1>0. /\ t \in Threads /\ Servers \subseteq Keys /\ Global \in Keys
      /\ {"embed", "global", "list", "release"} \subseteq Jobs
      /\ At(t, "idle") /\ UNCHANGED lockVars /\ "list" \notin Paying /\ "release" \notin Paying
      /\ Releases \subseteq Amounts
    BY <1>a, ThreadsAssumption DEF NewRequest, Keys, Jobs, Paying, Amounts
<1>1. ASSUME NEW c \in Costs, BeginEmbed(t, c)
      PROVE  ThreadType' /\ OthersStay(t) /\ Shape' /\ thread'[t].at \notin Owing
    <2>1. Begin(t, "embed", Global, c, "rlock")
        BY <1>1 DEF BeginEmbed
    <2> QED
        BY <1>0, <2>1, BeginShape, AmountsKnown
<1>2. ASSUME NEW c \in Costs, BeginGlobal(t, c)
      PROVE  ThreadType' /\ OthersStay(t) /\ Shape' /\ thread'[t].at \notin Owing
    <2>1. Begin(t, "global", Global, c, "wlock")
        BY <1>2 DEF BeginGlobal
    <2> QED
        BY <1>0, <2>1, BeginShape, AmountsKnown
<1>3. CASE BeginList(t)
    <2>1. Begin(t, "list", Global, 0, "rlock")
        BY <1>3 DEF BeginList
    <2> QED
        BY <1>0, <2>1, BeginShape
<1>4. ASSUME NEW s \in Servers, NEW c \in Releases, BeginRelease(t, s, c)
      PROVE  ThreadType' /\ OthersStay(t) /\ Shape' /\ thread'[t].at \notin Owing
    <2>1. Begin(t, "release", s, c, "refund")
        BY <1>4 DEF BeginRelease
    <2> QED
        BY <1>0, <2>1, BeginShape
<1> QED
    BY <1>1, <1>2, <1>3, <1>4 DEF Requests

\* So does the end of a duration, which finds a stopped controller or begins a
\* release.
LEMMA ExpireShape ==
    ASSUME Inv, NEW t \in Handlers, NEW k \in Keys, NEW c \in Costs, Expire(t, k, c)
    PROVE  ThreadType' /\ OthersStay(t) /\ Shape' /\ thread'[t].at \notin Owing
<1>0. /\ t \in Threads /\ Global \in Keys /\ {"return", "release"} \subseteq Jobs
      /\ At(t, "idle") /\ UNCHANGED lockVars /\ c \in Nat /\ c \in Amounts
    BY ThreadsAssumption, AmountsKnown DEF Expire, Keys, Jobs
<1>1. CASE ~isRunning
    <2>1. UNCHANGED thread
        BY <1>1 DEF Expire
    <2>2. thread'[t].at \notin Owing
        BY <1>0, <2>1 DEF At, Owing
    <2> QED
        BY <1>0, <2>1, <2>2 DEF Inv, TypeOK, ThreadType, OthersStay, Shape, ShapeOf, lockVars
<1>2. CASE isRunning /\ k = Global
    <2>1. Begin(t, "return", Global, c, "wlock")
        BY <1>2 DEF Expire
    <2> QED
        BY <1>0, <2>1, BeginShape
<1>3. CASE isRunning /\ k # Global
    <2>1. Begin(t, "release", k, c, "refund") /\ k \in Servers
        BY <1>3 DEF Expire, Keys
    <2> QED
        BY <1>0, <2>1, BeginShape
<1> QED
    BY <1>1, <1>2, <1>3

\* The scan begins with a read lock and nothing known to be available.
LEMMA LockForScanShape ==
    ASSUME Inv, NEW t \in Threads, LockForScan(t)
    PROVE  ThreadType' /\ OthersStay(t) /\ Shape' /\ thread'[t].at \notin Owing
<1> DEFINE scanning == [thread[t] EXCEPT !.at = "scan", !.left = Servers]
<1>1. thread[t] \in Locals /\ thread \in [Threads -> Locals] /\ readers \in [Threads -> Nat]
    BY DEF Inv, TypeOK, LockTypeOK
<1>2. scanning \in Locals
    BY <1>1 DEF Locals, Points
<1>3. thread' = [thread EXCEPT ![t] = scanning]
    BY DEF LockForScan
<1>4. ThreadType' /\ OthersStay(t) /\ thread'[t] = scanning
    BY <1>1, <1>2, <1>3 DEF ThreadType, OthersStay
<1>5. /\ thread'[t].at = "scan" /\ thread'[t].job = thread[t].job
      /\ thread'[t].cost = thread[t].cost /\ thread'[t].avail = thread[t].avail
    BY <1>1, <1>4 DEF Locals
<1>6. readers' = [readers EXCEPT ![t] = @ + 1] /\ writer' = writer /\ At(t, "rlock")
    BY DEF LockForScan, RLock
<1>7. /\ readers[t] = 0 /\ writer # t /\ thread[t].avail = -1
      /\ thread[t].job \in Paying => thread[t].cost \in Costs
      /\ thread[t].job # "release" => thread[t].cost \in Nat
    BY <1>6, LocalsKnown DEF ShapeOf, At, Locked
<1>8. ShapeOf(t)'
    BY <1>1, <1>5, <1>6, <1>7 DEF ShapeOf, Locked, OnServer
<1>9. LockStays(t)
    BY <1>1, <1>6 DEF LockStays
<1> QED
    BY <1>4, <1>5, <1>8, <1>9, ShapeKept DEF Inv, Owing

\* A server remembered by the scan comes with what was available there.
LEMMA PeekShape ==
    ASSUME Inv, NEW t \in Threads, NEW s \in Servers, Peek(t, s)
    PROVE  ThreadType' /\ OthersStay(t) /\ Shape' /\ thread'[t].at \notin Owing
<1> DEFINE new == Looked(t, s)
<1>1. thread[t] \in Locals /\ thread \in [Threads -> Locals] /\ s \in Keys
    BY DEF Inv, TypeOK, Keys
<1>2. Available(s) \in Nat
    BY <1>1 DEF Inv, TypeOK, Available, Get
<1>3. /\ new \in Locals
      /\ new.at = thread[t].at /\ new.job = thread[t].job /\ new.cost = thread[t].cost
      /\ new.server = s \/ (new.server = thread[t].server /\ new.avail = thread[t].avail)
    BY <1>1, <1>2 DEF Looked, Locals
<1>4. thread' = [thread EXCEPT ![t] = new]
    BY DEF Peek
<1> HIDE DEF new
<1>5. ThreadType' /\ OthersStay(t)
    BY <1>1, <1>3, <1>4 DEF ThreadType, OthersStay
<1>6. thread'[t] = new
    BY <1>1, <1>4
<1>7. lockVars' = lockVars /\ At(t, "scan")
    BY DEF Peek
<1>8. ShapeOf(t)'
    BY <1>3, <1>6, <1>7, LocalsKnown DEF ShapeOf, At, lockVars, Locked, OnServer
<1>9. LockStays(t)
    BY <1>7 DEF LockStays, lockVars
<1> QED
    BY <1>3, <1>5, <1>6, <1>7, <1>8, <1>9, ShapeKept DEF Inv, At, Owing

\* Where the write lock and the read locks stand for a goroutine at its point.
LEMMA LockKnown ==
    ASSUME Inv, NEW t \in Threads
    PROVE  /\ thread[t].at = "scan" => readers[t] = 1 /\ writer # t
           /\ thread[t].at # "scan" => readers[t] = 0
           /\ writer = t <=> thread[t].at \in Locked
BY LocalsKnown DEF ShapeOf, Locked

\* A scan that goes on to an allocation has found a server.
LEMMA EndScanShape ==
    ASSUME Inv, NEW t \in Threads, EndScan(t)
    PROVE  ThreadType' /\ OthersStay(t) /\ Shape' /\ thread'[t].at \notin Owing
<1>1. readers' = [readers EXCEPT ![t] = @ - 1] /\ writer' = writer /\ At(t, "scan")
    BY DEF EndScan, RUnlock
<1>2. readers \in [Threads -> Nat] /\ readers[t] = 1 /\ writer # t
    BY <1>1, LockKnown DEF Inv, TypeOK, LockTypeOK, At
<1>3. LockStays(t) /\ readers'[t] = 0 /\ writer' # t
    BY <1>1, <1>2 DEF LockStays
<1>4. CASE thread[t].job = "embed" /\ thread[t].avail >= thread[t].cost
    <2>1. thread[t].avail >= 0
        BY <1>4, LocalsKnown
    <2>2. thread[t].server \in Servers
        BY <1>1, <2>1, LocalsKnown DEF ShapeOf, At
    <2>3. Goto(t, "charge") /\ "charge" \in Points
        BY <1>4 DEF EndScan, Points
    <2>4. "charge" \notin Locked /\ "charge" \notin Owing
        BY DEF Locked, Owing
    <2> QED
        BY <1>3, <1>4, <2>2, <2>3, <2>4, GotoShape
<1>5. CASE ~(thread[t].job = "embed" /\ thread[t].avail >= thread[t].cost)
    BY <1>3, <1>5, DoneShape DEF EndScan
<1> QED
    BY <1>4, <1>5

\* The steps of an allocation and a release that hold no lock.
LEMMA ServingShape ==
    ASSUME Inv, NEW t \in Threads, Serving(t)
    PROVE  ThreadType' /\ OthersStay(t) /\ Shape' /\ thread'[t].at \notin Owing
<1>1. lockVars' = lockVars /\ thread[t].at \in OnServer \cup {"status"}
    BY DEF Serving, Charge, EndCharge, AddLoad, Respond, Refund, EndRefund, Unload, At, OnServer
<1>2. LockStays(t) /\ readers'[t] = 0 /\ writer' # t
    BY <1>1, LockKnown DEF LockStays, lockVars, OnServer, Locked
<1>3. \/ Done(t)
      \/ At(t, "charge") /\ Goto(t, "charged")
      \/ At(t, "charged") /\ Goto(t, "load")
      \/ Goto(t, "status")
      \/ At(t, "refund") /\ Goto(t, "refunded")
      \/ At(t, "refunded") /\ Goto(t, "unload")
    BY DEF Serving, Charge, EndCharge, AddLoad, Respond, Refund, EndRefund, Unload
<1>4. ASSUME NEW p \in {"charged", "load", "status", "refunded", "unload"}
      PROVE  p \in Points /\ p \notin Locked /\ p \notin Owing
    BY DEF Points, Locked, Owing
<1>5. CASE Done(t)
    BY <1>2, <1>5, DoneShape
<1>6. ASSUME NEW p \in {"charged", "load"}, At(t, "charge") \/ At(t, "charged"), Goto(t, p)
      PROVE  ThreadType' /\ OthersStay(t) /\ Shape' /\ thread'[t].at \notin Owing
    <2>1. thread[t].job = "embed" /\ thread[t].server \in Servers
        BY <1>6, LocalsKnown DEF ShapeOf, At, OnServer
    <2> QED
        BY <1>2, <1>4, <1>6, <2>1, GotoShape
<1>7. CASE Goto(t, "status")
    BY <1>2, <1>4, <1>7, GotoShape DEF OnServer
<1>8. ASSUME NEW p \in {"refunded", "unload"}, At(t, "refund") \/ At(t, "refunded"), Goto(t, p)
      PROVE  ThreadType' /\ OthersStay(t) /\ Shape' /\ thread'[t].at \notin Owing
    <2>1. thread[t].server \in Servers
        BY <1>8, LocalsKnown DEF ShapeOf, At, OnServer
    <2> QED
        BY <1>2, <1>4, <1>8, <2>1, GotoShape
<1> QED
    BY <1>3, <1>5, <1>6, <1>7, <1>8

\* The steps under the write lock.  CheckPool leads to the update, and GiveBack
\* to where it may be taken back.
LEMMA WritingShape ==
    ASSUME Inv, NEW t \in Threads, Writing(t) \/ (t = Background /\ EndSync)
    PROVE  /\ ThreadType' /\ OthersStay(t) /\ Shape'
           /\ thread'[t].at \in Owing => CheckPool(t) \/ GiveBack(t)
<1>1. Locked \subseteq Points /\ Locked \cap OnServer = {} /\ Locked \cap {"scan", "rlock"} = {}
    BY DEF Points, Locked, OnServer
<1>2. CASE AskToWrite(t)
    <2>1. Goto(t, "drain") /\ At(t, "wlock") /\ readers' = readers /\ writer = NoThread /\ writer' = t
        BY <1>2 DEF AskToWrite, Announce
    <2>2. readers[t] = 0 /\ LockStays(t) /\ "drain" \in Locked /\ "drain" \notin Owing
        BY <2>1, LockKnown, NoThreadAssumption DEF LockStays, At, Locked, Owing
    <2> QED
        BY <1>1, <2>1, <2>2, GotoShape
<1>3. CASE StartToWrite(t)
    <2>1. Goto(t, "check") /\ At(t, "drain") /\ lockVars' = lockVars
        BY <1>3 DEF StartToWrite
    <2>2. readers'[t] = 0 /\ writer' = t /\ LockStays(t) /\ "check" \in Locked /\ "check" \notin Owing
        BY <2>1, LockKnown DEF LockStays, At, lockVars, Locked, Owing
    <2> QED
        BY <1>1, <2>1, <2>2, GotoShape
<1>4. CASE Unlock(t) /\ Done(t)
    <2>1. writer = t /\ writer' = NoThread /\ readers' = readers
        BY <1>4 DEF Unlock
    <2>2. readers'[t] = 0 /\ writer' # t /\ LockStays(t)
        BY <2>1, LockKnown, NoThreadAssumption DEF LockStays, Locked
    <2> QED
        BY <1>4, <2>2, DoneShape
<1>5. ASSUME NEW p \in {"take", "taken", "given"}, Goto(t, p), lockVars' = lockVars,
             thread[t].at \in {"check", "take"},
             p \in {"take", "taken"} => thread[t].job = "global",
             p = "given" => thread[t].job = "return"
      PROVE  ThreadType' /\ OthersStay(t) /\ Shape' /\ thread'[t].at = p
    <2>1. readers'[t] = 0 /\ writer' = t /\ LockStays(t) /\ p \in Locked
        BY <1>5, LockKnown DEF LockStays, lockVars, Locked
    <2> QED
        BY <1>1, <1>5, <2>1, GotoShape
<1>6. CASE CheckPool(t)
    <2>1. CASE lockVars' = lockVars /\ Goto(t, "take")
        BY <1>5, <1>6, <2>1 DEF CheckPool, At
    <2> QED
        BY <1>4, <1>6, <2>1 DEF CheckPool
<1>7. CASE Take(t)
    <2>1. thread[t].at = "take" /\ thread[t].job = "global"
        BY <1>7, LocalsKnown DEF Take, At, ShapeOf
    <2>2. lockVars' = lockVars /\ Goto(t, "taken") /\ "taken" \notin Owing
        BY <1>7 DEF Take, Owing
    <2> QED
        BY <1>5, <2>1, <2>2
<1>8. CASE GiveBack(t)
    BY <1>5, <1>8 DEF GiveBack, At
<1>9. CASE EndTake(t) \/ EndGiveBack(t) \/ (t = Background /\ EndSync)
    BY <1>4, <1>9 DEF EndTake, EndGiveBack, EndSync
<1> QED
    BY <1>2, <1>3, <1>6, <1>7, <1>8, <1>9 DEF Writing

\* The background task begins and ends; the rest of the system moves no goroutine.
LEMMA BackgroundShape ==
    ASSUME Inv, BeginSync \/ StopBackground
    PROVE  ThreadType' /\ OthersStay(Background) /\ Shape' /\ thread'[Background].at \notin Owing
<1>0. /\ Background \in Threads /\ Global \in Keys /\ "sync" \in Jobs /\ "sync" \notin Paying
      /\ "stopped" \in Points
    BY ThreadsAssumption DEF Keys, Jobs, Paying, Points
<1>1. At(Background, "idle") /\ lockVars' = lockVars
    BY DEF BeginSync, StopBackground
<1>2. CASE BeginSync
    <2>1. Begin(Background, "sync", Global, 0, "wlock")
        BY <1>2 DEF BeginSync
    <2> QED
        BY <1>0, <1>1, <2>1, BeginShape
<1>3. CASE StopBackground
    <2>1. Goto(Background, "stopped")
        BY <1>3 DEF StopBackground
    <2>2. LockStays(Background) /\ readers'[Background] = 0 /\ writer' # Background
        BY <1>0, <1>1, LockKnown DEF LockStays, lockVars, At, Locked
    <2>3. "stopped" \notin Locked \cup OnServer \cup Owing
        BY DEF Locked, OnServer, Owing
    <2> QED
        BY <1>0, <2>1, <2>2, <2>3, GotoShape
<1> QED
    BY <1>2, <1>3

\* What moves no goroutine and no lock.
LEMMA RestShape ==
    ASSUME Inv, UNCHANGED <<lockVars, thread>>
    PROVE  ThreadType' /\ Shape' /\ LockTypeOK'
BY DEF Inv, TypeOK, ThreadType, Shape, ShapeOf, lockVars, LockTypeOK

-----------------------------------------------------------------------------
(* The types of the rest and the pool.                                     *)

OtherTypes ==
    /\ isRunning \in BOOLEAN
    /\ own \in [Keys -> Int]
    /\ peer \in [Keys -> [incr : Nat, decr : Nat]]
    /\ base \in [Servers -> Nat]
    /\ load \in [Servers -> Nat]
    /\ leases \in [Keys -> [Costs -> Nat]]
    /\ issued \in 0..MaxRequests
    /\ bypassed \in [Servers -> Nat]

\* The parts of the invariant, before and after a step.
LEMMA Together ==
    /\ Inv => ThreadType /\ Shape /\ LockTypeOK /\ OtherTypes /\ Covered /\ PoolNotOversold
    /\ ThreadType' /\ Shape' /\ LockTypeOK' /\ OtherTypes' /\ Covered' /\ PoolNotOversold'
           => Inv'
BY DEF Inv, TypeOK, ThreadType, OtherTypes

\* An update moves one counter.
LEMMA OwnMoved ==
    ASSUME own \in [Keys -> Int], NEW k \in Keys, NEW n \in Int, Moved(k, n)
    PROVE  /\ own' \in [Keys -> Int] /\ own'[k] = own[k] + n
           /\ \A j \in Keys \ {k} : own'[j] = own[j]
BY DEF Moved

\* The counter of the server t serves.
LEMMA ServerMoved ==
    ASSUME Inv, NEW t \in Threads, NEW n \in Int, Moved(thread[t].server, n), thread[t].server \in Servers
    PROVE  /\ own' \in [Keys -> Int] /\ own'[Global] = own[Global]
           /\ \A s \in Servers : own'[s] = IF thread[t].server = s THEN own[s] + n ELSE own[s]
<1>1. /\ own \in [Keys -> Int] /\ Global \in Keys /\ Global \notin Servers /\ Servers \subseteq Keys
    BY ServersAssumption DEF Inv, TypeOK, Keys
<1> QED
    BY <1>1, OwnMoved

\* A goroutine is left behind for the job of t.
LEMMA LeaseTyped ==
    ASSUME Inv, NEW t \in Threads, thread[t].job \in Paying,
           MaybeLease(t) \/ UNCHANGED leases
    PROVE  leases' \in [Keys -> [Costs -> Nat]]
<1>1. thread[t].server \in Keys /\ thread[t].cost \in Costs
    BY LocalsKnown DEF ShapeOf
<1>2. leases \in [Keys -> [Costs -> Nat]]
    BY DEF Inv, TypeOK
<1> QED
    BY <1>1, <1>2 DEF MaybeLease

\* A step of a goroutine that does not end where the pool has to cover its cost,
\* and takes nothing from the pool, keeps the pool and what it has to cover.
LEMMA PoolKept ==
    ASSUME Inv, NEW t \in Threads, OthersStay(t), thread'[t].at \notin Owing,
           own'[Global] \in Int, own'[Global] >= own[Global], peer' = peer
    PROVE  Covered' /\ PoolNotOversold'
<1>1. own[Global] \in Int /\ peer[Global].incr \in Nat
    BY DEF Inv, TypeOK, Keys
<1>2. own'[Global] + peer'[Global].incr >= own[Global] + peer[Global].incr
    BY <1>1
<1>3. ASSUME NEW u \in Threads, thread'[u].at \in Owing
      PROVE  own'[Global] + peer'[Global].incr >= thread'[u].cost
    <2>1. u # t /\ thread'[u] = thread[u]
        BY <1>3 DEF OthersStay
    <2>2. own[Global] + peer[Global].incr >= thread[u].cost /\ thread[u].cost \in Int
        BY <1>3, <2>1, LocalsKnown DEF Inv, Covered
    <2> QED
        BY <1>1, <1>2, <2>1, <2>2
<1> QED
    BY <1>1, <1>2, <1>3 DEF Inv, Covered, PoolNotOversold

\* Each group of steps keeps the whole invariant.
LEMMA NewRequestKeeps ==
    ASSUME Inv, NEW t \in Handlers, Requests(t)
    PROVE  Inv'
<1>1. NewRequest(t) /\ t \in Threads
    BY ThreadsAssumption DEF Requests, BeginEmbed, BeginGlobal, BeginList, BeginRelease
<1>2. LockTypeOK' /\ OtherTypes'
    BY <1>1, AmountsAssumption, Together DEF NewRequest, OtherTypes, LockTypeOK, lockVars
<1>3. Global \in Keys /\ own' = own /\ peer' = peer /\ own \in [Keys -> Int]
    BY <1>1, Together DEF NewRequest, Keys, OtherTypes
<1>4. Covered' /\ PoolNotOversold'
    BY <1>1, <1>3, NewRequestShape, PoolKept
<1> QED
    BY <1>2, <1>4, NewRequestShape, Together

\* The end of a duration takes the goroutine from those that wait.
LEMMA ExpireKeeps ==
    ASSUME Inv, NEW t \in Handlers, NEW k \in Keys, NEW c \in Costs, Expire(t, k, c)
    PROVE  Inv'
<1>1. leases \in [Keys -> [Costs -> Nat]] /\ leases[k][c] > 0
      /\ leases' = [leases EXCEPT ![k][c] = @ - 1]
    BY DEF Expire, Inv, TypeOK
<1>2. leases' \in [Keys -> [Costs -> Nat]]
    BY <1>1
<1>3. LockTypeOK' /\ OtherTypes'
    BY <1>2, Together DEF Expire, OtherTypes, LockTypeOK, lockVars
<1>4. t \in Threads /\ Global \in Keys /\ own' = own /\ peer' = peer /\ own \in [Keys -> Int]
    BY ThreadsAssumption, Together DEF Expire, Keys, OtherTypes
<1>5. Covered' /\ PoolNotOversold'
    BY <1>4, ExpireShape, PoolKept
<1> QED
    BY <1>3, <1>5, ExpireShape, Together

\* A scan changes locks and locals only.
LEMMA ScanningKeeps ==
    ASSUME Inv, NEW t \in Threads, Scanning(t)
    PROVE  Inv'
<1>1. UNCHANGED <<isRunning, own, peer, base, load, leases, issued, bypassed>>
    BY DEF Scanning, LockForScan, Peek, EndScan
<1>2. ThreadType' /\ OthersStay(t) /\ Shape' /\ thread'[t].at \notin Owing
    BY LockForScanShape, PeekShape, EndScanShape DEF Scanning
<1>3. LockTypeOK'
    <2>1. LockTypeOK
        BY Together
    <2>2. CASE EndScan(t)
        BY <2>1, <2>2, LockKnown DEF EndScan, RUnlock, LockTypeOK, At
    <2> QED
        BY <2>1, <2>2 DEF Scanning, LockForScan, Peek, RLock, LockTypeOK, lockVars
<1>4. OtherTypes' /\ Global \in Keys /\ own \in [Keys -> Int]
    BY <1>1, Together DEF OtherTypes, Keys
<1>5. Covered' /\ PoolNotOversold'
    BY <1>1, <1>2, <1>4, PoolKept
<1> QED
    BY <1>2, <1>3, <1>4, <1>5, Together

\* What releases of negative amounts took is counted.
LEMMA ServingBypasses ==
    ASSUME Inv, NEW t \in Threads, Serving(t)
    PROVE  bypassed' \in [Servers -> Nat]
<1>1. bypassed \in [Servers -> Nat]
    BY DEF Inv, TypeOK
<1>2. CASE UNCHANGED bypassed
    BY <1>1, <1>2
<1>3. thread[t].cost \in Int /\ Unasked(t) \in Nat
    BY LocalsKnown DEF Unasked
<1>4. CASE EndRefund(t) /\ Remember(t)
    <2>1. thread[t].server \in Servers
        BY <1>4, LocalsKnown DEF EndRefund, ShapeOf, At, OnServer
    <2> QED
        BY <1>1, <1>3, <1>4, <2>1 DEF Remember
<1> QED
    BY <1>2, <1>4 DEF Serving, Charge, EndCharge, AddLoad, Respond, Refund, EndRefund, Unload

\* A server's own counter and load move by the cost; the pool's does not.
LEMMA ServingKeeps ==
    ASSUME Inv, NEW t \in Threads, Serving(t)
    PROVE  Inv'
<1>0. OtherTypes /\ LockTypeOK /\ Global \in Keys /\ thread[t].cost \in Int /\ -thread[t].cost \in Int
    BY Together, LocalsKnown DEF Keys
<1>1. UNCHANGED <<lockVars, isRunning, peer, base, issued>>
    BY DEF Serving, Charge, EndCharge, AddLoad, Respond, Refund, EndRefund, Unload
<1>2. thread[t].server \in Servers \/ Respond(t)
    BY LocalsKnown DEF Serving, Charge, EndCharge, AddLoad, Refund, EndRefund, Unload, ShapeOf, At, OnServer
<1>3. own' \in [Keys -> Int] /\ own'[Global] = own[Global]
    <2>1. CASE UNCHANGED own
        BY <1>0, <2>1 DEF OtherTypes
    <2>2. ASSUME NEW n \in Int, Moved(thread[t].server, n), thread[t].server \in Servers
          PROVE  own' \in [Keys -> Int] /\ own'[Global] = own[Global]
        BY <2>2, ServerMoved
    <2>3. \/ UNCHANGED own
          \/ Moved(thread[t].server, thread[t].cost) /\ ~Respond(t)
          \/ Moved(thread[t].server, -thread[t].cost) /\ ~Respond(t)
        BY DEF Serving, Charge, EndCharge, AddLoad, Respond, Refund, EndRefund, Unload, At
    <2> QED
        BY <1>0, <1>2, <2>1, <2>2, <2>3
<1>4. load' \in [Servers -> Nat]
    <2>1. CASE UNCHANGED load
        BY <1>0, <2>1 DEF OtherTypes
    <2>2. CASE AddLoad(t)
        <3>1. thread[t].server \in Servers /\ thread[t].cost \in Nat
            BY <2>2, LocalsKnown DEF AddLoad, ShapeOf, At, OnServer
        <3> QED
            BY <1>0, <2>2, <3>1 DEF AddLoad, OtherTypes
    <2>3. CASE Unload(t)
        <3>1. thread[t].server \in Servers
            BY <2>3, LocalsKnown DEF Unload, ShapeOf, At, OnServer
        <3> QED
            BY <1>0, <2>3, <3>1 DEF Unload, OtherTypes
    <2> QED
        BY <2>1, <2>2, <2>3 DEF Serving, Charge, EndCharge, Respond, Refund, EndRefund
<1>5. leases' \in [Keys -> [Costs -> Nat]]
    <2>1. CASE UNCHANGED leases
        BY <1>0, <2>1 DEF OtherTypes
    <2>2. CASE AddLoad(t)
        <3>1. thread[t].job \in Paying
            BY <2>2, LocalsKnown DEF AddLoad, ShapeOf, At, Paying
        <3> QED
            BY <2>2, <3>1, LeaseTyped DEF AddLoad
    <2> QED
        BY <2>1, <2>2 DEF Serving, Charge, EndCharge, Respond, Refund, EndRefund, Unload
<1>6. LockTypeOK' /\ OtherTypes'
    BY <1>0, <1>1, <1>3, <1>4, <1>5, ServingBypasses DEF OtherTypes, LockTypeOK, lockVars
<1>7. own[Global] \in Int
    BY <1>0 DEF OtherTypes
<1>8. Covered' /\ PoolNotOversold'
    BY <1>1, <1>3, <1>7, ServingShape, PoolKept
<1> QED
    BY <1>6, <1>8, ServingShape, Together

\* The writer is the only goroutine there, so what it checked is still there when
\* it takes it, and so is what it returned when the return is refused.
LEMMA TakeKeeps ==
    ASSUME Inv, NEW t \in Threads, Take(t) \/ EndGiveBack(t)
    PROVE  Covered' /\ PoolNotOversold'
<1>1. thread[t].at \in Owing /\ peer' = peer
    BY DEF Take, EndGiveBack, At, Owing
<1>2. /\ OtherTypes /\ Global \in Keys /\ thread[t].cost \in Nat
      /\ own[Global] + peer[Global].incr >= thread[t].cost
    BY <1>1, Together, LocalsKnown DEF Keys, Covered, ShapeOf, Owing
<1>3. own[Global] \in Int /\ peer[Global].incr \in Nat /\ -thread[t].cost \in Int
    BY <1>2 DEF OtherTypes
<1>4. own'[Global] = own[Global] - thread[t].cost \/ own'[Global] = own[Global]
    <2>1. CASE Moved(Global, -thread[t].cost)
        BY <1>2, <1>3, <2>1, OwnMoved DEF OtherTypes
    <2> QED
        BY <2>1 DEF Take, EndGiveBack
<1>5. PoolNotOversold'
    BY <1>1, <1>2, <1>3, <1>4 DEF PoolNotOversold
<1>6. OthersStay(t) /\ thread'[t].at \notin Owing
    <2>1. Writing(t)
        BY DEF Writing
    <2>2. ~CheckPool(t) /\ ~GiveBack(t)
        BY DEF CheckPool, GiveBack, Take, EndGiveBack, At
    <2> QED
        BY <2>1, <2>2, WritingShape
<1>7. ASSUME NEW u \in Threads PROVE thread'[u].at \notin Owing
    <2>1. CASE u = t
        BY <1>6, <2>1
    <2>2. CASE u # t
        <3>1. thread'[u] = thread[u]
            BY <1>6, <2>2 DEF OthersStay
        <3> QED
            BY <1>1, <2>2, <3>1, LockKnown DEF Owing, Locked
    <2> QED
        BY <2>1, <2>2
<1> QED
    BY <1>5, <1>7 DEF Covered

\* A return adds to the pool what it may have to take back.
LEMMA GiveBackKeeps ==
    ASSUME Inv, NEW t \in Threads, GiveBack(t)
    PROVE  Covered' /\ PoolNotOversold'
<1>1. /\ thread[t].job = "return" /\ At(t, "check") /\ peer' = peer /\ Writing(t)
      /\ Moved(Global, thread[t].cost) /\ Goto(t, "given")
    BY DEF GiveBack, Writing
<1>2. /\ thread[t].cost \in Nat /\ thread[t].cost \in Int
      /\ own \in [Keys -> Int] /\ Global \in Keys /\ own[Global] \in Int /\ peer[Global].incr \in Nat
      /\ ThreadType
    BY <1>1, LocalsKnown DEF Inv, TypeOK, Keys, ThreadType
<1>3. own'[Global] = own[Global] + thread[t].cost
    BY <1>1, <1>2, OwnMoved
<1>4. OthersStay(t) /\ thread'[t].cost = thread[t].cost
    BY <1>1, <1>2, GotoMoves DEF Points
<1>5. own[Global] + peer[Global].incr >= 0
    BY DEF Inv, PoolNotOversold
<1>6. PoolNotOversold'
    BY <1>1, <1>2, <1>3, <1>5 DEF PoolNotOversold
<1>7. ASSUME NEW u \in Threads, thread'[u].at \in Owing
      PROVE  own'[Global] + peer'[Global].incr >= thread'[u].cost
    <2>1. CASE u = t
        BY <1>1, <1>2, <1>3, <1>4, <1>5, <2>1
    <2>2. CASE u # t
        <3>1. thread[u].at \in Owing
            BY <1>4, <1>7, <2>2 DEF OthersStay
        <3> QED
            BY <1>1, <2>2, <3>1, LockKnown DEF At, Owing, Locked
    <2> QED
        BY <2>1, <2>2
<1> QED
    BY <1>6, <1>7 DEF Covered

\* The check lets a request through only if the pool, peers included, has as
\* much; what peers have taken from it only makes the check stricter.
LEMMA CheckPoolKeeps ==
    ASSUME Inv, NEW t \in Threads, CheckPool(t)
    PROVE  Covered' /\ PoolNotOversold'
<1>1. UNCHANGED <<own, peer>> /\ Writing(t)
    BY DEF CheckPool, Writing
<1>2. OthersStay(t)
    BY <1>1, WritingShape
<1>3. /\ own[Global] \in Int /\ peer[Global].incr \in Nat /\ peer[Global].decr \in Nat
      /\ thread[t].cost \in Int
    BY LocalsKnown DEF Inv, TypeOK, Keys
<1>4. CASE Goto(t, "take") /\ ~(Get(Global) < thread[t].cost)
    <2>1. own[Global] + peer[Global].incr >= thread[t].cost
        BY <1>3, <1>4 DEF Get
    <2>2. thread'[t].cost = thread[t].cost
        BY <1>4, GotoMoves DEF Inv, TypeOK, ThreadType, Points
    <2> QED
        BY <1>1, <1>2, <2>1, <2>2 DEF Inv, Covered, PoolNotOversold, OthersStay
<1>5. CASE Done(t)
    <2>1. thread'[t].at \notin Owing
        BY <1>5, DoneMoves DEF Inv, TypeOK, ThreadType, Idle, Owing
    <2> QED
        BY <1>1, <1>2, <1>3, <2>1, PoolKept
<1> QED
    BY <1>4, <1>5 DEF CheckPool

\* The pool is moved under the write lock alone.
LEMMA WritingKeeps ==
    ASSUME Inv, NEW t \in Threads, Writing(t) \/ (t = Background /\ EndSync)
    PROVE  Inv'
<1>0. OtherTypes /\ LockTypeOK /\ Global \in Keys
    BY Together DEF Keys
<1>1. UNCHANGED <<isRunning, peer, base, load, issued, bypassed>>
    BY DEF Writing, AskToWrite, StartToWrite, CheckPool, Take, EndTake, GiveBack, EndGiveBack, EndSync
<1>2. LockTypeOK'
    BY <1>0 DEF Writing, AskToWrite, StartToWrite, CheckPool, Take, EndTake, GiveBack, EndGiveBack,
                EndSync, Announce, Unlock, LockTypeOK, lockVars
<1>3. thread[t].cost \in Int /\ -thread[t].cost \in Int /\ own \in [Keys -> Int] /\ own[Global] \in Int
    BY <1>0, LocalsKnown DEF OtherTypes
<1>4. \/ UNCHANGED own
      \/ (Take(t) \/ EndGiveBack(t)) /\ Moved(Global, -thread[t].cost)
      \/ (EndTake(t) \/ GiveBack(t)) /\ Moved(Global, thread[t].cost)
    BY DEF Writing, AskToWrite, StartToWrite, CheckPool, Take, EndTake, GiveBack, EndGiveBack, EndSync
<1>5. own' \in [Keys -> Int] /\ (Take(t) \/ EndGiveBack(t) \/ own'[Global] >= own[Global])
    <2>1. CASE UNCHANGED own
        BY <1>3, <2>1
    <2>2. CASE (Take(t) \/ EndGiveBack(t)) /\ Moved(Global, -thread[t].cost)
        BY <1>0, <1>3, <2>2, OwnMoved
    <2>3. CASE (EndTake(t) \/ GiveBack(t)) /\ Moved(Global, thread[t].cost)
        <3>1. thread[t].cost \in Nat
            BY <2>3, LocalsKnown DEF EndTake, GiveBack, At, ShapeOf
        <3> QED
            BY <1>0, <1>3, <2>3, <3>1, OwnMoved
    <2> QED
        BY <1>4, <2>1, <2>2, <2>3
<1>6. leases' \in [Keys -> [Costs -> Nat]]
    <2>1. CASE UNCHANGED leases
        BY <1>0, <2>1 DEF OtherTypes
    <2>2. CASE EndTake(t)
        <3>1. thread[t].job \in Paying
            BY <2>2, LocalsKnown DEF EndTake, ShapeOf, At, Paying
        <3> QED
            BY <2>2, <3>1, LeaseTyped DEF EndTake
    <2> QED
        BY <2>1, <2>2 DEF Writing, AskToWrite, StartToWrite, CheckPool, Take, GiveBack, EndGiveBack, EndSync
<1>7. OtherTypes'
    BY <1>0, <1>1, <1>5, <1>6 DEF OtherTypes
<1>8. Covered' /\ PoolNotOversold'
    <2>1. CASE Take(t) \/ EndGiveBack(t)
        BY <2>1, TakeKeeps
    <2>2. CASE CheckPool(t) \/ GiveBack(t)
        BY <2>2, CheckPoolKeeps, GiveBackKeeps
    <2>3. CASE ~(Take(t) \/ EndGiveBack(t) \/ CheckPool(t) \/ GiveBack(t))
        <3>1. OthersStay(t) /\ thread'[t].at \notin Owing
            BY <2>3, WritingShape
        <3>2. own'[Global] \in Int
            BY <1>0, <1>5
        <3> QED
            BY <1>1, <1>5, <2>3, <3>1, <3>2, PoolKept
    <2> QED
        BY <2>1, <2>2, <2>3
<1> QED
    BY <1>2, <1>7, <1>8, WritingShape, Together

\* The background task changes nothing but its own locals.
LEMMA BackgroundKeeps ==
    ASSUME Inv, BeginSync \/ StopBackground
    PROVE  Inv'
<1>1. UNCHANGED <<lockVars, isRunning, own, peer, base, load, leases, issued, bypassed>>
    BY DEF BeginSync, StopBackground
<1>2. /\ Background \in Threads /\ LockTypeOK' /\ OtherTypes'
      /\ own[Global] \in Int
    BY <1>1, ThreadsAssumption, Together DEF LockTypeOK, OtherTypes, lockVars, Keys
<1>3. Covered' /\ PoolNotOversold'
    BY <1>1, <1>2, BackgroundShape, PoolKept
<1> QED
    BY <1>2, <1>3, BackgroundShape, Together

\* Peers only add to what the pool is compared with.
LEMMA RestKeeps ==
    ASSUME Inv,
           \/ Stop \/ UpdateAllLinks
           \/ \E k \in Keys, amount \in PeerAmounts : RemoteUpdate(k, amount)
    PROVE  Inv'
<1>1. UNCHANGED <<lockVars, own, load, thread, leases, issued, bypassed>>
    BY DEF Stop, UpdateAllLinks, RemoteUpdate
<1>2. ThreadType' /\ Shape' /\ LockTypeOK'
    BY <1>1, RestShape
<1>3. OtherTypes /\ Global \in Keys /\ own[Global] \in Int /\ peer[Global].incr \in Nat
    BY Together DEF OtherTypes, Keys
<1>4. /\ peer' \in [Keys -> [incr : Nat, decr : Nat]]
      /\ peer'[Global].incr >= peer[Global].incr
    <2>1. CASE UNCHANGED peer
        BY <1>3, <2>1 DEF OtherTypes
    <2>2. ASSUME NEW k \in Keys, NEW amount \in PeerAmounts, RemoteUpdate(k, amount)
          PROVE  /\ peer' \in [Keys -> [incr : Nat, decr : Nat]]
                 /\ peer'[Global].incr >= peer[Global].incr
        <3>1. amount \in Int /\ peer \in [Keys -> [incr : Nat, decr : Nat]]
            BY <1>3, AmountsAssumption DEF OtherTypes
        <3>2. CASE amount >= 0
            <4>1. peer' = [peer EXCEPT ![k].incr = Larger(@, amount)]
                BY <2>2, <3>2 DEF RemoteUpdate
            <4> QED
                BY <1>3, <3>1, <3>2, <4>1 DEF Larger
        <3>3. CASE ~(amount >= 0)
            <4>1. peer' = [peer EXCEPT ![k].decr = Larger(@, -amount)]
                BY <2>2, <3>3 DEF RemoteUpdate
            <4> QED
                BY <1>3, <3>1, <3>3, <4>1 DEF Larger
        <3> QED
            BY <3>2, <3>3
    <2> QED
        BY <2>1, <2>2 DEF Stop, UpdateAllLinks
<1>5. isRunning' \in BOOLEAN /\ base' \in [Servers -> Nat]
    BY <1>3, AmountsAssumption DEF Stop, UpdateAllLinks, RemoteUpdate, OtherTypes
<1>6. OtherTypes'
    BY <1>1, <1>3, <1>4, <1>5 DEF OtherTypes
<1>7. peer'[Global].incr \in Nat
    BY <1>3, <1>4
<1>8. PoolNotOversold'
    BY <1>1, <1>3, <1>4, <1>7 DEF Inv, PoolNotOversold
<1>9. Covered'
    <2>1. ASSUME NEW u \in Threads, thread'[u].at \in Owing
          PROVE  own'[Global] + peer'[Global].incr >= thread'[u].cost
        <3>1. own[Global] + peer[Global].incr >= thread[u].cost /\ thread[u].cost \in Int
            BY <1>1, <2>1, LocalsKnown DEF Inv, Covered
        <3> QED
            BY <1>1, <1>3, <1>4, <1>7, <3>1
    <2> QED
        BY <2>1 DEF Covered
<1> QED
    BY <1>2, <1>6, <1>8, <1>9, Together

\* After InitializeServers nothing has been taken.
LEMMA InitInv == Init => Inv
<1> SUFFICES ASSUME Init PROVE Inv
    OBVIOUS
<1>1. Idle \in Locals
    BY DEF Idle, Locals, Points, Jobs, Keys
<1>2. PoolCapacity \in Nat
    BY ServersAssumption, AmountsAssumption, FS_CardinalityType DEF PoolCapacity
<1>3. /\ own \in [Keys -> Int] /\ own[Global] = PoolCapacity
      /\ peer \in [Keys -> [incr : Nat, decr : Nat]] /\ peer[Global].incr = 0
    BY <1>2, AmountsAssumption DEF Init, Keys
<1>4. TypeOK
    BY <1>1, <1>3, AmountsAssumption DEF Init, Unlocked, TypeOK, LockTypeOK
<1>5. Shape
    BY NoThreadAssumption DEF Init, Unlocked, Shape, ShapeOf, Idle, Paying, Locked, OnServer
<1>6. Covered /\ PoolNotOversold
    BY <1>2, <1>3 DEF Init, Covered, PoolNotOversold, Owing, Idle
<1> QED
    BY <1>4, <1>5, <1>6 DEF Inv

\* Every step keeps the invariant.
LEMMA StepInv == Inv /\ [Next]_vars => Inv'
<1> SUFFICES ASSUME Inv, [Next]_vars PROVE Inv'
    OBVIOUS
<1>1. CASE UNCHANGED vars
    <2>1. UNCHANGED <<lockVars, thread>> /\ UNCHANGED <<isRunning, own, peer, base, load, leases, issued, bypassed>>
        BY <1>1 DEF vars
    <2>2. OtherTypes' /\ Covered' /\ PoolNotOversold'
        BY <2>1, Together DEF OtherTypes, Covered, PoolNotOversold
    <2> QED
        BY <2>1, <2>2, RestShape, Together
<1> QED
    BY <1>1, NewRequestKeeps, ExpireKeeps, ScanningKeeps, ServingKeeps, WritingKeeps, BackgroundKeeps,
       RestKeeps, ThreadsAssumption DEF Next

\* Every variable of the controller keeps its type; in particular the locals of
\* every goroutine and the counts of its locks.
THEOREM TypeCorrect == SafeSpec => []TypeOK
<1>1. Inv => TypeOK
    BY DEF Inv
<1> QED
    BY <1>1, InitInv, StepInv, PTL DEF SafeSpec

\* For any number of goroutines, servers and requests and any updates of peers:
\* the node never gives away more of the pool than it and its peers have put
\* into it (AllocateGlobalResources).
THEOREM PoolNeverOversold == SafeSpec => []PoolNotOversold
<1>1. Inv => PoolNotOversold
    BY DEF Inv
<1> QED
    BY <1>1, InitInv, StepInv, PTL DEF SafeSpec

-----------------------------------------------------------------------------
(* The sums in the properties, when one goroutine moves.                   *)

\* What t is about to return to the pool, or has taken from it and may yet put
\* back; and what it is about to move at k.
Due(t) ==
    IF At(t, "taken") \/ (thread[t].job = "return" /\ ~At(t, "given")) THEN thread[t].cost ELSE 0
Dues == SumFunction([t \in Threads |-> Due(t)])
Part(point, k, t) == IF At(t, point) /\ thread[t].server = k THEN thread[t].cost ELSE 0

\* There are finitely many goroutines.
LEMMA ThreadsFinite == IsFiniteSet(Threads)
BY ThreadsAssumption, FS_AddElement

\* A goroutine's cost is an amount, before a step
LEMMA CostsInt == ASSUME ThreadType, NEW t \in Threads PROVE thread[t].cost \in Int
<1>1. thread[t] \in Locals
    BY DEF ThreadType
<1>2. thread[t].cost \in Amounts \cup {0}
    BY <1>1 DEF Locals
<1> QED
    BY <1>2, AmountsKnown

\* and after it.
LEMMA CostsIntNext == ASSUME ThreadType', NEW t \in Threads PROVE thread'[t].cost \in Int
<1>1. thread'[t] \in Locals
    BY DEF ThreadType
<1>2. thread'[t].cost \in Amounts \cup {0}
    BY <1>1 DEF Locals
<1> QED
    BY <1>2, AmountsKnown

\* What is due changes with the goroutine that moves.
LEMMA DuesMove ==
    ASSUME ThreadType, ThreadType', NEW t \in Threads, OthersStay(t)
    PROVE  /\ Dues' = Dues - Due(t) + Due(t)'
           /\ Dues \in Int /\ Due(t) \in Int /\ Due(t)' \in Int
<1> DEFINE before == [u \in Threads |-> Due(u)]
           after == [u \in Threads |-> Due(u)']
<1>1. \A u \in Threads : thread[u].cost \in Int /\ thread'[u].cost \in Int
    BY CostsInt, CostsIntNext
<1>2. before \in [Threads -> Int] /\ after \in [Threads -> Int]
    BY <1>1 DEF Due
<1>3. \A u \in Threads : u # t => after[u] = before[u]
    BY DEF OthersStay, Due, At
<1>4. Dues = SumFunction(before) /\ Dues' = SumFunction(after)
    BY DEF Dues
<1>5. before[t] = Due(t) /\ after[t] = Due(t)'
    OBVIOUS
<1> HIDE DEF before, after
<1>6. SumFunction(after) = SumFunction(before) - before[t] + after[t]
    BY <1>2, <1>3, ThreadsFinite, SumChange
<1>7. SumFunction(before) \in Int
    BY <1>2, ThreadsFinite, SumType
<1> QED
    BY <1>2, <1>4, <1>5, <1>6, <1>7

\* What is due is no less than what is returned.
LEMMA DuesCover ==
    ASSUME Inv
    PROVE  Returning <= Dues /\ Returning \in Int /\ Dues \in Int
<1> DEFINE returned == [t \in Threads |->
                           IF thread[t].job = "return" /\ ~At(t, "given") THEN thread[t].cost ELSE 0]
           due == [t \in Threads |-> Due(t)]
<1>1. ASSUME NEW t \in Threads
      PROVE  returned[t] \in Int /\ due[t] \in Int /\ returned[t] <= due[t]
    <2>1. thread[t].cost \in Int
        BY LocalsKnown
    <2>2. At(t, "taken") => thread[t].cost \in Nat
        BY LocalsKnown DEF At, ShapeOf
    <2> QED
        BY <2>1, <2>2 DEF Due
<1>2. returned \in [Threads -> Int] /\ due \in [Threads -> Int]
    BY <1>1
<1>3. Returning = SumFunction(returned) /\ Dues = SumFunction(due)
    BY DEF Returning, Dues
<1> HIDE DEF returned, due
<1> QED
    BY <1>1, <1>2, <1>3, ThreadsFinite, SumMonotone, SumType

\* What is between two points at a server changes with the goroutine that moves.
LEMMA WorkingMoves ==
    ASSUME ThreadType, ThreadType', NEW t \in Threads, OthersStay(t), NEW point, NEW k
    PROVE  /\ WorkingAt(point, k)' = WorkingAt(point, k) - Part(point, k, t) + Part(point, k, t)'
           /\ WorkingAt(point, k) \in Int /\ Part(point, k, t) \in Int /\ Part(point, k, t)' \in Int
<1> DEFINE before == [u \in Threads |-> Part(point, k, u)]
           after == [u \in Threads |-> Part(point, k, u)']
<1>1. \A u \in Threads : thread[u].cost \in Int /\ thread'[u].cost \in Int
    BY CostsInt, CostsIntNext
<1>2. before \in [Threads -> Int] /\ after \in [Threads -> Int]
    BY <1>1 DEF Part
<1>3. \A u \in Threads : u # t => after[u] = before[u]
    BY DEF OthersStay, Part, At
<1>4. WorkingAt(point, k) = SumFunction(before) /\ WorkingAt(point, k)' = SumFunction(after)
    BY DEF WorkingAt, Part
<1>5. before[t] = Part(point, k, t) /\ after[t] = Part(point, k, t)'
    OBVIOUS
<1> HIDE DEF before, after
<1>6. SumFunction(after) = SumFunction(before) - before[t] + after[t]
    BY <1>2, <1>3, ThreadsFinite, SumChange
<1>7. SumFunction(before) \in Int
    BY <1>2, ThreadsFinite, SumType
<1> QED
    BY <1>2, <1>4, <1>5, <1>6, <1>7

\* One lease more or less of cost c at k.
LEMMA LeasedMoves ==
    ASSUME leases \in [Keys -> [Costs -> Nat]], leases' \in [Keys -> [Costs -> Nat]],
           NEW k \in Keys, NEW c \in Costs, NEW n \in Int,
           leases'[k][c] = leases[k][c] + n,
           \A d \in Costs \ {c} : leases'[k][d] = leases[k][d],
           \A j \in Keys \ {k} : leases'[j] = leases[j]
    PROVE  /\ Leased(k)' = Leased(k) + c * n
           /\ \A j \in Keys \ {k} : Leased(j)' = Leased(j)
           /\ Leased(k) \in Nat
<1> DEFINE before == [d \in Costs |-> d * leases[k][d]]
           after == [d \in Costs |-> d * leases'[k][d]]
<1>1. \A d \in Costs : d \in Nat /\ leases[k][d] \in Nat /\ leases'[k][d] \in Nat
    BY AmountsAssumption
<1>2. \A d \in Costs : d * leases[k][d] \in Nat /\ d * leases'[k][d] \in Nat
    BY <1>1
<1>3. before \in [Costs -> Nat] /\ after \in [Costs -> Nat]
    BY <1>2
<1>4. leases'[k][c] = leases[k][c] + n /\ \A d \in Costs \ {c} : leases'[k][d] = leases[k][d]
    OBVIOUS
<1>5. \A d \in Costs : d # c => after[d] = before[d]
    BY <1>4
<1>6. after[c] = before[c] + c * n
    <2>1. c * (leases[k][c] + n) = c * leases[k][c] + c * n
        BY <1>1
    <2> QED
        BY <1>4, <2>1
<1>7. before[c] \in Nat /\ c * n \in Int
    BY <1>1, <1>3
<1>8. Leased(k) = SumFunction(before) /\ Leased(k)' = SumFunction(after)
    BY DEF Leased
<1> HIDE DEF before, after
<1>9. before \in [Costs -> Int] /\ after \in [Costs -> Int]
    BY <1>3
<1>10. SumFunction(after) = SumFunction(before) - before[c] + after[c]
    <2>1. IsFiniteSet(Costs)
        BY AmountsAssumption
    <2> QED
        BY <1>5, <1>9, <2>1, SumChange
<1>11. SumFunction(before) \in Nat
    BY <1>3, AmountsAssumption, SumNat
<1>12. \A j \in Keys \ {k} : leases'[j] = leases[j]
    OBVIOUS
<1>13. \A j \in Keys \ {k} : Leased(j)' = Leased(j)
    BY <1>12 DEF Leased
<1> QED
    BY <1>6, <1>7, <1>8, <1>10, <1>11, <1>13

-----------------------------------------------------------------------------
(* The pool within its capacity.                                           *)

\* The numbers the bound is made of.
LEMMA PoolNumbers ==
    ASSUME Inv
    PROVE  own[Global] \in Int /\ PoolCapacity \in Nat /\ Global \in Keys
<1>1. Global \in Keys
    BY DEF Keys
<1>2. Cardinality(Servers) \in Nat
    BY ServersAssumption, FS_CardinalityType
<1>3. PoolCapacity \in Nat
    BY <1>2, AmountsAssumption DEF PoolCapacity
<1> QED
    BY <1>1, <1>3 DEF Inv, TypeOK

\* What is on lease is an amount.
LEMMA LeasedType ==
    ASSUME leases \in [Keys -> [Costs -> Nat]], NEW k \in Keys
    PROVE  Leased(k) \in Nat
<1> DEFINE amounts == [c \in Costs |-> c * leases[k][c]]
<1>1. amounts \in [Costs -> Nat]
    <2>1. \A c \in Costs : c \in Nat /\ leases[k][c] \in Nat
        BY AmountsKnown
    <2> QED
        BY <2>1
<1>2. IsFiniteSet(Costs)
    BY AmountsAssumption
<1>3. Leased(k) = SumFunction(amounts)
    BY DEF Leased
<1> HIDE DEF amounts
<1> QED
    BY <1>1, <1>2, <1>3, SumNat

\* The same after a step.
LEMMA LeasedTypeNext ==
    ASSUME leases' \in [Keys -> [Costs -> Nat]], NEW k \in Keys
    PROVE  Leased(k)' \in Nat
<1> DEFINE amounts == [c \in Costs |-> c * leases'[k][c]]
<1>1. amounts \in [Costs -> Nat]
    <2>1. \A c \in Costs : c \in Nat /\ leases'[k][c] \in Nat
        BY AmountsKnown
    <2> QED
        BY <2>1
<1>2. IsFiniteSet(Costs)
    BY AmountsAssumption
<1>3. Leased(k)' = SumFunction(amounts)
    BY DEF Leased
<1> HIDE DEF amounts
<1> QED
    BY <1>1, <1>2, <1>3, SumNat

\* The bound with what may yet be put back.
PoolBalanced == own[Global] + Leased(Global) + Dues <= PoolCapacity

LEMMA BalanceBounds == Inv /\ PoolBalanced => PoolWithinCapacity
<1> SUFFICES ASSUME Inv, PoolBalanced PROVE PoolWithinCapacity
    OBVIOUS
<1>1. own[Global] \in Int /\ PoolCapacity \in Nat /\ Leased(Global) \in Nat
    BY PoolNumbers, LeasedType DEF Inv, TypeOK
<1> QED
    BY <1>1, DuesCover DEF PoolBalanced, PoolWithinCapacity

\* A step of t that is balanced keeps it.
LEMMA PoolStep ==
    ASSUME Inv, Inv', PoolBalanced, NEW t \in Threads, OthersStay(t),
           own'[Global] + Leased(Global)' + Due(t)' <= own[Global] + Leased(Global) + Due(t)
    PROVE  PoolBalanced'
<1>1. own[Global] \in Int /\ own'[Global] \in Int /\ PoolCapacity \in Nat /\ Global \in Keys
    BY PoolNumbers DEF Inv, TypeOK
<1>2. Leased(Global) \in Nat /\ Leased(Global)' \in Nat
    BY <1>1, LeasedType, LeasedTypeNext DEF Inv, TypeOK
<1>3. /\ Dues' = Dues - Due(t) + Due(t)'
      /\ Dues \in Int /\ Due(t) \in Int /\ Due(t)' \in Int
    BY DuesMove DEF Inv, TypeOK, ThreadType
<1>4. own[Global] + Leased(Global) + Dues <= PoolCapacity
    BY DEF PoolBalanced
<1>5. own'[Global] + Leased(Global)' + Dues' <= PoolCapacity
    <2> HIDE DEF Due, Dues, Leased, PoolCapacity
    <2> QED BY <1>1, <1>2, <1>3, <1>4
<1> QED
    BY <1>5 DEF PoolBalanced, PoolCapacity

\* Without more on lease or due, the bound is kept.
LEMMA PoolCalm ==
    ASSUME Inv, Inv', PoolBalanced, NEW t \in Threads, OthersStay(t), own'[Global] = own[Global],
           Leased(Global)' = Leased(Global), Due(t)' <= Due(t)
    PROVE  PoolBalanced'
<1>1. own[Global] \in Int /\ Global \in Keys
    BY PoolNumbers
<1>2. Leased(Global) \in Nat
    BY <1>1, LeasedType DEF Inv, TypeOK
<1>3. Due(t) \in Int /\ Due(t)' \in Int
    BY DuesMove DEF Inv, TypeOK, ThreadType
<1> QED
    BY <1>1, <1>2, <1>3, PoolStep

\* MaybeLease puts at most the cost on lease, and nothing of another key.
LEMMA LeaseBound ==
    ASSUME Inv, Inv', NEW t \in Threads, thread[t].job \in Paying, MaybeLease(t) \/ UNCHANGED leases
    PROVE  /\ Leased(Global) \in Nat /\ Leased(Global)' \in Nat
           /\ Leased(Global)' <= Leased(Global) + thread[t].cost
           /\ thread[t].server # Global => Leased(Global)' = Leased(Global)
<1>1. /\ leases \in [Keys -> [Costs -> Nat]] /\ leases' \in [Keys -> [Costs -> Nat]]
      /\ Global \in Keys /\ thread[t].server \in Keys
      /\ thread[t].cost \in Costs /\ thread[t].cost \in Nat
    BY LocalsKnown, AmountsKnown DEF Inv, TypeOK, Keys, ShapeOf
<1>2. Leased(Global) \in Nat
    BY <1>1, LeasedType
<1>3. CASE UNCHANGED leases
    BY <1>1, <1>2, <1>3 DEF Leased
<1>4. CASE MaybeLease(t) /\ ~UNCHANGED leases
    <2>1. PICK k \in Keys, c \in Costs : k = thread[t].server /\ c = thread[t].cost
        BY <1>1
    <2>2. c \in Nat /\ leases' = [leases EXCEPT ![k][c] = @ + 1]
        BY <1>1, <1>4, <2>1 DEF MaybeLease
    <2>3. /\ leases'[k][c] = leases[k][c] + 1
          /\ \A d \in Costs \ {c} : leases'[k][d] = leases[k][d]
          /\ \A j \in Keys \ {k} : leases'[j] = leases[j]
        BY <1>1, <2>2
    <2>4. /\ Leased(k)' = Leased(k) + c * 1
          /\ \A j \in Keys \ {k} : Leased(j)' = Leased(j)
        BY <1>1, <2>2, <2>3, LeasedMoves
    <2>5. c * 1 = c
        BY <2>2
    <2>6. /\ Leased(Global)' \in Nat /\ Leased(Global)' <= Leased(Global) + c
          /\ k # Global => Leased(Global)' = Leased(Global)
        BY <1>1, <1>2, <2>2, <2>4, <2>5
    <2> QED
        BY <1>2, <2>1, <2>6
<1> QED
    BY <1>3, <1>4

\* The steps of one goroutine that neither take from the pool nor return to it.
LEMMA DueKept ==
    ASSUME Inv, NEW t \in Threads, NEW p \in Points, Goto(t, p),
           thread[t].at \notin {"taken", "given"}, p \notin {"taken", "given"}
    PROVE  OthersStay(t) /\ Due(t)' = Due(t)
BY GotoMoves DEF Inv, TypeOK, ThreadType, Due, At

\* What is due is an amount to be given, never a negative one.
LEMMA DueNat == ASSUME Inv, NEW t \in Threads PROVE Due(t) \in Nat
BY LocalsKnown DEF Due, ShapeOf, At

\* From a goroutine that is done nothing is due any more.
LEMMA DueDone ==
    ASSUME Inv, NEW t \in Threads, Done(t)
    PROVE  OthersStay(t) /\ Due(t)' = 0 /\ Due(t) \in Nat
<1>1. OthersStay(t) /\ thread'[t] = Idle
    BY DoneMoves DEF Inv, TypeOK, ThreadType
<1>2. Due(t)' = 0
    BY <1>1 DEF Due, At, Idle
<1> QED
    BY <1>1, <1>2, DueNat

\* One that begins owes something if the pool is what it returns to.
LEMMA DueBegun ==
    ASSUME Inv, NEW t \in Threads, NEW j \in Jobs, NEW s \in Keys,
           NEW c \in Amounts \cup {0}, NEW p \in {"rlock", "wlock", "refund"}, Begin(t, j, s, c, p)
    PROVE  /\ OthersStay(t) /\ Due(t) \in Nat
           /\ Due(t)' = IF j = "return" THEN c ELSE 0
<1>1. p \in Points
    BY DEF Points
<1>2. thread'[t].job = j /\ thread'[t].cost = c /\ thread'[t].at = p /\ OthersStay(t)
    BY <1>1, BeginMoves DEF Inv, TypeOK, ThreadType
<1> QED
    BY <1>2, DueNat DEF Due, At

\* A new request leaves the pool alone.
LEMMA NewRequestPool ==
    ASSUME Inv, Inv', PoolBalanced, NEW t \in Handlers, Requests(t)
    PROVE  PoolBalanced'
<1>1. NewRequest(t) /\ t \in Threads
    BY ThreadsAssumption DEF Requests, BeginEmbed, BeginGlobal, BeginList, BeginRelease
<1>2. /\ Servers \subseteq Keys /\ Global \in Keys /\ Costs \subseteq Amounts /\ Releases \subseteq Amounts
      /\ {"embed", "global", "list", "release"} \subseteq Jobs
    BY DEF Keys, Jobs, Amounts
<1>3. OthersStay(t) /\ Due(t)' <= Due(t)
    <2>1. \E j \in {"embed", "global", "list", "release"}, s \in Keys, c \in Amounts \cup {0},
              p \in {"rlock", "wlock", "refund"} : Begin(t, j, s, c, p)
        BY <1>2 DEF Requests, BeginEmbed, BeginGlobal, BeginList, BeginRelease
    <2>2. PICK j \in {"embed", "global", "list", "release"}, s \in Keys, c \in Amounts \cup {0},
              p \in {"rlock", "wlock", "refund"} : Begin(t, j, s, c, p)
        BY <2>1
    <2>3. j \in Jobs /\ j # "return"
        BY <1>2
    <2> HIDE DEF Begin
    <2>4. OthersStay(t) /\ Due(t) \in Nat /\ Due(t)' = 0
        BY <1>1, <2>2, <2>3, DueBegun
    <2> QED
        BY <2>4
<1>4. own' = own /\ Leased(Global)' = Leased(Global)
    BY <1>1 DEF NewRequest, Leased
<1> QED
    BY <1>1, <1>3, <1>4, PoolCalm

\* What expires is no longer on lease, but about to be returned.
LEMMA ExpirePool ==
    ASSUME Inv, Inv', PoolBalanced, NEW t \in Handlers, NEW k \in Keys, NEW c \in Costs,
           Expire(t, k, c)
    PROVE  PoolBalanced'
<1>1. /\ t \in Threads /\ Global \in Keys /\ c \in Nat /\ c \in Amounts
      /\ leases \in [Keys -> [Costs -> Nat]] /\ leases' \in [Keys -> [Costs -> Nat]]
      /\ own' = own
    BY ThreadsAssumption, AmountsKnown DEF Expire, Inv, TypeOK, Keys
<1>2. leases' = [leases EXCEPT ![k][c] = @ + (-1)]
    <2>1. leases[k][c] \in Int
        BY <1>1
    <2>2. leases[k][c] - 1 = leases[k][c] + (-1)
        BY <2>1
    <2>3. leases' = [leases EXCEPT ![k][c] = @ - 1]
        BY DEF Expire
    <2> QED
        BY <2>2, <2>3
<1>3. /\ Leased(k)' = Leased(k) + c * (-1)
      /\ \A j \in Keys \ {k} : Leased(j)' = Leased(j)
      /\ Leased(k) \in Nat
    <2>1. /\ leases'[k][c] = leases[k][c] + (-1)
          /\ \A d \in Costs \ {c} : leases'[k][d] = leases[k][d]
          /\ \A j \in Keys \ {k} : leases'[j] = leases[j]
        BY <1>1, <1>2
    <2> QED
        BY <1>1, <2>1, LeasedMoves
<1>4. /\ OthersStay(t) /\ Due(t) \in Nat
      /\ Due(t)' <= Due(t) + (IF k = Global THEN c ELSE 0)
    <2>1. CASE ~isRunning
        BY <1>1, <2>1, DueNat DEF Expire, OthersStay, Due, At
    <2>2. CASE isRunning /\ k = Global
        <3>1. Begin(t, "return", Global, c, "wlock") /\ "return" \in Jobs
            BY <2>2 DEF Expire, Jobs
        <3>2. /\ OthersStay(t) /\ Due(t) \in Nat
              /\ Due(t)' = c
            BY <1>1, <3>1, DueBegun
        <3> QED
            BY <1>1, <2>2, <3>2
    <2>3. CASE isRunning /\ k # Global
        <3>1. Begin(t, "release", k, c, "refund") /\ "release" \in Jobs
            BY <2>3 DEF Expire, Jobs
        <3>2. /\ OthersStay(t) /\ Due(t) \in Nat
              /\ Due(t)' = 0
            BY <1>1, <3>1, DueBegun
        <3> QED
            BY <1>1, <2>3, <3>2
    <2> QED
        BY <2>1, <2>2, <2>3
<1>5. own[Global] \in Int /\ PoolCapacity \in Nat
    BY PoolNumbers
<1>6. Leased(Global) \in Nat /\ Due(t)' \in Int
    BY <1>1, <1>4, LeasedType, DuesMove DEF Inv, TypeOK, ThreadType
<1>7. Leased(Global)' = Leased(Global) - (IF k = Global THEN c ELSE 0)
    BY <1>1, <1>3, <1>6
<1> DEFINE moved == IF k = Global THEN c ELSE 0
<1>8. moved \in Nat
    BY <1>1
<1>9. own'[Global] + Leased(Global)' + Due(t)' <= own[Global] + Leased(Global) + Due(t)
    <2> HIDE DEF moved
    <2> QED BY <1>1, <1>4, <1>5, <1>6, <1>7, <1>8 DEF moved
<1> QED
    BY <1>1, <1>4, <1>9, PoolStep

\* What the pool has and what t owes it: what t takes it may yet put back, and
\* what it returns is no longer due.
LEMMA TakePool ==
    ASSUME Inv, Inv', PoolBalanced, NEW t \in Threads, Take(t) \/ GiveBack(t)
    PROVE  PoolBalanced'
<1>1. /\ own \in [Keys -> Int] /\ own[Global] \in Int /\ Global \in Keys /\ ThreadType
      /\ thread[t].cost \in Int /\ -thread[t].cost \in Int
    BY PoolNumbers, LocalsKnown DEF Inv, TypeOK, ThreadType
<1>2. Leased(Global)' = Leased(Global) /\ Leased(Global) \in Nat
    BY <1>1, LeasedType DEF Take, GiveBack, Leased, Inv, TypeOK
<1>3. CASE Take(t)
    <2>1. At(t, "take") /\ Moved(Global, -thread[t].cost) /\ Goto(t, "taken") /\ thread[t].job = "global"
        BY <1>3, LocalsKnown DEF Take, At, ShapeOf
    <2>2. OthersStay(t) /\ Due(t) = 0 /\ Due(t)' = thread[t].cost
        BY <1>1, <2>1, GotoMoves DEF Due, At, Points
    <2>3. own'[Global] = own[Global] + (-thread[t].cost)
        BY <1>1, <2>1, OwnMoved
    <2>4. own'[Global] + Leased(Global)' + Due(t)' <= own[Global] + Leased(Global) + Due(t)
        BY <1>1, <1>2, <2>2, <2>3
    <2> QED
        BY <2>2, <2>4, PoolStep
<1>4. CASE GiveBack(t)
    <2>1. At(t, "check") /\ Moved(Global, thread[t].cost) /\ Goto(t, "given") /\ thread[t].job = "return"
        BY <1>4 DEF GiveBack
    <2>2. OthersStay(t) /\ Due(t) = thread[t].cost /\ Due(t)' = 0
        BY <1>1, <2>1, GotoMoves DEF Due, At, Points
    <2>3. own'[Global] = own[Global] + thread[t].cost
        BY <1>1, <2>1, OwnMoved
    <2>4. own'[Global] + Leased(Global)' + Due(t)' <= own[Global] + Leased(Global) + Due(t)
        BY <1>1, <1>2, <2>2, <2>3
    <2> QED
        BY <2>2, <2>4, PoolStep
<1> QED
    BY <1>3, <1>4

\* What was taken is on lease afterwards, or kept for good, or put back.
LEMMA EndTakePool ==
    ASSUME Inv, Inv', PoolBalanced, NEW t \in Threads, EndTake(t)
    PROVE  PoolBalanced'
<1>1. /\ own \in [Keys -> Int] /\ own[Global] \in Int /\ Global \in Keys
      /\ At(t, "taken") /\ thread[t].cost \in Nat /\ thread[t].cost \in Int /\ thread[t].job \in Paying
    BY PoolNumbers, LocalsKnown DEF EndTake, At, ShapeOf, Paying, Inv, TypeOK
<1>2. OthersStay(t) /\ Due(t)' = 0 /\ Due(t) = thread[t].cost
    BY <1>1, DueDone DEF EndTake, Due
<1>3. /\ Leased(Global) \in Nat /\ Leased(Global)' \in Nat
      /\ own'[Global] + Leased(Global)' <= own[Global] + Leased(Global) + thread[t].cost
    <2>1. CASE UNCHANGED own /\ MaybeLease(t)
        <3>1. /\ Leased(Global) \in Nat /\ Leased(Global)' \in Nat
              /\ Leased(Global)' <= Leased(Global) + thread[t].cost
            BY <1>1, <2>1, LeaseBound
        <3> QED
            BY <1>1, <2>1, <3>1
    <2>2. CASE Moved(Global, thread[t].cost) /\ UNCHANGED leases
        <3>1. Leased(Global) \in Nat /\ Leased(Global)' = Leased(Global)
            BY <1>1, <2>2, LeasedType DEF Inv, TypeOK, Leased
        <3>2. own'[Global] = own[Global] + thread[t].cost
            BY <1>1, <2>2, OwnMoved
        <3> QED
            BY <1>1, <3>1, <3>2
    <2> QED
        BY <2>1, <2>2 DEF EndTake
<1>4. own'[Global] \in Int
    BY <1>1 DEF Inv, TypeOK
<1>5. own'[Global] + Leased(Global)' + Due(t)' <= own[Global] + Leased(Global) + Due(t)
    BY <1>1, <1>2, <1>3, <1>4
<1> QED
    BY <1>2, <1>5, PoolStep

\* A return that is refused is lost.
LEMMA EndGiveBackPool ==
    ASSUME Inv, Inv', PoolBalanced, NEW t \in Threads, EndGiveBack(t)
    PROVE  PoolBalanced'
<1>1. /\ own \in [Keys -> Int] /\ own[Global] \in Int /\ Global \in Keys
      /\ thread[t].cost \in Nat /\ -thread[t].cost \in Int
    BY PoolNumbers, LocalsKnown DEF EndGiveBack, At, ShapeOf, Inv, TypeOK
<1>2. OthersStay(t) /\ Due(t)' = 0 /\ Due(t) \in Nat
    BY DueDone DEF EndGiveBack
<1>3. Leased(Global)' = Leased(Global) /\ Leased(Global) \in Nat
    BY <1>1, LeasedType DEF EndGiveBack, Leased, Inv, TypeOK
<1>4. own'[Global] = own[Global] \/ own'[Global] = own[Global] + (-thread[t].cost)
    <2>1. CASE Moved(Global, -thread[t].cost)
        BY <1>1, <2>1, OwnMoved
    <2> QED
        BY <2>1 DEF EndGiveBack
<1>5. own'[Global] + Leased(Global)' + Due(t)' <= own[Global] + Leased(Global) + Due(t)
    BY <1>1, <1>2, <1>3, <1>4
<1> QED
    BY <1>2, <1>5, PoolStep

\* The other steps of one goroutine.
LEMMA ScanningPool ==
    ASSUME Inv, Inv', PoolBalanced, NEW t \in Threads, Scanning(t)
    PROVE  PoolBalanced'
<1>1. UNCHANGED <<own, leases>> /\ thread \in [Threads -> Locals]
    BY DEF Scanning, LockForScan, Peek, EndScan, Inv, TypeOK
<1>2. OthersStay(t) /\ Due(t)' <= Due(t)
    <2>1. CASE LockForScan(t)
        <3>1. thread' = [thread EXCEPT ![t] = [@ EXCEPT !.at = "scan", !.left = Servers]]
            BY <2>1 DEF LockForScan
        <3>2. /\ thread'[t].job = thread[t].job /\ thread'[t].cost = thread[t].cost /\ OthersStay(t)
              /\ thread'[t].at = "scan" /\ thread[t].at = "rlock"
            BY <1>1, <2>1, <3>1 DEF OthersStay, Locals, LockForScan, At
        <3> QED
            BY <3>2, DueNat DEF Due, At
    <2>2. ASSUME NEW s \in Servers, Peek(t, s) PROVE OthersStay(t) /\ Due(t)' <= Due(t)
        <3>1. thread' = [thread EXCEPT ![t] = Looked(t, s)]
            BY <2>2 DEF Peek
        <3>2. /\ Looked(t, s).job = thread[t].job /\ Looked(t, s).cost = thread[t].cost
              /\ Looked(t, s).at = thread[t].at
            BY <1>1 DEF Looked, Locals
        <3>3. /\ thread'[t].job = thread[t].job /\ thread'[t].cost = thread[t].cost /\ OthersStay(t)
              /\ thread'[t].at = thread[t].at
            BY <1>1, <3>1, <3>2 DEF OthersStay
        <3> QED
            BY <3>3, DueNat DEF Due, At
    <2>3. CASE EndScan(t)
        <3>1. Goto(t, "charge") \/ Done(t)
            BY <2>3 DEF EndScan
        <3>2. "charge" \in Points /\ Due(t) \in Nat /\ thread[t].at \notin {"taken", "given"}
            BY <2>3, DueNat DEF Points, EndScan, At
        <3> QED
            BY <3>1, <3>2, DueKept, DueDone
    <2> QED
        BY <2>1, <2>2, <2>3 DEF Scanning
<1>3. Leased(Global)' = Leased(Global)
    BY <1>1 DEF Leased
<1> QED
    BY <1>1, <1>2, <1>3, PoolCalm

\* The steps of an allocation or a release that hold no lock.
LEMMA ServingPool ==
    ASSUME Inv, Inv', PoolBalanced, NEW t \in Threads, Serving(t)
    PROVE  PoolBalanced'
<1>1. thread[t].cost \in Int /\ -thread[t].cost \in Int /\ Global \notin Servers
    BY LocalsKnown, ServersAssumption
<1>2. thread[t].server \in Servers \/ Respond(t)
    BY LocalsKnown DEF Serving, Charge, EndCharge, AddLoad, Refund, EndRefund, Unload, At, ShapeOf, OnServer
<1>3. own'[Global] = own[Global]
    <2>1. CASE UNCHANGED own
        BY <2>1
    <2>2. ASSUME NEW n \in Int, Moved(thread[t].server, n), thread[t].server \in Servers
          PROVE  own'[Global] = own[Global]
        BY <2>2, ServerMoved
    <2>3. \/ UNCHANGED own
          \/ Moved(thread[t].server, thread[t].cost) /\ ~Respond(t)
          \/ Moved(thread[t].server, -thread[t].cost) /\ ~Respond(t)
        BY DEF Serving, Charge, EndCharge, AddLoad, Respond, Refund, EndRefund, Unload, At
    <2> QED
        BY <1>1, <1>2, <2>1, <2>2, <2>3
<1>4. Leased(Global)' = Leased(Global)
    <2>1. CASE UNCHANGED leases
        BY <2>1 DEF Leased
    <2>2. CASE AddLoad(t)
        <3>1. thread[t].job \in Paying /\ thread[t].server # Global
            BY <1>1, <2>2, LocalsKnown DEF AddLoad, At, ShapeOf, Paying, OnServer
        <3> QED
            BY <2>2, <3>1, LeaseBound DEF AddLoad
    <2> QED
        BY <2>1, <2>2 DEF Serving, Charge, EndCharge, Respond, Refund, EndRefund, Unload
<1>5. \/ Done(t)
      \/ \E p \in {"charged", "load", "status", "refunded", "unload"} : Goto(t, p)
    BY DEF Serving, Charge, EndCharge, AddLoad, Respond, Refund, EndRefund, Unload
<1>6. OthersStay(t) /\ Due(t)' <= Due(t)
    <2>1. /\ {"charged", "load", "status", "refunded", "unload"} \subseteq Points /\ Due(t) \in Nat
          /\ thread[t].at \notin {"taken", "given"}
        BY DueNat DEF Points, Serving, Charge, EndCharge, AddLoad, Respond, Refund, EndRefund, Unload, At
    <2>2. ASSUME NEW p \in {"charged", "load", "status", "refunded", "unload"}, Goto(t, p)
          PROVE  OthersStay(t) /\ Due(t)' <= Due(t)
        <3>1. OthersStay(t) /\ Due(t)' = Due(t)
            BY <2>1, <2>2, DueKept
        <3> QED
            BY <2>1, <3>1
    <2>3. ASSUME Done(t) PROVE OthersStay(t) /\ Due(t)' <= Due(t)
        BY <2>3, DueDone
    <2> QED
        BY <1>5, <2>2, <2>3
<1> QED
    BY <1>3, <1>4, <1>6, PoolCalm

\* The steps under the write lock.
LEMMA WritingPool ==
    ASSUME Inv, Inv', PoolBalanced, NEW t \in Threads, Writing(t) \/ (t = Background /\ EndSync)
    PROVE  PoolBalanced'
<1>1. CASE Take(t) \/ GiveBack(t) \/ EndTake(t) \/ EndGiveBack(t)
    BY <1>1, TakePool, EndTakePool, EndGiveBackPool
<1>2. CASE ~(Take(t) \/ GiveBack(t) \/ EndTake(t) \/ EndGiveBack(t))
    <2>1. /\ UNCHANGED <<own, leases>> /\ thread[t].at \notin {"taken", "given"}
          /\ Goto(t, "drain") \/ Goto(t, "check") \/ Goto(t, "take") \/ Done(t)
        BY <1>2 DEF Writing, AskToWrite, StartToWrite, CheckPool, EndSync, At
    <2>2. {"drain", "check", "take"} \subseteq Points /\ Due(t) \in Nat
        BY DueNat DEF Points
    <2>3. OthersStay(t) /\ Due(t)' <= Due(t)
        <3>1. ASSUME NEW p \in {"drain", "check", "take"}, Goto(t, p)
              PROVE  OthersStay(t) /\ Due(t)' = Due(t)
            BY <2>1, <2>2, <3>1, DueKept
        <3> QED
            BY <2>1, <2>2, <3>1, DueDone
    <2>4. Leased(Global)' = Leased(Global)
        BY <2>1 DEF Leased
    <2> QED
        BY <2>1, <2>3, <2>4, PoolCalm
<1> QED
    BY <1>1, <1>2

\* The background task has nothing to return.
LEMMA BackgroundPool ==
    ASSUME Inv, Inv', PoolBalanced, BeginSync \/ StopBackground
    PROVE  PoolBalanced'
<1>1. UNCHANGED <<own, leases>> /\ Background \in Threads /\ Global \in Keys
    BY ThreadsAssumption DEF BeginSync, StopBackground, Keys
<1>2. Begin(Background, "sync", Global, 0, "wlock") \/ Goto(Background, "stopped")
    BY DEF BeginSync, StopBackground
<1>3. /\ "sync" \in Jobs /\ "stopped" \in Points /\ Due(Background) \in Nat
      /\ thread[Background].at \notin {"taken", "given"}
    BY <1>1, DueNat DEF Jobs, Points, BeginSync, StopBackground, At
<1>4. OthersStay(Background) /\ Due(Background)' <= Due(Background)
    BY <1>1, <1>2, <1>3, DueBegun, DueKept
<1>5. Leased(Global)' = Leased(Global)
    BY <1>1 DEF Leased
<1> QED
    BY <1>1, <1>4, <1>5, PoolCalm

\* Every step keeps the bound.
LEMMA StepPool ==
    ASSUME Inv, Inv', PoolBalanced, [Next]_vars
    PROVE  PoolBalanced'
<1>1. CASE UNCHANGED <<own, leases, thread>>
    BY <1>1 DEF PoolBalanced, Leased, Dues, Due, At, PoolCapacity
<1>2. CASE Stop \/ UpdateAllLinks \/ UNCHANGED vars
           \/ \E k \in Keys, amount \in PeerAmounts : RemoteUpdate(k, amount)
    BY <1>1, <1>2 DEF Stop, UpdateAllLinks, RemoteUpdate, vars
<1>3. EndSync => Background \in Threads
    BY ThreadsAssumption
<1> QED
    BY <1>2, <1>3, NewRequestPool, ExpirePool, ScanningPool, ServingPool, WritingPool, BackgroundPool DEF Next

\* At first the pool is whole.
LEMMA InitPool == Init => PoolBalanced
<1> SUFFICES ASSUME Init PROVE PoolBalanced
    OBVIOUS
<1> DEFINE amounts == [c \in Costs |-> c * leases[Global][c]]
           due == [t \in Threads |-> Due(t)]
<1>1. \A c \in Costs : c \in Nat /\ leases[Global][c] = 0
    BY AmountsKnown DEF Init, Keys
<1>2. amounts \in [Costs -> Int] /\ \A c \in Costs : amounts[c] = 0
    BY <1>1
<1>3. due \in [Threads -> Int] /\ \A t \in Threads : due[t] = 0
    BY DEF Init, Idle, Due, At
<1>4. Leased(Global) = SumFunction(amounts) /\ Dues = SumFunction(due)
    BY DEF Leased, Dues
<1>5. IsFiniteSet(Costs)
    BY AmountsAssumption
<1> HIDE DEF amounts, due
<1>6. Leased(Global) = 0 /\ Dues = 0
    BY <1>2, <1>3, <1>4, <1>5, ThreadsFinite, SumZeros
<1>7. own[Global] = PoolCapacity /\ PoolCapacity \in Nat
    BY InitInv, PoolNumbers DEF Init, Keys
<1> QED
    BY <1>6, <1>7 DEF PoolBalanced

\* What is returned to the pool was taken from it, and is returned once.
THEOREM PoolKeepsCapacity == SafeSpec => []PoolWithinCapacity
<1> DEFINE Both == Inv /\ PoolBalanced
<1>1. Init => Both
    BY InitInv, InitPool
<1>2. Both /\ [Next]_vars => Both'
    BY StepInv, StepPool
<1>3. Both => PoolWithinCapacity
    BY BalanceBounds
<1> HIDE DEF Both
<1> QED
    BY <1>1, <1>2, <1>3, PTL DEF SafeSpec

-----------------------------------------------------------------------------
(* The load shown, against what the node has taken.                        *)

\* The numbers kept for a server, before a step
LEMMA ServerNumbers ==
    ASSUME Inv, NEW s \in Servers
    PROVE  own[s] \in Int /\ load[s] \in Nat /\ Capacity \in Nat
           /\ peer[s].incr \in Nat /\ peer[s].decr \in Nat /\ base[s] \in Nat
           /\ bypassed[s] \in Nat
BY AmountsAssumption DEF Inv, TypeOK, Keys

\* and after it.
LEMMA ServerNumbersNext ==
    ASSUME Inv', NEW s \in Servers
    PROVE  own'[s] \in Int /\ load'[s] \in Nat /\ peer'[s].incr \in Nat /\ bypassed'[s] \in Nat
BY DEF Inv, TypeOK, Keys

\* What the step of t is yet to add to the load of s, or to take from it.
Pending(t, s) ==
    Part("charged", s, t) + Part("load", s, t) - Part("refunded", s, t) - Part("unload", s, t)

\* It is the cost of t, at four points, before a step
Owed(point, c) ==
    IF point \in {"charged", "load"} THEN c ELSE IF point \in {"refunded", "unload"} THEN -c ELSE 0

LEMMA PendingKnown ==
    ASSUME NEW t, NEW s, thread[t].cost \in Int
    PROVE  Pending(t, s) = IF thread[t].server # s THEN 0 ELSE Owed(thread[t].at, thread[t].cost)
BY DEF Pending, Part, At, Owed

\* and after it.
LEMMA PendingNext ==
    ASSUME NEW t, NEW s, thread'[t].cost \in Int
    PROVE  Pending(t, s)' = IF thread'[t].server # s THEN 0 ELSE Owed(thread'[t].at, thread'[t].cost)
BY DEF Pending, Part, At, Owed

\* What a step of t has to balance, for each server.
Balanced(t, s) == own[s] - own'[s] <= (load'[s] - load[s]) + (Pending(t, s)' - Pending(t, s))

\* When the step of t is balanced at every server, the load still covers what was taken.
LEMMA LoadStep ==
    ASSUME Inv, Inv', LoadCoversAllocations, NEW t \in Threads, OthersStay(t),
           \A s \in Servers : Balanced(t, s)
    PROVE  LoadCoversAllocations'
<1> DEFINE W(s) == WorkingAt("charged", s) + WorkingAt("load", s)
                   - WorkingAt("refunded", s) - WorkingAt("unload", s)
<1> SUFFICES ASSUME NEW s \in Servers PROVE Capacity - own'[s] <= load'[s] + W(s)'
    <2>1. ASSUME NEW s \in Servers
          PROVE  load'[s] + W(s)' = load'[s] + WorkingAt("charged", s)' + WorkingAt("load", s)'
                                    - WorkingAt("refunded", s)' - WorkingAt("unload", s)'
        <3>1. /\ WorkingAt("charged", s)' \in Int /\ WorkingAt("load", s)' \in Int
              /\ WorkingAt("refunded", s)' \in Int /\ WorkingAt("unload", s)' \in Int
            <4>1. ThreadType /\ ThreadType'
                BY DEF Inv, TypeOK, ThreadType
            <4> QED
                BY <4>1, WorkingMoves
        <3>2. load'[s] \in Int
            BY ServerNumbersNext
        <3> HIDE DEF WorkingAt
        <3> QED
            BY <3>1, <3>2
    <2> QED
        BY <2>1 DEF LoadCoversAllocations
<1>1. own[s] \in Int /\ load[s] \in Nat /\ Capacity \in Nat
    BY ServerNumbers
<1>2. own'[s] \in Int /\ load'[s] \in Nat
    BY ServerNumbersNext
<1>3. ThreadType /\ ThreadType'
    BY DEF Inv, TypeOK, ThreadType
<1>4. ASSUME NEW point
      PROVE  /\ WorkingAt(point, s)' = WorkingAt(point, s) - Part(point, s, t) + Part(point, s, t)'
             /\ WorkingAt(point, s) \in Int /\ Part(point, s, t) \in Int /\ Part(point, s, t)' \in Int
    BY <1>3, WorkingMoves
<1>5. W(s)' = W(s) - Pending(t, s) + Pending(t, s)'
      /\ W(s) \in Int /\ Pending(t, s) \in Int /\ Pending(t, s)' \in Int
    <2> HIDE DEF Part, WorkingAt
    <2> QED
        BY <1>4 DEF Pending
<1>6. Capacity - own[s] <= load[s] + W(s)
    <2>1. Capacity - own[s] <= load[s] + WorkingAt("charged", s) + WorkingAt("load", s)
                               - WorkingAt("refunded", s) - WorkingAt("unload", s)
        BY DEF LoadCoversAllocations
    <2> HIDE DEF WorkingAt
    <2> QED
        BY <1>1, <1>4, <2>1
<1>7. own[s] - own'[s] <= (load'[s] - load[s]) + (Pending(t, s)' - Pending(t, s))
    BY DEF Balanced
<1> HIDE DEF W, Pending
<1> QED
    BY <1>1, <1>2, <1>5, <1>6, <1>7

\* A step between other points balances nothing.
LEMMA LoadCalm ==
    ASSUME Inv, Inv', LoadCoversAllocations, NEW t \in Threads, OthersStay(t),
           UNCHANGED load, \A s \in Servers : own'[s] = own[s],
           thread[t].at \notin {"charged", "load", "refunded", "unload"},
           thread'[t].at \notin {"charged", "load", "refunded", "unload"}
    PROVE  LoadCoversAllocations'
<1> SUFFICES ASSUME NEW s \in Servers PROVE Balanced(t, s)
    BY LoadStep
<1>1. Pending(t, s) = 0 /\ Pending(t, s)' = 0
    BY DEF Pending, Part, At
<1> QED
    BY <1>1, ServerNumbers DEF Balanced

\* t moves the counter of its server, goes on, and what is pending makes up for it.
LEMMA MoveLoad ==
    ASSUME Inv, Inv', LoadCoversAllocations, NEW t \in Threads, NEW n \in Int, UNCHANGED load,
           thread[t].server \in Servers, Moved(thread[t].server, n) \/ (UNCHANGED own /\ n = 0),
           NEW p \in {"charged", "load", "refunded", "unload", "idle"},
           Goto(t, p) \/ (Done(t) /\ p = "idle"),
           Owed(p, thread[t].cost) - Owed(thread[t].at, thread[t].cost) = -n
    PROVE  LoadCoversAllocations'
<1>1. p \in Points /\ ThreadType /\ ThreadType' /\ thread[t].cost \in Int
    BY LocalsKnown DEF Inv, TypeOK, ThreadType, Points
<1>2. OthersStay(t) /\ thread'[t].at = p /\ thread'[t].cost \in Int
      /\ (p = "idle" \/ (thread'[t].server = thread[t].server /\ thread'[t].cost = thread[t].cost))
    <2>1. CASE Goto(t, p)
        BY <1>1, <2>1, GotoMoves
    <2>2. CASE Done(t) /\ p = "idle"
        BY <1>1, <2>2, DoneMoves DEF Idle
    <2> QED
        BY <2>1, <2>2
<1> SUFFICES ASSUME NEW s \in Servers PROVE Balanced(t, s)
    BY <1>2, LoadStep
<1>3. own[s] \in Int /\ load[s] \in Nat /\ load'[s] = load[s]
    BY ServerNumbers
<1>4. own'[s] = IF thread[t].server = s THEN own[s] + n ELSE own[s]
    <2>1. CASE Moved(thread[t].server, n)
        BY <2>1, ServerMoved
    <2>2. CASE UNCHANGED own /\ n = 0
        BY <1>3, <2>2
    <2> QED
        BY <2>1, <2>2
<1> HIDE DEF Goto, Done
<1>5. CASE thread[t].server # s
    <2>1. Pending(t, s) = 0
        BY <1>1, <1>5, PendingKnown
    <2>2. Pending(t, s)' = 0
        <3>1. CASE p = "idle"
            BY <1>2, <3>1, PendingNext DEF Owed
        <3>2. CASE thread'[t].server = thread[t].server
            BY <1>2, <1>5, <3>2, PendingNext
        <3> QED
            BY <1>2, <3>1, <3>2
    <2> QED
        BY <1>3, <1>4, <1>5, <2>1, <2>2 DEF Balanced
<1>6. CASE thread[t].server = s
    <2>1. Pending(t, s) = Owed(thread[t].at, thread[t].cost)
        BY <1>1, <1>6, PendingKnown
    <2>2. Pending(t, s)' = Owed(p, thread[t].cost)
        <3>1. CASE p = "idle"
            BY <1>2, <3>1, PendingNext DEF Owed
        <3>2. CASE thread'[t].server = thread[t].server /\ thread'[t].cost = thread[t].cost
            BY <1>2, <1>6, <3>2, PendingNext
        <3> QED
            BY <1>2, <3>1, <3>2
    <2>3. own[s] - own'[s] = -n /\ load'[s] - load[s] = 0
        BY <1>3, <1>4, <1>6
    <2> HIDE DEF Pending
    <2> QED
        BY <2>1, <2>2, <2>3 DEF Balanced
<1> QED
    BY <1>5, <1>6

\* What is charged is yet to be added to the load, or comes back; and what is
\* refunded is yet to be taken off it, or is taken back.
LEMMA MovesLoad ==
    ASSUME Inv, Inv', LoadCoversAllocations, NEW t \in Threads,
           Charge(t) \/ EndCharge(t) \/ Refund(t) \/ EndRefund(t)
    PROVE  LoadCoversAllocations'
<1>1. /\ UNCHANGED load /\ thread[t].cost \in Int /\ -thread[t].cost \in Int
      /\ thread[t].server \in Servers
    BY LocalsKnown DEF Charge, EndCharge, Refund, EndRefund, ShapeOf, At, OnServer
<1>2. CASE Charge(t)
    BY <1>1, <1>2, MoveLoad DEF Charge, At, Owed
<1>3. CASE EndCharge(t)
    <2>1. CASE UNCHANGED own /\ Goto(t, "load")
        BY <1>1, <1>3, <2>1, MoveLoad DEF EndCharge, At, Owed
    <2>2. CASE Moved(thread[t].server, thread[t].cost) /\ Done(t)
        BY <1>1, <1>3, <2>2, MoveLoad DEF EndCharge, At, Owed
    <2> QED
        BY <1>3, <2>1, <2>2 DEF EndCharge
<1>4. CASE Refund(t)
    BY <1>1, <1>4, MoveLoad DEF Refund, At, Owed
<1>5. CASE EndRefund(t)
    <2>1. CASE UNCHANGED own /\ Goto(t, "unload")
        BY <1>1, <1>5, <2>1, MoveLoad DEF EndRefund, At, Owed
    <2>2. CASE Moved(thread[t].server, -thread[t].cost) /\ Done(t)
        BY <1>1, <1>5, <2>2, MoveLoad DEF EndRefund, At, Owed
    <2> QED
        BY <1>5, <2>1, <2>2 DEF EndRefund
<1> QED
    BY <1>2, <1>3, <1>4, <1>5

\* What is added to the load was charged before.
LEMMA AddLoadLoad ==
    ASSUME Inv, Inv', LoadCoversAllocations, NEW t \in Threads, AddLoad(t)
    PROVE  LoadCoversAllocations'
<1>1. At(t, "load") /\ own' = own /\ Goto(t, "status")
      /\ load' = [load EXCEPT ![thread[t].server] = @ + thread[t].cost]
    BY DEF AddLoad
<1>2. OthersStay(t) /\ thread'[t].at = "status" /\ thread'[t].cost = thread[t].cost
    BY <1>1, GotoMoves DEF Inv, TypeOK, ThreadType, Points
<1>3. thread[t].cost \in Nat /\ thread[t].at = "load"
    BY <1>1, LocalsKnown DEF ShapeOf, At
<1>4. load \in [Servers -> Nat]
    BY DEF Inv, TypeOK
<1> SUFFICES ASSUME NEW s \in Servers PROVE Balanced(t, s)
    BY <1>2, LoadStep
<1>5. /\ Pending(t, s)' = 0
      /\ Pending(t, s) = IF thread[t].server = s THEN thread[t].cost ELSE 0
    BY <1>2, <1>3, PendingKnown, PendingNext DEF Owed
<1>6. own[s] \in Int /\ load[s] \in Nat
    BY ServerNumbers
<1>7. load'[s] = IF thread[t].server = s THEN load[s] + thread[t].cost ELSE load[s]
    BY <1>1, <1>4
<1> HIDE DEF Pending
<1> QED
    BY <1>1, <1>3, <1>5, <1>6, <1>7 DEF Balanced

\* The load does not go below zero, which can only show more of it.
LEMMA UnloadLoad ==
    ASSUME Inv, Inv', LoadCoversAllocations, NEW t \in Threads, Unload(t)
    PROVE  LoadCoversAllocations'
<1>1. At(t, "unload") /\ own' = own /\ Done(t)
      /\ load' = [load EXCEPT ![thread[t].server] = IF @ < thread[t].cost THEN 0 ELSE @ - thread[t].cost]
    BY DEF Unload
<1>2. OthersStay(t) /\ thread'[t].at = "idle" /\ thread'[t].cost = 0
    BY <1>1, DoneMoves DEF Inv, TypeOK, ThreadType, Idle
<1>3. thread[t].cost \in Int /\ thread[t].at = "unload"
    BY <1>1, LocalsKnown DEF At
<1>4. load \in [Servers -> Nat]
    BY DEF Inv, TypeOK
<1> SUFFICES ASSUME NEW s \in Servers PROVE Balanced(t, s)
    BY <1>2, LoadStep
<1>5. /\ Pending(t, s)' = 0
      /\ Pending(t, s) = IF thread[t].server = s THEN -thread[t].cost ELSE 0
    BY <1>2, <1>3, PendingKnown, PendingNext DEF Owed
<1>6. own[s] \in Int /\ load[s] \in Nat
    BY ServerNumbers
<1>7. load'[s] = IF thread[t].server = s
                 THEN IF load[s] < thread[t].cost THEN 0 ELSE load[s] - thread[t].cost
                 ELSE load[s]
    BY <1>1, <1>4
<1> HIDE DEF Pending
<1>8. own[s] - own'[s] = 0 /\ load'[s] - load[s] + (0 - Pending(t, s)) >= 0
    BY <1>1, <1>3, <1>5, <1>6, <1>7
<1> QED
    BY <1>5, <1>8 DEF Balanced

\* The answer moves no amount.
LEMMA RespondLoad ==
    ASSUME Inv, Inv', LoadCoversAllocations, NEW t \in Threads, Respond(t)
    PROVE  LoadCoversAllocations'
<1>1. At(t, "status") /\ UNCHANGED <<own, load>> /\ Done(t)
    BY DEF Respond
<1>2. OthersStay(t) /\ thread'[t].at = "idle"
    BY <1>1, DoneMoves DEF Inv, TypeOK, ThreadType, Idle
<1> QED
    BY <1>1, <1>2, LoadCalm DEF At

\* A request that begins is at none of the points in between.
LEMMA BeginLoad ==
    ASSUME Inv, Inv', LoadCoversAllocations, NEW t \in Threads, At(t, "idle"), UNCHANGED <<own, load>>,
           \/ UNCHANGED thread
           \/ \E j \in Jobs, s \in Keys, c \in Amounts \cup {0}, p \in {"rlock", "wlock", "refund"} :
                  Begin(t, j, s, c, p)
    PROVE  LoadCoversAllocations'
<1>1. OthersStay(t) /\ thread'[t].at \in {"idle", "rlock", "wlock", "refund"}
    <2>1. CASE UNCHANGED thread
        BY <2>1 DEF OthersStay, At
    <2>2. ASSUME NEW j \in Jobs, NEW s \in Keys, NEW c \in Amounts \cup {0},
                 NEW p \in {"rlock", "wlock", "refund"}, Begin(t, j, s, c, p)
          PROVE  OthersStay(t) /\ thread'[t].at \in {"idle", "rlock", "wlock", "refund"}
        <3>1. p \in Points
            BY DEF Points
        <3>2. OthersStay(t) /\ thread'[t].at = p
            BY <2>2, <3>1, BeginMoves DEF Inv, TypeOK, ThreadType
        <3> QED
            BY <3>2
    <2> QED
        BY <2>1, <2>2
<1> QED
    BY <1>1, LoadCalm DEF At

\* A request begins at the lock it takes or at its refund.
LEMMA NewRequestBegins ==
    ASSUME NEW t \in Handlers, Requests(t)
    PROVE  /\ NewRequest(t)
           /\ \E j \in Jobs \ {"return"}, s \in Keys, c \in Amounts \cup {0}, p \in {"rlock", "wlock", "refund"} :
                  Begin(t, j, s, c, p) /\ (j = "embed" => p = "rlock")
<1>1. /\ Servers \subseteq Keys /\ Global \in Keys
      /\ Costs \subseteq Amounts /\ Releases \subseteq Amounts
      /\ {"embed", "global", "list", "release"} \subseteq Jobs \ {"return"}
    BY DEF Keys, Jobs, Amounts
<1> QED
    BY <1>1 DEF Requests, BeginEmbed, BeginGlobal, BeginList, BeginRelease

\* The end of a duration begins a release or a return, if anything.
LEMMA ExpireBegins ==
    ASSUME NEW t \in Handlers, NEW k \in Keys, NEW c \in Costs, Expire(t, k, c)
    PROVE  /\ c \in Amounts
           /\ \/ UNCHANGED thread
              \/ \E j \in {"return", "release"}, s \in Keys, p \in {"wlock", "refund"} : Begin(t, j, s, c, p)
<1>1. Global \in Keys /\ c \in Amounts
    BY DEF Keys, Amounts
<1> QED
    BY <1>1 DEF Expire

\* The scan moves no counter.
LEMMA ScanningMoves ==
    ASSUME Inv, NEW t \in Threads, Scanning(t)
    PROVE  /\ UNCHANGED <<own, peer, load, leases, bypassed>> /\ OthersStay(t)
           /\ thread[t].at \in {"rlock", "scan"} /\ thread'[t].at \in {"idle", "scan", "charge"}
<1>1. UNCHANGED <<own, peer, load, leases, bypassed>> /\ thread[t].at \in {"rlock", "scan"}
    BY DEF Scanning, LockForScan, Peek, EndScan, At
<1>2. thread \in [Threads -> Locals]
    BY DEF Inv, TypeOK
<1>3. CASE LockForScan(t)
    <2>1. thread' = [thread EXCEPT ![t] = [@ EXCEPT !.at = "scan", !.left = Servers]]
        BY <1>3 DEF LockForScan
    <2>2. thread'[t].at = "scan" /\ OthersStay(t)
        BY <1>2, <2>1 DEF OthersStay, Locals
    <2> QED
        BY <1>1, <2>2
<1>4. ASSUME NEW s \in Servers, Peek(t, s) PROVE OthersStay(t) /\ thread'[t].at = "scan"
    <2>1. thread' = [thread EXCEPT ![t] = Looked(t, s)] /\ thread[t].at = "scan"
        BY <1>4 DEF Peek, At
    <2>2. Looked(t, s).at = thread[t].at
        BY <1>2 DEF Looked, Locals
    <2> QED
        BY <1>2, <2>1, <2>2 DEF OthersStay
<1>5. CASE EndScan(t)
    <2>1. Goto(t, "charge") \/ Done(t)
        BY <1>5 DEF EndScan
    <2>2. ThreadType /\ "charge" \in Points
        BY <1>2 DEF ThreadType, Points
    <2>3. OthersStay(t) /\ thread'[t].at \in {"idle", "charge"}
        <3>1. CASE Goto(t, "charge")
            BY <2>2, <3>1, GotoMoves
        <3>2. CASE Done(t)
            BY <2>2, <3>2, DoneMoves DEF Idle
        <3> QED
            BY <2>1, <3>1, <3>2
    <2> QED
        BY <1>1, <2>3
<1> QED
    BY <1>1, <1>3, <1>4, <1>5 DEF Scanning

\* Under the write lock no counter of a server moves.
LEMMA WritingMoves ==
    ASSUME Inv, NEW t \in Threads, Writing(t) \/ (t = Background /\ EndSync)
    PROVE  /\ UNCHANGED <<peer, load, bypassed>> /\ OthersStay(t)
           /\ \A s \in Servers : own'[s] = own[s]
           /\ thread[t].at \in {"wlock", "drain", "check", "take", "taken", "given"}
           /\ thread'[t].at \in {"idle", "drain", "check", "take", "taken", "given"}
           /\ thread'[t].job = thread[t].job \/ thread'[t].job = "none"
<1>1. /\ UNCHANGED <<peer, load, bypassed>>
      /\ thread[t].at \in {"wlock", "drain", "check", "take", "taken", "given"}
    BY DEF Writing, AskToWrite, StartToWrite, CheckPool, Take, EndTake, GiveBack, EndGiveBack, EndSync, At
<1>2. \/ Goto(t, "drain") \/ Goto(t, "check") \/ Goto(t, "take")
      \/ Goto(t, "taken") \/ Goto(t, "given") \/ Done(t)
    BY DEF Writing, AskToWrite, StartToWrite, CheckPool, Take, EndTake, GiveBack, EndGiveBack, EndSync
<1>3. ThreadType /\ {"drain", "check", "take", "taken", "given"} \subseteq Points
    BY DEF Inv, TypeOK, ThreadType, Points
<1>4. /\ OthersStay(t) /\ thread'[t].at \in {"idle", "drain", "check", "take", "taken", "given"}
      /\ thread'[t].job = thread[t].job \/ thread'[t].job = "none"
    <2>1. ASSUME NEW p \in {"drain", "check", "take", "taken", "given"}, Goto(t, p)
          PROVE  OthersStay(t) /\ thread'[t].at = p /\ thread'[t].job = thread[t].job
        BY <1>3, <2>1, GotoMoves
    <2>2. ASSUME Done(t) PROVE OthersStay(t) /\ thread'[t].at = "idle" /\ thread'[t].job = "none"
        BY <1>3, <2>2, DoneMoves DEF Idle
    <2> QED
        BY <1>2, <2>1, <2>2
<1>5. /\ thread[t].cost \in Int /\ -thread[t].cost \in Int /\ Global \in Keys
      /\ Servers \subseteq Keys \ {Global} /\ own \in [Keys -> Int]
    BY LocalsKnown, ServersAssumption DEF Keys, Inv, TypeOK
<1>6. ASSUME NEW n \in Int, Moved(Global, n) PROVE \A s \in Servers : own'[s] = own[s]
    BY <1>5, <1>6, OwnMoved
<1>7. \A s \in Servers : own'[s] = own[s]
    <2>1. CASE UNCHANGED own
        BY <2>1
    <2> QED
        BY <1>5, <1>6, <2>1
        DEF Writing, AskToWrite, StartToWrite, CheckPool, Take, EndTake, GiveBack, EndGiveBack, EndSync
<1> QED
    BY <1>1, <1>4, <1>7

\* The background task moves no counter of a server either.
LEMMA BackgroundMoves ==
    ASSUME Inv, BeginSync \/ StopBackground
    PROVE  /\ UNCHANGED <<own, peer, load, bypassed>> /\ OthersStay(Background) /\ Background \in Threads
           /\ thread[Background].at = "idle" /\ thread'[Background].at \in {"wlock", "stopped"}
<1>1. Background \in Threads /\ Global \in Keys
    BY ThreadsAssumption DEF Keys
<1>2. Begin(Background, "sync", Global, 0, "wlock") \/ Goto(Background, "stopped")
    BY DEF BeginSync, StopBackground
<1>3. "sync" \in Jobs /\ "wlock" \in Points /\ "stopped" \in Points /\ ThreadType
    BY DEF Jobs, Points, Inv, TypeOK, ThreadType
<1>4. OthersStay(Background) /\ thread'[Background].at \in {"wlock", "stopped"}
    BY <1>1, <1>2, <1>3, BeginMoves, GotoMoves
<1> QED
    BY <1>1, <1>4 DEF BeginSync, StopBackground, At

\* Every step keeps the load above what was taken.
LEMMA StepLoad ==
    ASSUME Inv, Inv', LoadCoversAllocations, [Next]_vars
    PROVE  LoadCoversAllocations'
<1>1. CASE UNCHANGED <<own, load, thread>>
    BY <1>1 DEF LoadCoversAllocations, WorkingAt, At
<1>2. CASE Stop \/ UpdateAllLinks \/ UNCHANGED vars
           \/ \E k \in Keys, amount \in PeerAmounts : RemoteUpdate(k, amount)
    BY <1>1, <1>2 DEF Stop, UpdateAllLinks, RemoteUpdate, vars
<1>3. ASSUME NEW t \in Handlers, Requests(t) PROVE LoadCoversAllocations'
    BY <1>3, NewRequestBegins, BeginLoad, ThreadsAssumption DEF NewRequest
<1>4. ASSUME NEW t \in Handlers, NEW k \in Keys, NEW c \in Costs, Expire(t, k, c)
      PROVE  LoadCoversAllocations'
    <2>1. {"return", "release"} \subseteq Jobs /\ t \in Threads
        BY ThreadsAssumption DEF Jobs
    <2>2. At(t, "idle") /\ UNCHANGED <<own, load>>
        BY <1>4 DEF Expire
    <2> QED
        BY <1>4, <2>1, <2>2, ExpireBegins, BeginLoad
<1>5. ASSUME NEW t \in Threads, Scanning(t) PROVE LoadCoversAllocations'
    BY <1>5, ScanningMoves, LoadCalm
<1>6. ASSUME NEW t \in Threads, Serving(t) PROVE LoadCoversAllocations'
    BY <1>6, MovesLoad, AddLoadLoad, RespondLoad, UnloadLoad DEF Serving
<1>7. ASSUME NEW t \in Threads, Writing(t) \/ (t = Background /\ EndSync) PROVE LoadCoversAllocations'
    BY <1>7, WritingMoves, LoadCalm
<1>8. CASE BeginSync \/ StopBackground
    BY <1>8, BackgroundMoves, LoadCalm
<1>9. Background \in Threads
    BY ThreadsAssumption
<1> QED
    BY <1>2, <1>3, <1>4, <1>5, <1>6, <1>7, <1>8, <1>9 DEF Next

\* At first nothing is taken and nothing is between two points.
LEMMA InitLoad == Init => LoadCoversAllocations
<1> SUFFICES ASSUME Init, NEW s \in Servers
             PROVE  Capacity - own[s] <= load[s] + WorkingAt("charged", s) + WorkingAt("load", s)
                                         - WorkingAt("refunded", s) - WorkingAt("unload", s)
    BY DEF LoadCoversAllocations
<1>1. ASSUME NEW point \in {"charged", "load", "refunded", "unload"} PROVE WorkingAt(point, s) = 0
    <2> DEFINE parts == [t \in Threads |-> Part(point, s, t)]
    <2>1. parts \in [Threads -> Int] /\ \A t \in Threads : parts[t] = 0
        BY DEF Init, Idle, Part, At
    <2>2. WorkingAt(point, s) = SumFunction(parts)
        BY DEF WorkingAt, Part
    <2> HIDE DEF parts
    <2> QED
        BY <2>1, <2>2, ThreadsFinite, SumZeros
<1>2. own[s] = Capacity /\ load[s] = 0 /\ Capacity \in Nat
    BY ServersAssumption, AmountsAssumption DEF Init, Keys
<1>3. /\ WorkingAt("charged", s) = 0 /\ WorkingAt("load", s) = 0
      /\ WorkingAt("refunded", s) = 0 /\ WorkingAt("unload", s) = 0
    BY <1>1
<1> QED
    BY <1>2, <1>3

\* What the node has taken from a server shows as load there, up to requests
\* that are between the two.
THEOREM LoadAlwaysCovers == SafeSpec => []LoadCoversAllocations
<1> DEFINE Both == Inv /\ LoadCoversAllocations
<1>1. Init => Both
    BY InitInv, InitLoad
<1>2. Both /\ [Next]_vars => Both'
    BY StepInv, StepLoad
<1>3. Both => LoadCoversAllocations
    OBVIOUS
<1> HIDE DEF Both
<1> QED
    BY <1>1, <1>2, <1>3, PTL DEF SafeSpec

-----------------------------------------------------------------------------
(* How far concurrent allocations can overshoot one server.                *)

\* What is held for s, with what releases of negative amounts took from it.
Held(s) == own[s] + peer[s].incr
Stock(s) == Held(s) + bypassed[s]

\* t has seen enough on s, and s is the server it will charge.
Armed(t, s) ==
    /\ thread[t].job = "embed" /\ thread[t].at \in {"scan", "charge"}
    /\ thread[t].server = s /\ thread[t].avail >= thread[t].cost

\* What t is yet to take from s, or may take back.
Loan(t, s) ==
    IF Armed(t, s) \/ (thread[t].at = "refunded" /\ thread[t].server = s) THEN thread[t].cost ELSE 0
Loans(s) == SumFunction([t \in Handlers |-> Loan(t, s)])

\* Only handlers allocate and release, and allocate only after the comparison.
Checked ==
    \A t \in Threads :
        /\ thread[t].job = "embed" => t \in Handlers
        /\ thread[t].at \in {"refund", "refunded"} => t \in Handlers
        /\ thread[t].at = "charge" => thread[t].avail >= thread[t].cost

\* The last one that saw enough on s saw what it needed; each of the others may
\* at worst take the largest amount.
Slack == (Cardinality(Handlers) - 1) * LargestAmount
Reserve(s) == Stock(s) - Loans(s) + Slack >= 0

\* There is a largest amount.
LEMMA LargestAmountKnown ==
    LargestAmount \in Nat /\ \A c \in Amounts : c <= LargestAmount
<1> DEFINE positive == [c \in Amounts |-> IF c < 0 THEN 0 ELSE c]
           bound == SumFunction(positive)
           gaps == {bound - c : c \in Amounts}
<1>1. IsFiniteSet(Amounts) /\ Amounts # {} /\ Amounts \subseteq Int
    <2>1. IsFiniteSet(Costs) /\ IsFiniteSet(Releases) /\ Costs # {} /\ Costs \subseteq Int /\ Releases \subseteq Int
        BY AmountsAssumption
    <2> QED
        BY <2>1, FS_Union DEF Amounts
<1>2. positive \in [Amounts -> Nat]
    BY <1>1
<1>3. bound \in Nat /\ \A c \in Amounts : c <= bound
    <2> HIDE DEF positive
    <2>1. bound \in Nat /\ \A c \in Amounts : positive[c] <= bound
        BY <1>1, <1>2, SumNat
    <2>2. \A c \in Amounts : c <= positive[c] /\ positive[c] \in Nat
        BY <1>1 DEF positive
    <2> HIDE DEF bound
    <2> QED
        BY <1>1, <2>1, <2>2
<1> HIDE DEF bound
<1>4. gaps \subseteq Nat /\ gaps # {}
    <2>1. \A c \in Amounts : bound - c \in Nat
        BY <1>1, <1>3
    <2> QED
        BY <1>1, <2>1
<1>5. PICK g \in gaps : \A h \in gaps : ~(<<h, g>> \in OpToRel(<, Nat))
    <2> HIDE DEF gaps
    <2> QED
        BY <1>4, NatLessThanWellFounded, WFMin
<1>6. PICK c \in Amounts : g = bound - c
    OBVIOUS
<1>7. \A d \in Amounts : d <= c
    <2>1. ASSUME NEW d \in Amounts, c < d PROVE FALSE
        <3>1. bound - d \in gaps /\ bound - d < g /\ bound - d \in Nat /\ g \in Nat
            BY <1>1, <1>3, <1>4, <1>6, <2>1
        <3> HIDE DEF gaps
        <3>2. <<bound - d, g>> \in OpToRel(<, Nat)
            BY <3>1 DEF OpToRel
        <3> QED
            BY <1>5, <3>1, <3>2
    <2> QED
        BY <1>1, <2>1
<1>8. LargestAmount \in Amounts /\ \A d \in Amounts : d <= LargestAmount
    BY <1>7 DEF LargestAmount
\* The largest is no less than a cost, and costs are positive.
<1>9. PICK d \in Costs : d \in Nat /\ d \in Amounts
    BY AmountsKnown, AmountsAssumption
<1>10. LargestAmount \in Int /\ d <= LargestAmount
    BY <1>1, <1>8, <1>9
<1> QED
    BY <1>8, <1>9, <1>10

\* The slack is an amount.
LEMMA SlackKnown == Slack \in Nat /\ IsFiniteSet(Handlers)
<1>1. IsFiniteSet(Handlers) /\ Cardinality(Handlers) \in Nat /\ Cardinality(Handlers) # 0
    BY ThreadsAssumption, FS_CardinalityType, FS_EmptySet
<1> DEFINE n == Cardinality(Handlers) - 1
<1>2. n \in Nat /\ LargestAmount \in Nat
    BY <1>1, LargestAmountKnown
<1>3. n * LargestAmount \in Nat
    <2> HIDE DEF n
    <2> QED
        BY <1>2
<1> QED
    BY <1>1, <1>3 DEF Slack

\* No loan is more than the largest amount, and an allocation's is positive.
LEMMA LoanKnown ==
    ASSUME Inv, NEW t \in Threads, NEW s
    PROVE  /\ Loan(t, s) \in Int /\ Loan(t, s) <= LargestAmount
           /\ Armed(t, s) => Loan(t, s) > 0
<1>1. thread[t].cost \in Int /\ thread[t].cost <= LargestAmount /\ LargestAmount \in Nat
    BY LocalsKnown, LargestAmountKnown
<1>2. ASSUME Armed(t, s) PROVE thread[t].cost > 0
    <2>1. thread[t].cost \in Costs
        BY <1>2, LocalsKnown DEF Armed, ShapeOf, Paying
    <2>2. \A c \in Nat \ {0} : c > 0
        OBVIOUS
    <2>3. Costs \subseteq Nat \ {0}
        BY AmountsAssumption
    <2> QED
        BY <2>1, <2>2, <2>3
<1> QED
    BY <1>1, <1>2 DEF Loan

\* The loans change with the goroutine that moves.
LEMMA LoansMove ==
    ASSUME Inv, Inv', NEW t \in Threads, OthersStay(t), NEW s,
           t \notin Handlers => Loan(t, s) = 0 /\ Loan(t, s)' = 0
    PROVE  /\ Loans(s)' = Loans(s) - Loan(t, s) + Loan(t, s)'
           /\ Loans(s) \in Int /\ Loan(t, s) \in Int /\ Loan(t, s)' \in Int
<1> DEFINE before == [u \in Handlers |-> Loan(u, s)]
           after == [u \in Handlers |-> Loan(u, s)']
<1>0. ThreadType /\ ThreadType' /\ Handlers \subseteq Threads /\ IsFiniteSet(Handlers)
    BY ThreadsAssumption DEF Inv, TypeOK, ThreadType
<1>1. \A u \in Threads : Loan(u, s) \in Int /\ Loan(u, s)' \in Int
    BY <1>0, CostsInt, CostsIntNext DEF Loan
<1>2. before \in [Handlers -> Int] /\ after \in [Handlers -> Int]
    BY <1>0, <1>1
<1>3. \A u \in Handlers : u # t => after[u] = before[u]
    BY <1>0 DEF OthersStay, Loan, Armed
<1>4. Loans(s) = SumFunction(before) /\ Loans(s)' = SumFunction(after)
    BY DEF Loans
<1>5. t \in Handlers => before[t] = Loan(t, s) /\ after[t] = Loan(t, s)'
    OBVIOUS
<1>6. t \notin Handlers => after = before
    BY <1>3
<1> HIDE DEF before, after
<1>7. SumFunction(before) \in Int
    BY <1>0, <1>2, SumType
<1>8. CASE t \in Handlers
    <2>1. SumFunction(after) = SumFunction(before) - before[t] + after[t]
        BY <1>0, <1>2, <1>3, <1>8, SumChange
    <2> QED
        BY <1>1, <1>4, <1>5, <1>7, <1>8, <2>1
<1>9. CASE t \notin Handlers
    <2>1. Loan(t, s) = 0 /\ Loan(t, s)' = 0
        BY <1>9
    <2> QED
        BY <1>4, <1>6, <1>7, <1>9, <2>1
<1> QED
    BY <1>8, <1>9

\* One loan, and at most the largest amount for every other handler.
LEMMA LoansBound ==
    ASSUME Inv', NEW t \in Handlers, NEW s
    PROVE  Loans(s)' <= Loan(t, s)' + Slack /\ Loans(s)' \in Int /\ Loan(t, s)' \in Int
<1> DEFINE loans == [u \in Handlers |-> Loan(u, s)']
<1>1. IsFiniteSet(Handlers) /\ Handlers \subseteq Threads /\ LargestAmount \in Nat
    BY ThreadsAssumption, LargestAmountKnown
<1>2. ASSUME NEW u \in Handlers PROVE loans[u] \in Int /\ loans[u] <= LargestAmount
    <2>1. thread'[u] \in Locals
        BY <1>1 DEF Inv, TypeOK
    <2>2. thread'[u].cost \in Amounts \cup {0}
        BY <2>1 DEF Locals
    <2>3. thread'[u].cost \in Int /\ thread'[u].cost <= LargestAmount
        BY <1>1, <2>2, AmountsKnown, LargestAmountKnown
    <2> QED
        BY <1>1, <2>3 DEF Loan
<1>3. loans \in [Handlers -> Int] /\ loans[t] = Loan(t, s)'
    BY <1>2
<1>4. Loans(s)' = SumFunction(loans)
    BY DEF Loans
<1> HIDE DEF loans
<1>5. SumFunction(loans) <= loans[t] + (Cardinality(Handlers) - 1) * LargestAmount
    BY <1>1, <1>2, <1>3, SumBound
<1>6. SumFunction(loans) \in Int
    BY <1>1, <1>3, SumType
<1> QED
    BY <1>2, <1>3, <1>4, <1>5, <1>6 DEF Slack

\* The reserve is what the bound needs.
LEMMA ReserveBounds ==
    ASSUME Inv, \A s \in Servers : Reserve(s)
    PROVE  ServerOvershootBound
<1> SUFFICES ASSUME NEW s \in Servers PROVE Stock(s) + Bypassing(s) + Slack >= 0
    <2>1. ASSUME NEW s \in Servers
          PROVE  own[s] + peer[s].incr + bypassed[s] + Bypassing(s) + (Cardinality(Handlers) - 1) * LargestAmount
                     = Stock(s) + Bypassing(s) + Slack
        BY DEF Stock, Held, Slack
    <2> QED
        BY <2>1 DEF ServerOvershootBound
<1> DEFINE under == [t \in Handlers |->
                        IF At(t, "refunded") /\ thread[t].server = s THEN Unasked(t) ELSE 0]
           given == [t \in Handlers |-> -Loan(t, s)]
           loans == [t \in Handlers |-> Loan(t, s)]
           none == [t \in Handlers |-> 0]
<1>1. IsFiniteSet(Handlers) /\ Handlers \subseteq Threads
    BY ThreadsAssumption
<1>2. ASSUME NEW t \in Handlers
      PROVE  loans[t] \in Int /\ under[t] \in Int /\ -loans[t] <= under[t]
    <2>1. Loan(t, s) \in Int /\ (Armed(t, s) => Loan(t, s) > 0) /\ thread[t].cost \in Int
        BY <1>1, LoanKnown, LocalsKnown
    <2> QED
        BY <2>1 DEF Loan, Unasked, At, Armed
<1>3. loans \in [Handlers -> Int] /\ under \in [Handlers -> Int]
    BY <1>2
<1>4. Loans(s) = SumFunction(loans) /\ Bypassing(s) = SumFunction(under)
    BY DEF Loans, Bypassing
<1> HIDE DEF loans, under
<1>5. SumFunction(loans) \in Int /\ SumFunction(under) \in Int
      /\ SumFunction(loans) + SumFunction(under) >= 0
    BY <1>1, <1>2, <1>3, SumsCover, SumType
<1>6. Stock(s) \in Int
    BY ServerNumbers DEF Stock, Held
<1>7. Stock(s) - Loans(s) + Slack >= 0 /\ Slack \in Nat
    BY SlackKnown DEF Reserve
<1> HIDE DEF Slack
<1> QED
    BY <1>4, <1>5, <1>6, <1>7

\* What a step of t may do to the reserve of s: arm t with what is there, or
\* leave no less in stock, loans apart.
Covers(t, s) ==
    \/ t \in Handlers /\ Armed(t, s)' /\ Held(s)' >= thread'[t].cost
    \/ /\ t \notin Handlers => Loan(t, s) = 0 /\ Loan(t, s)' = 0
       /\ Stock(s)' - Loan(t, s)' >= Stock(s) - Loan(t, s)

\* A step that covers what it takes keeps the reserve.
LEMMA ReserveStep ==
    ASSUME Inv, Inv', NEW t \in Threads, OthersStay(t), NEW s \in Servers, Covers(t, s), Reserve(s)
    PROVE  Reserve(s)'
<1>1. Stock(s) \in Int /\ Held(s)' \in Int /\ Stock(s)' \in Int /\ Stock(s)' >= Held(s)' /\ Slack \in Nat
    BY ServerNumbers, ServerNumbersNext, SlackKnown DEF Stock, Held
<1>2. Reserve(s)' <=> Stock(s)' - Loans(s)' + Slack >= 0
    BY DEF Reserve, Slack, LargestAmount
<1>3. Stock(s) - Loans(s) + Slack >= 0
    BY DEF Reserve
<1>4. CASE t \in Handlers /\ Armed(t, s)' /\ Held(s)' >= thread'[t].cost
    <2>1. Loan(t, s)' = thread'[t].cost
        BY <1>4 DEF Loan
    <2>2. Loans(s)' <= Loan(t, s)' + Slack /\ Loans(s)' \in Int /\ Loan(t, s)' \in Int
        BY <1>4, LoansBound
    <2>3. Held(s)' >= Loan(t, s)'
        BY <1>4, <2>1
    <2> HIDE DEF Slack, Stock, Held, Loan, Loans
    <2> QED
        BY <1>1, <1>2, <2>2, <2>3
<1>5. CASE /\ t \notin Handlers => Loan(t, s) = 0 /\ Loan(t, s)' = 0
           /\ Stock(s)' - Loan(t, s)' >= Stock(s) - Loan(t, s)
    <2>1. /\ Loans(s)' = Loans(s) - Loan(t, s) + Loan(t, s)'
          /\ Loans(s) \in Int /\ Loan(t, s) \in Int /\ Loan(t, s)' \in Int
        BY <1>5, LoansMove
    <2> HIDE DEF Slack, Stock, Held, Loan, Loans
    <2> QED
        BY <1>1, <1>2, <1>3, <1>5, <2>1
<1> QED
    BY <1>4, <1>5 DEF Covers

\* What is known of t after the step keeps Checked.
LEMMA CheckedKept ==
    ASSUME Checked, NEW t \in Threads, OthersStay(t),
           thread'[t].job = "embed" => t \in Handlers,
           thread'[t].at \in {"refund", "refunded"} => t \in Handlers,
           thread'[t].at = "charge" => thread'[t].avail >= thread'[t].cost
    PROVE  Checked'
BY DEF Checked, OthersStay

\* A step of a goroutine that has no loan, before or after it.
LEMMA CalmReserve ==
    ASSUME Inv, Inv', Checked, NEW t \in Threads, OthersStay(t),
           thread[t].at \notin {"scan", "charge", "refunded"},
           thread'[t].at \notin {"scan", "charge", "refunded"},
           thread'[t].job = "embed" => t \in Handlers,
           thread'[t].at = "refund" => t \in Handlers,
           \A s \in Servers : Stock(s)' >= Stock(s)
    PROVE  Checked' /\ \A s \in Servers : Covers(t, s)
<1>1. Checked'
    BY CheckedKept
<1>2. ASSUME NEW s \in Servers PROVE Loan(t, s) = 0 /\ Loan(t, s)' = 0
    BY DEF Loan, Armed
<1>3. ASSUME NEW s \in Servers PROVE Stock(s) \in Int /\ Stock(s)' \in Int
    BY ServerNumbers, ServerNumbersNext DEF Stock, Held
<1> QED
    BY <1>1, <1>2, <1>3 DEF Covers

\* The counters of the servers where they are.
LEMMA StockStays ==
    ASSUME Inv, UNCHANGED <<peer, bypassed>>, NEW s \in Servers, own'[s] = own[s]
    PROVE  /\ Stock(s)' = Stock(s) /\ Stock(s)' >= Stock(s) /\ Stock(s) \in Int
           /\ Held(s)' = Held(s) /\ Held(s) \in Int
BY ServerNumbers DEF Stock, Held

\* A request that begins is not armed.
LEMMA BeginReserve ==
    ASSUME Inv, Inv', Checked, NEW t \in Handlers, At(t, "idle"), UNCHANGED <<own, peer, bypassed>>,
           \/ UNCHANGED thread
           \/ \E j \in Jobs, s \in Keys, c \in Amounts \cup {0}, p \in {"rlock", "wlock", "refund"} :
                  Begin(t, j, s, c, p)
    PROVE  OthersStay(t) /\ Checked' /\ \A s \in Servers : Covers(t, s)
<1>1. t \in Threads
    BY ThreadsAssumption
<1>2. OthersStay(t) /\ thread'[t].at \in {"idle", "rlock", "wlock", "refund"}
    <2>1. CASE UNCHANGED thread
        BY <2>1 DEF OthersStay, At
    <2>2. ASSUME NEW j \in Jobs, NEW s \in Keys, NEW c \in Amounts \cup {0},
                 NEW p \in {"rlock", "wlock", "refund"}, Begin(t, j, s, c, p)
          PROVE  OthersStay(t) /\ thread'[t].at \in {"idle", "rlock", "wlock", "refund"}
        <3>1. p \in Points
            BY DEF Points
        <3>2. OthersStay(t) /\ thread'[t].at = p
            BY <1>1, <2>2, <3>1, BeginMoves DEF Inv, TypeOK, ThreadType
        <3> QED
            BY <3>2
    <2> QED
        BY <2>1, <2>2
<1>3. \A s \in Servers : Stock(s)' >= Stock(s)
    BY StockStays
<1> QED
    BY <1>1, <1>2, <1>3, CalmReserve DEF At

\* Nor is one that has only taken the read lock.
LEMMA LockForScanReserve ==
    ASSUME Inv, Inv', Checked, NEW t \in Threads, LockForScan(t)
    PROVE  Checked' /\ \A s \in Servers : Covers(t, s)
<1>1. /\ thread' = [thread EXCEPT ![t] = [@ EXCEPT !.at = "scan", !.left = Servers]]
      /\ UNCHANGED <<own, peer, bypassed>> /\ thread[t].at = "rlock" /\ thread \in [Threads -> Locals]
    BY DEF LockForScan, At, Inv, TypeOK
<1>2. /\ thread'[t].at = "scan" /\ thread'[t].job = thread[t].job /\ thread'[t].avail = thread[t].avail
      /\ thread'[t].cost = thread[t].cost
    BY <1>1 DEF Locals
<1>3. OthersStay(t)
    BY <1>1 DEF OthersStay
<1>4. thread[t].avail = -1 /\ (thread[t].job = "embed" => thread[t].cost \in Nat)
    BY <1>1, LocalsKnown DEF ShapeOf
<1>5. \A s \in Servers : Loan(t, s) = 0 /\ Loan(t, s)' = 0
    BY <1>1, <1>2, <1>4 DEF Armed, Loan
<1>6. \A s \in Servers : Stock(s)' = Stock(s) /\ Stock(s) \in Int
    BY <1>1, StockStays
<1>7. Checked'
    BY <1>2, <1>3, CheckedKept DEF Checked
<1> QED
    BY <1>5, <1>6, <1>7 DEF Covers

\* What the scan remembers as available is there.
LEMMA PeekReserve ==
    ASSUME Inv, Inv', Checked, NEW t \in Threads, NEW r \in Servers, Peek(t, r)
    PROVE  Checked' /\ \A s \in Servers : Covers(t, s)
<1> DEFINE new == Looked(t, r)
<1>1. /\ thread' = [thread EXCEPT ![t] = new]
      /\ UNCHANGED <<own, peer, bypassed>> /\ thread[t].at = "scan" /\ thread \in [Threads -> Locals]
    BY DEF Peek, At, Inv, TypeOK
<1>2. /\ new.at = thread[t].at /\ new.job = thread[t].job /\ new.cost = thread[t].cost
      /\ \/ new.server = r /\ new.avail = Available(r) /\ new.avail > thread[t].avail
         \/ new.server = thread[t].server /\ new.avail = thread[t].avail
    BY <1>1 DEF Looked, Locals
<1> HIDE DEF new
<1>3. thread'[t] = new /\ OthersStay(t)
    BY <1>1 DEF OthersStay
<1>4. Checked'
    BY <1>1, <1>2, <1>3, CheckedKept DEF Checked
<1> SUFFICES ASSUME NEW s \in Servers PROVE Covers(t, s)
    BY <1>4
<1>5. Stock(s)' = Stock(s) /\ Stock(s) \in Int /\ Held(s)' = Held(s) /\ Held(s) \in Int
    BY <1>1, StockStays
<1>6. /\ thread[t].cost \in Int
      /\ Armed(t, s) => thread[t].cost > 0
      /\ thread[t].job = "embed" => t \in Handlers /\ thread[t].cost \in Nat
    <2>1. Armed(t, s) => thread[t].cost > 0
        BY LoanKnown DEF Loan
    <2> QED
        BY <2>1, LocalsKnown DEF Checked, ShapeOf
<1>7. t \notin Handlers => ~Armed(t, s) /\ ~Armed(t, s)'
    BY <1>2, <1>3, <1>6 DEF Armed
<1>8. Loan(t, s) = (IF Armed(t, s) THEN thread[t].cost ELSE 0)
      /\ Loan(t, s)' = (IF Armed(t, s)' THEN thread[t].cost ELSE 0)
    BY <1>1, <1>2, <1>3 DEF Loan
<1>9. CASE ~Armed(t, s)'
    <2>1. Loan(t, s)' = 0 /\ Loan(t, s) \in Int /\ Loan(t, s) >= 0
        BY <1>6, <1>8, <1>9
    <2>2. t \notin Handlers => Loan(t, s) = 0
        BY <1>7, <1>8
    <2> QED
        BY <1>5, <2>1, <2>2 DEF Covers
<1>10. CASE Armed(t, s)'
    <2>1. new.job = "embed" /\ new.server = s /\ new.avail >= new.cost /\ t \in Handlers
        BY <1>3, <1>7, <1>10 DEF Armed
    <2>2. CASE new.server = r /\ new.avail = Available(r)
        <3>1. Available(s) >= thread[t].cost /\ thread[t].cost > 0
            <4>1. Available(s) >= thread[t].cost
                BY <1>2, <2>1, <2>2
            <4>2. thread[t].cost \in Costs
                BY <1>2, <2>1, LocalsKnown DEF ShapeOf, Paying
            <4>3. \A c \in Costs : c > 0
                <5>1. Costs \subseteq Nat \ {0}
                    BY AmountsAssumption
                <5> QED
                    BY <5>1
            <4> QED
                BY <4>1, <4>2, <4>3
        <3>2. Held(s) >= thread[t].cost
            BY <1>6, <3>1, ServerNumbers DEF Available, Get, Held
        <3> QED
            BY <1>2, <1>3, <1>5, <1>10, <2>1, <3>2 DEF Covers
    <2>3. CASE new.server = thread[t].server /\ new.avail = thread[t].avail
        <3>1. Armed(t, s)
            BY <1>1, <1>2, <2>1, <2>3 DEF Armed
        <3>2. Loan(t, s)' = Loan(t, s) /\ Loan(t, s) \in Int
            BY <1>6, <1>8, <1>10, <3>1
        <3> QED
            BY <1>5, <2>1, <3>2 DEF Covers
    <2> QED
        BY <1>2, <2>2, <2>3
<1> QED
    BY <1>9, <1>10

\* Who leaves the scan has compared what it saw with the cost, or gives up.
LEMMA EndScanReserve ==
    ASSUME Inv, Inv', Checked, NEW t \in Threads, EndScan(t)
    PROVE  Checked' /\ \A s \in Servers : Covers(t, s)
<1>1. UNCHANGED <<own, peer, bypassed>> /\ thread[t].at = "scan" /\ ThreadType
    BY DEF EndScan, At, Inv, TypeOK, ThreadType
<1>2. \A s \in Servers : Stock(s)' = Stock(s) /\ Stock(s) \in Int
    BY <1>1, StockStays
<1>3. \A s \in Servers : /\ Loan(t, s) \in Int /\ Loan(t, s) >= 0
                         /\ t \notin Handlers => Loan(t, s) = 0
    <2>1. ASSUME NEW s \in Servers, Armed(t, s)
          PROVE  Loan(t, s) \in Int /\ Loan(t, s) >= 0 /\ t \in Handlers
        BY <2>1, LoanKnown DEF Armed, Checked
    <2>2. ASSUME NEW s \in Servers, ~Armed(t, s) PROVE Loan(t, s) = 0
        BY <1>1, <2>2 DEF Loan
    <2> QED
        BY <2>1, <2>2
<1>4. CASE Goto(t, "charge") /\ thread[t].avail >= thread[t].cost
    <2>1. /\ OthersStay(t) /\ thread'[t].at = "charge" /\ thread'[t].job = thread[t].job
          /\ thread'[t].server = thread[t].server /\ thread'[t].cost = thread[t].cost
          /\ thread'[t].avail = thread[t].avail
        BY <1>1, <1>4, GotoMoves DEF Points
    <2>2. Checked'
        BY <1>4, <2>1, CheckedKept DEF Checked
    <2>3. \A s \in Servers : Loan(t, s)' = Loan(t, s)
        BY <1>1, <2>1 DEF Armed, Loan
    <2> QED
        BY <1>2, <1>3, <2>1, <2>2, <2>3 DEF Covers
<1>5. CASE Done(t)
    <2>1. OthersStay(t) /\ thread'[t] = Idle
        BY <1>1, <1>5, DoneMoves
    <2>2. thread'[t].at = "idle" /\ thread'[t].job = "none"
        BY <2>1 DEF Idle
    <2>3. Checked'
        BY <2>1, <2>2, CheckedKept
    <2>4. \A s \in Servers : Loan(t, s)' = 0
        BY <2>2 DEF Loan, Armed
    <2> QED
        BY <1>2, <1>3, <2>3, <2>4 DEF Covers
<1> QED
    BY <1>4, <1>5 DEF EndScan

\* t moves the counter of its server by n, and its loan by as much or less.
LEMMA MoveReserve ==
    ASSUME Inv, Inv', Checked, NEW t \in Handlers, OthersStay(t), NEW n \in Int, NEW m \in Nat,
           UNCHANGED peer, thread[t].server \in Servers,
           Moved(thread[t].server, n) \/ (UNCHANGED own /\ n = 0),
           bypassed' = [bypassed EXCEPT ![thread[t].server] = @ + m] \/ (UNCHANGED bypassed /\ m = 0),
           \A s \in Servers : IF thread[t].server = s THEN Loan(t, s)' - Loan(t, s) <= n + m
                              ELSE Loan(t, s)' = 0 /\ Loan(t, s) = 0
    PROVE  \A s \in Servers : Covers(t, s)
<1> SUFFICES ASSUME NEW s \in Servers PROVE Stock(s)' - Loan(t, s)' >= Stock(s) - Loan(t, s)
    BY DEF Covers
<1>1. t \in Threads /\ bypassed \in [Servers -> Nat]
    BY ThreadsAssumption DEF Inv, TypeOK
<1>2. own[s] \in Int /\ peer[s].incr \in Nat /\ bypassed[s] \in Nat /\ bypassed'[s] \in Nat /\ own'[s] \in Int
    BY ServerNumbers, ServerNumbersNext
<1>3. own'[s] = IF thread[t].server = s THEN own[s] + n ELSE own[s]
    <2>1. CASE Moved(thread[t].server, n)
        BY <1>1, <2>1, ServerMoved
    <2>2. CASE UNCHANGED own /\ n = 0
        BY <1>2, <2>2
    <2> QED
        BY <2>1, <2>2
<1>4. bypassed'[s] = IF thread[t].server = s THEN bypassed[s] + m ELSE bypassed[s]
    BY <1>1, <1>2
<1>5. Loan(t, s) \in Int /\ Loan(t, s)' \in Int
    BY <1>1, CostsInt, CostsIntNext DEF Loan, Inv, TypeOK, ThreadType
<1>6. Stock(s) = own[s] + peer[s].incr + bypassed[s]
      /\ Stock(s)' = own'[s] + peer[s].incr + bypassed'[s]
    BY DEF Stock, Held
<1>7. CASE thread[t].server = s
    <2>1. Loan(t, s)' - Loan(t, s) <= n + m
        BY <1>7
    <2>2. own'[s] = own[s] + n /\ bypassed'[s] = bypassed[s] + m
        BY <1>3, <1>4, <1>7
    <2> HIDE DEF Loan, Stock
    <2> QED
        BY <1>2, <1>5, <1>6, <2>1, <2>2
<1>8. CASE thread[t].server # s
    <2>1. Loan(t, s)' = 0 /\ Loan(t, s) = 0 /\ own'[s] = own[s] /\ bypassed'[s] = bypassed[s]
        BY <1>3, <1>4, <1>8
    <2> HIDE DEF Loan, Stock
    <2> QED
        BY <1>2, <1>6, <2>1
<1> QED
    BY <1>7, <1>8

\* Who charges was armed, and is so no longer.
LEMMA ChargeReserve ==
    ASSUME Inv, Inv', Checked, NEW t \in Threads, Charge(t)
    PROVE  OthersStay(t) /\ Checked' /\ \A s \in Servers : Covers(t, s)
<1>1. /\ UNCHANGED <<peer, bypassed>> /\ thread[t].at = "charge" /\ ThreadType
      /\ Moved(thread[t].server, -thread[t].cost) /\ Goto(t, "charged")
    BY DEF Charge, At, Inv, TypeOK, ThreadType
<1>2. /\ thread[t].job = "embed" /\ thread[t].avail >= thread[t].cost /\ t \in Handlers
      /\ thread[t].cost \in Int /\ -thread[t].cost \in Int /\ thread[t].server \in Servers
    BY <1>1, LocalsKnown DEF ShapeOf, Checked, OnServer
<1>3. OthersStay(t) /\ thread'[t].at = "charged"
    BY <1>1, GotoMoves DEF Points
<1>4. Checked'
    BY <1>2, <1>3, CheckedKept
<1>5. \A s \in Servers : /\ Loan(t, s)' = 0
                         /\ Loan(t, s) = IF thread[t].server = s THEN thread[t].cost ELSE 0
    BY <1>1, <1>2, <1>3 DEF Loan, Armed
<1>6. \A s \in Servers : IF thread[t].server = s THEN Loan(t, s)' - Loan(t, s) <= -thread[t].cost + 0
                         ELSE Loan(t, s)' = 0 /\ Loan(t, s) = 0
    BY <1>2, <1>5
<1> QED
    BY <1>1, <1>2, <1>3, <1>4, <1>6, MoveReserve

\* What was charged comes back when the update is refused.
LEMMA EndChargeReserve ==
    ASSUME Inv, Inv', Checked, NEW t \in Threads, EndCharge(t)
    PROVE  OthersStay(t) /\ Checked' /\ \A s \in Servers : Covers(t, s)
<1>1. /\ UNCHANGED <<peer, bypassed>> /\ thread[t].at = "charged" /\ ThreadType
      /\ \/ UNCHANGED own /\ Goto(t, "load")
         \/ Moved(thread[t].server, thread[t].cost) /\ Done(t)
    BY DEF EndCharge, At, Inv, TypeOK, ThreadType
<1>2. /\ thread[t].job = "embed" /\ t \in Handlers
      /\ thread[t].cost \in Nat /\ thread[t].server \in Servers
    BY <1>1, LocalsKnown DEF ShapeOf, Checked, OnServer
<1>3. OthersStay(t) /\ thread'[t].at \in {"load", "idle"}
    <2>1. CASE Goto(t, "load")
        BY <1>1, <2>1, GotoMoves DEF Points
    <2>2. CASE Done(t)
        BY <1>1, <2>2, DoneMoves DEF Idle
    <2> QED
        BY <1>1, <2>1, <2>2
<1>4. Checked'
    BY <1>2, <1>3, CheckedKept
<1>5. \A s \in Servers : Loan(t, s)' = 0 /\ Loan(t, s) = 0
    BY <1>1, <1>3 DEF Loan, Armed
<1>6. CASE UNCHANGED own
    BY <1>1, <1>2, <1>3, <1>4, <1>5, <1>6, MoveReserve
<1>7. CASE Moved(thread[t].server, thread[t].cost)
    <2>1. \A s \in Servers : IF thread[t].server = s THEN Loan(t, s)' - Loan(t, s) <= thread[t].cost + 0
                             ELSE Loan(t, s)' = 0 /\ Loan(t, s) = 0
        BY <1>2, <1>5
    <2> QED
        BY <1>1, <1>2, <1>3, <1>4, <1>7, <2>1, MoveReserve
<1> QED
    BY <1>1, <1>6, <1>7

\* What a release gives, or takes, it may take back, or give.
LEMMA RefundReserve ==
    ASSUME Inv, Inv', Checked, NEW t \in Threads, Refund(t)
    PROVE  OthersStay(t) /\ Checked' /\ \A s \in Servers : Covers(t, s)
<1>1. /\ UNCHANGED <<peer, bypassed>> /\ thread[t].at = "refund" /\ ThreadType
      /\ Moved(thread[t].server, thread[t].cost) /\ Goto(t, "refunded")
    BY DEF Refund, At, Inv, TypeOK, ThreadType
<1>2. t \in Handlers /\ thread[t].cost \in Int /\ thread[t].server \in Servers
    BY <1>1, LocalsKnown DEF ShapeOf, Checked, OnServer
<1>3. /\ OthersStay(t) /\ thread'[t].at = "refunded"
      /\ thread'[t].server = thread[t].server /\ thread'[t].cost = thread[t].cost
    BY <1>1, GotoMoves DEF Points
<1>4. Checked'
    BY <1>2, <1>3, CheckedKept
<1>5. \A s \in Servers : /\ Loan(t, s) = 0
                         /\ Loan(t, s)' = IF thread[t].server = s THEN thread[t].cost ELSE 0
    BY <1>1, <1>3 DEF Loan, Armed
<1>6. \A s \in Servers : IF thread[t].server = s THEN Loan(t, s)' - Loan(t, s) <= thread[t].cost + 0
                         ELSE Loan(t, s)' = 0 /\ Loan(t, s) = 0
    BY <1>2, <1>5
<1> QED
    BY <1>1, <1>2, <1>3, <1>4, <1>6, MoveReserve

\* What it keeps although nobody asked whether there was enough is remembered.
LEMMA EndRefundReserve ==
    ASSUME Inv, Inv', Checked, NEW t \in Threads, EndRefund(t)
    PROVE  OthersStay(t) /\ Checked' /\ \A s \in Servers : Covers(t, s)
<1>1. /\ UNCHANGED peer /\ thread[t].at = "refunded" /\ ThreadType
      /\ \/ UNCHANGED own /\ Remember(t) /\ Goto(t, "unload")
         \/ Moved(thread[t].server, -thread[t].cost) /\ UNCHANGED bypassed /\ Done(t)
    BY DEF EndRefund, At, Inv, TypeOK, ThreadType
<1>2. /\ t \in Handlers /\ thread[t].cost \in Int /\ -thread[t].cost \in Int
      /\ thread[t].server \in Servers /\ Unasked(t) \in Nat /\ Unasked(t) >= -thread[t].cost
    BY <1>1, LocalsKnown DEF ShapeOf, Checked, OnServer, Unasked
<1>3. OthersStay(t) /\ thread'[t].at \in {"unload", "idle"}
    <2>1. CASE Goto(t, "unload")
        BY <1>1, <2>1, GotoMoves DEF Points
    <2>2. CASE Done(t)
        BY <1>1, <2>2, DoneMoves DEF Idle
    <2> QED
        BY <1>1, <2>1, <2>2
<1>4. Checked'
    <2>1. thread'[t].job = "embed" => t \in Handlers
        BY <1>2
    <2> QED
        BY <1>2, <1>3, <2>1, CheckedKept
<1>5. \A s \in Servers : /\ Loan(t, s)' = 0
                         /\ Loan(t, s) = IF thread[t].server = s THEN thread[t].cost ELSE 0
    BY <1>1, <1>3 DEF Loan, Armed
<1> HIDE DEF Unasked
<1>6. CASE UNCHANGED own /\ Remember(t)
    <2>1. PICK m \in Nat : m = Unasked(t)
        BY <1>2
    <2>2. PICK n \in Int : n = 0
        OBVIOUS
    <2>3. \A s \in Servers : IF thread[t].server = s THEN Loan(t, s)' - Loan(t, s) <= n + m
                             ELSE Loan(t, s)' = 0 /\ Loan(t, s) = 0
        BY <1>2, <1>5, <2>1, <2>2
    <2>4. bypassed' = [bypassed EXCEPT ![thread[t].server] = @ + m]
        BY <1>6, <2>1 DEF Remember
    <2>5. UNCHANGED own /\ UNCHANGED peer
        BY <1>1, <1>6
    <2>6. \A s \in Servers : Covers(t, s)
        BY <1>2, <1>3, <2>2, <2>3, <2>4, <2>5, MoveReserve
    <2> QED
        BY <1>3, <1>4, <2>6
<1>7. CASE Moved(thread[t].server, -thread[t].cost) /\ UNCHANGED bypassed
    <2>1. \A s \in Servers : IF thread[t].server = s THEN Loan(t, s)' - Loan(t, s) <= -thread[t].cost + 0
                             ELSE Loan(t, s)' = 0 /\ Loan(t, s) = 0
        BY <1>2, <1>5
    <2> QED
        BY <1>1, <1>2, <1>3, <1>4, <1>7, <2>1, MoveReserve
<1> QED
    BY <1>1, <1>6, <1>7

\* The other steps of an allocation and those of a release.
LEMMA ServingReserve ==
    ASSUME Inv, Inv', Checked, NEW t \in Threads, AddLoad(t) \/ Respond(t) \/ Unload(t)
    PROVE  OthersStay(t) /\ Checked' /\ \A s \in Servers : Covers(t, s)
<1>1. /\ UNCHANGED <<own, peer, bypassed>> /\ thread[t].at \in {"load", "status", "unload"} /\ ThreadType
      /\ Goto(t, "status") \/ Done(t)
    BY DEF AddLoad, Respond, Unload, At, Inv, TypeOK, ThreadType
<1>2. /\ OthersStay(t) /\ thread'[t].at \in {"status", "idle"}
      /\ thread'[t].job = thread[t].job \/ thread'[t].job = "none"
    <2>1. CASE Goto(t, "status")
        BY <1>1, <2>1, GotoMoves DEF Points
    <2>2. CASE Done(t)
        BY <1>1, <2>2, DoneMoves DEF Idle
    <2> QED
        BY <1>1, <2>1, <2>2
<1>3. \A s \in Servers : Stock(s)' >= Stock(s)
    BY <1>1, StockStays
<1>4. thread'[t].job = "embed" => t \in Handlers
    BY <1>2 DEF Checked
<1> QED
    BY <1>1, <1>2, <1>3, <1>4, CalmReserve

\* The steps under the write lock do not concern the servers.
LEMMA WritingReserve ==
    ASSUME Inv, Inv', Checked, NEW t \in Threads, Writing(t) \/ (t = Background /\ EndSync)
    PROVE  OthersStay(t) /\ Checked' /\ \A s \in Servers : Covers(t, s)
<1>1. /\ UNCHANGED <<peer, bypassed>> /\ OthersStay(t) /\ \A s \in Servers : own'[s] = own[s]
      /\ thread[t].at \in {"wlock", "drain", "check", "take", "taken", "given"}
      /\ thread'[t].at \in {"idle", "drain", "check", "take", "taken", "given"}
      /\ thread'[t].job = thread[t].job \/ thread'[t].job = "none"
    BY WritingMoves
<1>2. \A s \in Servers : Stock(s)' >= Stock(s)
    BY <1>1, StockStays
<1>3. thread'[t].job = "embed" => t \in Handlers
    BY <1>1 DEF Checked
<1> QED
    BY <1>1, <1>2, <1>3, CalmReserve

\* The background task allocates nothing.
LEMMA BackgroundReserve ==
    ASSUME Inv, Inv', Checked, BeginSync \/ StopBackground
    PROVE  /\ OthersStay(Background) /\ Checked' /\ Background \in Threads
           /\ \A s \in Servers : Covers(Background, s)
<1>1. /\ UNCHANGED <<own, peer, bypassed>> /\ OthersStay(Background) /\ Background \in Threads
      /\ thread[Background].at = "idle" /\ thread'[Background].at \in {"wlock", "stopped"}
    BY BackgroundMoves
<1>2. \A s \in Servers : Stock(s)' >= Stock(s)
    BY <1>1, StockStays
<1>3. thread'[Background].job = "embed" => Background \in Handlers
    <2>1. Begin(Background, "sync", Global, 0, "wlock") \/ Goto(Background, "stopped")
        BY DEF BeginSync, StopBackground
    <2>2. "sync" \in Jobs /\ "wlock" \in Points /\ "stopped" \in Points /\ ThreadType /\ Global \in Keys
        BY DEF Jobs, Points, Inv, TypeOK, ThreadType, Keys
    <2>3. thread'[Background].job \in {"sync", thread[Background].job}
        BY <1>1, <2>1, <2>2, BeginMoves, GotoMoves
    <2> QED
        BY <1>1, <2>3 DEF Checked
<1> QED
    BY <1>1, <1>2, <1>3, CalmReserve

\* What the peers add only helps.
LEMMA RestReserve ==
    ASSUME Inv, Inv', Checked, UNCHANGED <<thread, bypassed>>,
           \/ UNCHANGED <<own, peer>>
           \/ \E k \in Keys, amount \in PeerAmounts : RemoteUpdate(k, amount)
    PROVE  /\ OthersStay(Background) /\ Checked' /\ Background \in Threads
           /\ \A s \in Servers : Covers(Background, s)
<1>1. Background \in Threads /\ Background \notin Handlers /\ OthersStay(Background) /\ Checked'
    BY ThreadsAssumption DEF OthersStay, Checked
<1>2. ASSUME NEW s \in Servers PROVE Stock(s)' >= Stock(s)
    <2>1. own[s] \in Int /\ peer[s].incr \in Nat /\ s \in Keys /\ peer'[s].incr \in Nat
          /\ peer \in [Keys -> [incr : Nat, decr : Nat]] /\ bypassed[s] \in Nat
        BY ServerNumbers, ServerNumbersNext DEF Keys, Inv, TypeOK
    <2>2. CASE UNCHANGED <<own, peer>>
        BY <2>1, <2>2 DEF Stock, Held
    <2>3. ASSUME NEW k \in Keys, NEW amount \in PeerAmounts, RemoteUpdate(k, amount)
          PROVE  Stock(s)' >= Stock(s)
        <3>1. amount \in Int /\ own' = own
            BY <2>3, AmountsAssumption DEF RemoteUpdate
        <3>2. peer'[s].incr >= peer[s].incr
            <4>1. CASE amount >= 0
                <5>1. peer' = [peer EXCEPT ![k].incr = Larger(@, amount)]
                    BY <2>3, <4>1 DEF RemoteUpdate
                <5> QED
                    BY <2>1, <3>1, <5>1 DEF Larger
            <4>2. CASE ~(amount >= 0)
                <5>1. peer' = [peer EXCEPT ![k].decr = Larger(@, -amount)]
                    BY <2>3, <4>2 DEF RemoteUpdate
                <5> QED
                    BY <2>1, <5>1
            <4> QED
                BY <4>1, <4>2
        <3> QED
            BY <2>1, <3>1, <3>2 DEF Stock, Held
    <2> QED
        BY <2>2, <2>3
<1>3. \A s \in Servers : Loan(Background, s) = 0 /\ Loan(Background, s)' = 0
    BY <1>1 DEF Loan, Armed, Checked
<1>4. \A s \in Servers : Stock(s) \in Int /\ Stock(s)' \in Int
    BY ServerNumbers, ServerNumbersNext DEF Stock, Held
<1> QED
    BY <1>1, <1>2, <1>3, <1>4 DEF Covers

\* Every step keeps the reserve.
LEMMA StepReserve ==
    ASSUME Inv, Inv', Checked, \A s \in Servers : Reserve(s), [Next]_vars
    PROVE  Checked' /\ \A s \in Servers : Reserve(s)'
<1> SUFFICES \E t \in Threads : OthersStay(t) /\ Checked' /\ \A s \in Servers : Covers(t, s)
    BY ReserveStep
<1>1. Background \in Threads /\ Handlers \subseteq Threads
    BY ThreadsAssumption
<1>2. CASE Stop \/ UpdateAllLinks \/ UNCHANGED vars
           \/ \E k \in Keys, amount \in PeerAmounts : RemoteUpdate(k, amount)
    <2>1. UNCHANGED <<thread, bypassed>>
        BY <1>2 DEF Stop, UpdateAllLinks, RemoteUpdate, vars
    <2>2. \/ UNCHANGED <<own, peer>>
          \/ \E k \in Keys, amount \in PeerAmounts : RemoteUpdate(k, amount)
        BY <1>2 DEF Stop, UpdateAllLinks, vars
    <2> QED
        BY <2>1, <2>2, RestReserve
<1>3. ASSUME NEW t \in Handlers, Requests(t)
      PROVE  OthersStay(t) /\ Checked' /\ \A s \in Servers : Covers(t, s)
    BY <1>3, NewRequestBegins, BeginReserve DEF NewRequest
<1>4. ASSUME NEW t \in Handlers, NEW k \in Keys, NEW c \in Costs, Expire(t, k, c)
      PROVE  OthersStay(t) /\ Checked' /\ \A s \in Servers : Covers(t, s)
    <2>1. {"return", "release"} \subseteq Jobs
        BY DEF Jobs
    <2>2. At(t, "idle") /\ UNCHANGED <<own, peer, bypassed>>
        BY <1>4 DEF Expire
    <2> QED
        BY <1>4, <2>1, <2>2, ExpireBegins, BeginReserve
<1>5. ASSUME NEW t \in Threads, Scanning(t)
      PROVE  OthersStay(t) /\ Checked' /\ \A s \in Servers : Covers(t, s)
    BY <1>5, ScanningMoves, LockForScanReserve, PeekReserve, EndScanReserve DEF Scanning
<1>6. ASSUME NEW t \in Threads, Serving(t)
      PROVE  OthersStay(t) /\ Checked' /\ \A s \in Servers : Covers(t, s)
    BY <1>6, ChargeReserve, EndChargeReserve, RefundReserve, EndRefundReserve, ServingReserve DEF Serving
<1>7. ASSUME NEW t \in Threads, Writing(t) \/ (t = Background /\ EndSync)
      PROVE  OthersStay(t) /\ Checked' /\ \A s \in Servers : Covers(t, s)
    BY <1>7, WritingReserve
<1>8. CASE BeginSync \/ StopBackground
    BY <1>8, BackgroundReserve
<1> QED
    BY <1>1, <1>2, <1>3, <1>4, <1>5, <1>6, <1>7, <1>8 DEF Next

\* At first nobody is armed and every server is whole.
LEMMA InitReserve == Init => Checked /\ \A s \in Servers : Reserve(s)
<1> SUFFICES ASSUME Init, NEW s \in Servers PROVE Checked /\ Reserve(s)
    BY ServersAssumption
<1>1. Checked
    BY DEF Init, Checked, Idle
<1>2. Loans(s) = 0
    <2> DEFINE loans == [t \in Handlers |-> Loan(t, s)]
    <2>1. loans \in [Handlers -> Int] /\ \A t \in Handlers : loans[t] = 0
        BY ThreadsAssumption DEF Init, Loan, Armed, Idle
    <2>2. Loans(s) = SumFunction(loans) /\ IsFiniteSet(Handlers)
        BY ThreadsAssumption DEF Loans
    <2> HIDE DEF loans
    <2> QED
        BY <2>1, <2>2, SumZeros
<1>3. Stock(s) = Capacity /\ Capacity \in Nat
    BY ServersAssumption, AmountsAssumption DEF Init, Stock, Held, Keys
<1> QED
    BY <1>1, <1>2, <1>3, SlackKnown DEF Reserve

\* Concurrent allocations overshoot a server by less than one largest amount for
\* every other goroutine, apart from what releases of negative amounts took.
THEOREM OvershootBounded == SafeSpec => []ServerOvershootBound
<1> DEFINE All == Inv /\ Checked /\ \A s \in Servers : Reserve(s)
<1>1. Init => All
    BY InitInv, InitReserve
<1>2. All /\ [Next]_vars => All'
    BY StepInv, StepReserve
<1>3. All => ServerOvershootBound
    BY ReserveBounds
<1> HIDE DEF All
<1> QED
    BY <1>1, <1>2, <1>3, PTL DEF SafeSpec
==============================================================================
