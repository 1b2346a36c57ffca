------------------------------- MODULE RWMutex -------------------------------
(***************************************************************************)
(* Go's sync.RWMutex as the simulated controller uses it.  Lock first      *)
(* announces the writer, then waits until the read locks held are given    *)
(* back; RLock waits while a writer is announced or writing, also in a     *)
(* goroutine that already holds a read lock.                               *)
(***************************************************************************)
EXTENDS Naturals

CONSTANTS
    Threads,        \* goroutines that use the lock
    NoThread

ASSUME NoThreadAssumption == NoThread \notin Threads

VARIABLES
    readers,        \* read locks each goroutine holds
    writer          \* the goroutine that is announced or writing

lockVars == <<readers, writer>>

LockTypeOK == readers \in [Threads -> Nat] /\ writer \in Threads \cup {NoThread}

Unlocked == readers = [t \in Threads |-> 0] /\ writer = NoThread

\* RLock would not wait: a section that takes and gives back a read lock can run.
MayRead == writer = NoThread

RLock(t) ==
    /\ MayRead
    /\ readers' = [readers EXCEPT ![t] = @ + 1]
    /\ UNCHANGED writer

RUnlock(t) == readers' = [readers EXCEPT ![t] = @ - 1] /\ UNCHANGED writer

Announce(t) == writer = NoThread /\ writer' = t /\ UNCHANGED readers

MayWrite(t) == writer = t /\ \A u \in Threads : readers[u] = 0

Unlock(t) == writer = t /\ writer' = NoThread /\ UNCHANGED readers
=============================================================================
