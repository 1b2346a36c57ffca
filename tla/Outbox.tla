------------------------------- MODULE Outbox -------------------------------
(***************************************************************************)
(* What the dispatcher promises to the callers of Enqueue, without saying  *)
(* how: an update is either refused or accepted; an accepted update is     *)
(* handed to the broadcast at most once and, as long as the outbox stays   *)
(* open, at least once.  Nothing is promised about the order, and what is  *)
(* pending when the outbox closes is lost.  Dispatcher implements it.      *)
(***************************************************************************)
EXTENDS Integers, Sequences

CONSTANT Updates    \* identities of the updates callers may submit

VARIABLES
    pending,        \* accepted, not yet handed to the broadcast
    handed,         \* the updates handed to the broadcast, in order
    refused,        \* the updates Enqueue returned an error for
    open            \* FALSE once the dispatch loop has returned

outboxVars == <<pending, handed, refused, open>>

Known(u) == u \in pending \cup refused \/ \E i \in 1..Len(handed) : handed[i] = u

Init ==
    /\ pending = {}
    /\ handed = << >>
    /\ refused = {}
    /\ open = TRUE

\* A closed outbox still accepts: Enqueue never looks at stopChan.
Accept(u) ==
    /\ ~Known(u)
    /\ pending' = pending \cup {u}
    /\ UNCHANGED <<handed, refused, open>>

Refuse(u) ==
    /\ ~Known(u)
    /\ refused' = refused \cup {u}
    /\ UNCHANGED <<pending, handed, open>>

Hand(u) ==
    /\ open
    /\ u \in pending
    /\ pending' = pending \ {u}
    /\ handed' = Append(handed, u)
    /\ UNCHANGED <<refused, open>>

Close ==
    /\ open
    /\ open' = FALSE
    /\ UNCHANGED <<pending, handed, refused>>

Next == Close \/ \E u \in Updates : Accept(u) \/ Refuse(u) \/ Hand(u)

Fairness == \A u \in Updates : WF_outboxVars(Hand(u))

SafeSpec == Init /\ [][Next]_outboxVars
Spec == SafeSpec /\ Fairness
=============================================================================
