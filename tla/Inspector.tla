------------------------------ MODULE Inspector ------------------------------
(***************************************************************************)
(* pi/inspector.go, the computations of CheckInconsistency and of          *)
(* CheckInconsistencyWithRemote: a counter's history gives two timelines   *)
(* of running totals, each timeline a cost, and the two costs the          *)
(* inconsistency ratio.  An entry of the history has a time, a signed      *)
(* amount and a mark for remote updates.                                   *)
(*                                                                         *)
(* Ratios are in hundredths.  A cost is the variance times the square of   *)
(* the timeline's length, so that it is an integer.                        *)
(***************************************************************************)
EXTENDS Integers, Sequences, FiniteSets, Functions

One == 100      \* the ratio 1.00

\* The entries at some positions, those with the lower keys first.  No two of
\* the positions have the same key.
Place(positions, key, i) == Cardinality({j \in positions : key[j] <= key[i]})
Arranged(entries, positions, key) ==
    [k \in 1..Cardinality(positions) |->
        entries[CHOOSE i \in positions : Place(positions, key, i) = k]]

\* They in the order they have.
Selected(entries, positions) == Arranged(entries, positions, [i \in positions |-> i])

\* Everything in the order of the timestamps.  A wall clock may give one time
\* twice: such entries keep their order, as they do in the code unless an
\* earlier time follows them, when its exchanges may turn them round.
Sorted(entries) ==
    Arranged(entries, DOMAIN entries,
             [i \in DOMAIN entries |-> entries[i].at * (Len(entries) + 1) + i])

LocalEntries(history) == Selected(history, {i \in DOMAIN history : ~history[i].remote})
RemoteEntries(history) == Selected(history, {i \in DOMAIN history : history[i].remote})

RunningTotals(entries) ==
    [i \in 1..Len(entries) |-> SumFunction([j \in 1..i |-> entries[j].amount])]

\* Wrong variant: the remote updates come first.
SuboptimalRemoteFirst(history) ==
    RunningTotals(RemoteEntries(history) \o LocalEntries(history))

\* Wrong variant: the late updates are left out.
SuboptimalLocalOnly(history) == RunningTotals(LocalEntries(history))

\* What happened: this node's own operations, then the updates that came late.
Suboptimal(history) == RunningTotals(LocalEntries(history) \o RemoteEntries(history))

\* What should have happened: everything in the order of the timestamps.
Optimal(history) == RunningTotals(Sorted(history))

Cost(timeline) ==
    Len(timeline) * SumFunction([i \in DOMAIN timeline |-> timeline[i] * timeline[i]])
        - SumFunction(timeline) * SumFunction(timeline)

\* A history this short, or without an operation of this node, is not judged.
Judged(history) == Len(history) >= 2 /\ LocalEntries(history) # << >>

AtLeastOne(ratio) == IF ratio < One THEN One ELSE ratio

\* The ratio of the variances; without variance in what should have happened,
\* the variance of what happened and one.  Totals are in 1/unit.
Ratio(suboptimal, optimal, unit) ==
    LET Square(n) == n * n
        cost == Cost(suboptimal) * Square(Len(optimal))
        least == Cost(optimal) * Square(Len(suboptimal))
    IN  IF Cost(optimal) > 0 THEN AtLeastOne((One * cost) \div least)
        ELSE One + (One * Cost(suboptimal)) \div Square(unit * Len(suboptimal))

Phi(history) == Ratio(Suboptimal(history), Optimal(history), 1)

-----------------------------------------------------------------------------
(* CheckInconsistencyWithRemote, which is given the remote update with the *)
(* time its origin put on it and the time of its receipt, two clocks that  *)
(* nothing relates, and the history of this node's own operations.  It     *)
(* takes 7/10 of a late operation in the direction of the remote update,   *)
(* so totals are in tenths.                                                *)

Scaled(tenths, entries) == [i \in DOMAIN entries |-> [amount |-> tenths * entries[i].amount]]

\* Wrong variant: the comparison includes the time itself.
BeforeOrAt(history, time) == Selected(history, {i \in DOMAIN history : history[i].at <= time})

Before(history, time) == Selected(history, {i \in DOMAIN history : history[i].at < time})

Late(history, update) ==
    Selected(history, {i \in DOMAIN history :
                           update.origin <= history[i].at /\ history[i].at < update.receive})

SuboptimalWith(history, update) ==
    RunningTotals(Scaled(10, Append(Before(history, update.receive), update)))

\* What the application would have done had it known: part of it elsewhere.
Redecided(entry, update) ==
    [amount |-> (IF entry.amount * update.amount > 0 THEN 7 ELSE 10) * entry.amount]

OptimalWith(history, update) ==
    LET late == Late(history, update)
    IN  RunningTotals(Scaled(10, Append(Before(history, update.origin), update))
                        \o [i \in DOMAIN late |-> Redecided(late[i], update)])

PhiWith(history, update) ==
    Ratio(SuboptimalWith(history, update), OptimalWith(history, update), 10)
=============================================================================
