------------------------------ MODULE Adaptation ------------------------------
(***************************************************************************)
(* The control loop of one node: updates reach the history of a counter    *)
(* (store/pn_counter.go), every remote one starts a goroutine that judges  *)
(* the history (pi/inspector.go), every judgement starts a goroutine that  *)
(* runs the PID step (oca/controller.go) and sets the dispatcher's level   *)
(* (ac.go).  Nothing orders those goroutines, and no lock protects the     *)
(* state of the PID step: its reads and writes interleave.                 *)
(***************************************************************************)
EXTENDS Inspector, OCA, FiniteSets

CONSTANTS
    Amounts,        \* signed amounts of updates
    Times,          \* timestamps: the readings of a wall clock, in any order
    Gaps,           \* time between two adjustments, in tenths of a millisecond
    FirstGap,       \* the same since the zero time, before the first one
    TargetPhi,      \* in hundredths
    InitialCL,      \* the level before the first adjustment
    MaxHistory,     \* maxHistorySize
    MaxOps,         \* bound: updates, local and remote
    MaxAtOnce       \* bound: goroutines of remote updates at one time

ASSUME InputsAssumption ==
    Amounts \subseteq Int /\ Times \subseteq Nat /\ Gaps \subseteq Nat /\ FirstGap \in Nat
ASSUME TargetAssumption == TargetPhi \in Nat
ASSUME InitialCLAssumption ==
    InitialCL \in [QueueSize : MinQueueSize..MaxQueueSize, Timeout : MinTimeout..MaxTimeout]
ASSUME SizesAssumption == MaxHistory \in Nat \ {0} /\ {MaxOps, MaxAtOnce} \subseteq Nat

VARIABLES
    history,        \* pn.History
    updates,        \* updates so far: the number of the next one
    checks,         \* goroutines in CheckInconsistency
    reports,        \* goroutines in onReport: the callback of setupCallbacks
    integral,       \* c.integral
    lastError,      \* c.lastError
    updated,        \* c.lastUpdate is not the zero time
    currentCL       \* the dispatcher's level

pidVars == <<integral, lastError, updated>>
vars == <<history, updates, checks, reports, pidVars, currentCL>>

Levels == [QueueSize : MinQueueSize..MaxQueueSize, Timeout : MinTimeout..MaxTimeout]
Entries == [at : Times, amount : Int, remote : BOOLEAN]
Stages == {"time", "mark", "load", "store", "reload", "compare", "note", "apply"}
Reports == [id : Nat, phi : Nat, stage : Stages, gap : Nat,
            integral : Int, change : Int, output : -OutputLimit..OutputLimit]

Init ==
    /\ history = << >>
    /\ updates = 0
    /\ checks = {}
    /\ reports = {}
    /\ integral = 0
    /\ lastError = 0
    /\ updated = FALSE
    /\ currentCL = InitialCL

-----------------------------------------------------------------------------
(* The history of the counter.                                             *)

\* The oldest entries go when there are too many.
Pruned(h) == IF Len(h) > MaxHistory THEN SubSeq(h, Len(h) - MaxHistory + 1, Len(h)) ELSE h

Record(amount, remote) ==
    \E now \in Times :
        history' = Pruned(Append(history, [at |-> now, amount |-> amount, remote |-> remote]))

LocalUpdate(amount) ==
    /\ updates < MaxOps
    /\ updates' = updates + 1
    /\ Record(amount, FALSE)
    /\ UNCHANGED <<checks, reports, pidVars, currentCL>>

\* Merge records what it received, with the time of the receipt, unless it is
\* zero; HandleRemoteUpdate then starts the check.
RemoteUpdate(amount) ==
    /\ updates < MaxOps /\ Cardinality(checks) + Cardinality(reports) < MaxAtOnce
    /\ updates' = updates + 1
    /\ IF amount # 0 THEN Record(amount, TRUE) ELSE UNCHANGED history
    /\ checks' = checks \cup {updates}
    /\ UNCHANGED <<reports, pidVars, currentCL>>

-----------------------------------------------------------------------------
(* CheckInconsistency, on a copy of the history as it is by then.          *)

Report(id, phi) ==
    [id |-> id, phi |-> phi, stage |-> "time", gap |-> 0,
     integral |-> 0, change |-> 0, output |-> 0]

Check(id) ==
    /\ id \in checks
    /\ checks' = checks \ {id}
    /\ reports' = IF Judged(history) THEN reports \cup {Report(id, Phi(history))} ELSE reports
    /\ UNCHANGED <<history, updates, pidVars, currentCL>>

-----------------------------------------------------------------------------
(* Adjust and SetConsistencyLevel, by any number of goroutines at once.    *)

Error(r) == r.phi - TargetPhi

At(r, stage) == r \in reports /\ r.stage = stage

Becomes(r, s) == reports' = (reports \ {r}) \cup {s}

\* time.Since(c.lastUpdate): before the first adjustment, since the year 1.
ReadTime(r) ==
    /\ At(r, "time")
    /\ \E gap \in IF updated THEN Gaps ELSE {FirstGap} :
          Becomes(r, [r EXCEPT !.stage = "mark", !.gap = Elapsed(gap)])
    /\ UNCHANGED <<history, updates, checks, pidVars, currentCL>>

\* c.lastUpdate = now
MarkTime(r) ==
    /\ At(r, "mark")
    /\ updated' = TRUE
    /\ Becomes(r, [r EXCEPT !.stage = "load"])
    /\ UNCHANGED <<history, updates, checks, integral, lastError, currentCL>>

\* c.integral += error * dt, and c.integral is read once more for its term.
LoadIntegral(r) ==
    /\ At(r, "load")
    /\ Becomes(r, [r EXCEPT !.stage = "store",
                            !.integral = Integrated(integral, Error(r), r.gap)])
    /\ UNCHANGED <<history, updates, checks, pidVars, currentCL>>

StoreIntegral(r) ==
    /\ At(r, "store")
    /\ integral' = r.integral
    /\ Becomes(r, [r EXCEPT !.stage = "reload"])
    /\ UNCHANGED <<history, updates, checks, lastError, updated, currentCL>>

ReloadIntegral(r) ==
    /\ At(r, "reload")
    /\ Becomes(r, [r EXCEPT !.stage = IF Derived(r.gap) THEN "compare" ELSE "note",
                            !.integral = integral])
    /\ UNCHANGED <<history, updates, checks, pidVars, currentCL>>

\* error - c.lastError, where there is a derivative.
CompareError(r) ==
    /\ At(r, "compare")
    /\ Becomes(r, [r EXCEPT !.stage = "note", !.change = Error(r) - lastError])
    /\ UNCHANGED <<history, updates, checks, pidVars, currentCL>>

\* c.lastError = error, and what is left reads nothing that is shared.
NoteError(r) ==
    /\ At(r, "note")
    /\ lastError' = Error(r)
    /\ Becomes(r, [Report(r.id, r.phi) EXCEPT
                       !.stage = "apply",
                       !.output = PIDOutput(Error(r), r.integral, r.change, r.gap)])
    /\ UNCHANGED <<history, updates, checks, integral, updated, currentCL>>

Apply(r) ==
    /\ At(r, "apply")
    /\ currentCL' = MapOutputToCL(r.output)
    /\ reports' = reports \ {r}
    /\ UNCHANGED <<history, updates, checks, pidVars>>

-----------------------------------------------------------------------------
Updating == \E a \in Amounts : LocalUpdate(a) \/ RemoteUpdate(a)

Adjust(r) ==
    \/ ReadTime(r) \/ MarkTime(r)
    \/ LoadIntegral(r) \/ StoreIntegral(r) \/ ReloadIntegral(r)
    \/ CompareError(r) \/ NoteError(r)
    \/ Apply(r)

\* The bound on updates is reached and every goroutine has ended.
Rest == updates = MaxOps /\ checks = {} /\ reports = {} /\ UNCHANGED vars

Next ==
    \/ Updating
    \/ \E id \in checks : Check(id)
    \/ \E r \in reports : Adjust(r)
    \/ Rest

SafeSpec == Init /\ [][Next]_vars

-----------------------------------------------------------------------------
(* Properties.                                                             *)

TypeOK ==
    /\ history \in Seq(Entries)
    /\ updates \in 0..MaxOps
    /\ checks \subseteq Nat
    /\ reports \subseteq Reports
    /\ integral \in Int
    /\ lastError \in Int
    /\ updated \in BOOLEAN
    /\ currentCL \in Levels

\* A decision can only be regretted if it was taken after an update of a peer
\* that should have been known: a ratio above 1.00 is reported only of a
\* history in which a local operation follows a remote update, or one whose
\* timestamps tell another order than it has, for the clock was put back.
RegretNeedsLateness ==
    [][\A r \in reports' \ reports :
          r.stage = "time" /\ r.phi > One =>
              \E i, j \in 1..Len(history) :
                  /\ i < j
                  /\ \/ history[i].remote /\ ~history[j].remote
                     \/ history[i].at > history[j].at]_vars

Total(timeline) == timeline[Len(timeline)]

\* Both timelines are made of the same updates, so they end in the same total,
\* whatever was pruned.
TimelinesMeet ==
    Judged(history) => Total(Suboptimal(history)) = Total(Optimal(history))

\* The same of a check that is given the remote update, by the times it is
\* given: a ratio above 1.00 needs an operation of this node between the time
\* of the update and that of its receipt, in whichever order two unrelated
\* clocks put them.  (A state between checks is enough: a check only reads.)
Given == [origin : Times, receive : Times, amount : Amounts]

RegretLiesBetween ==
    checks = {} /\ reports = {} =>
        \A update \in Given :
            LET own == LocalEntries(history)
            IN  own # << >> /\ PhiWith(own, update) > One =>
                  \E i \in DOMAIN own :
                      \/ update.origin <= own[i].at /\ own[i].at < update.receive
                      \/ update.receive <= own[i].at /\ own[i].at < update.origin

\* controller.go:202, "output > 0: phi > TargetPhi, the deviation is large and
\* a stricter consistency is needed": the output for a report above the target
\* is positive.
OutputFollowsPhi ==
    \A r \in reports : At(r, "apply") /\ r.phi > TargetPhi => r.output > 0
=============================================================================
