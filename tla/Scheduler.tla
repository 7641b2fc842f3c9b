------------------------------ MODULE Scheduler ------------------------------
(***************************************************************************)
(* The work scheduler (application/orchestration/scheduler.ts).            *)
(*                                                                         *)
(* Every schedule() call is a generation: a list of units with a           *)
(* dependency graph.  Generations share the concurrency cap, the conflict  *)
(* keys, the budget and the waiting list.  The program is single threaded: *)
(* one generation's admission pass runs to its await without interruption, *)
(* so `active' names the generation whose pass is running and every other  *)
(* event (a runner settling, an abort, a resume) waits until it is None.   *)
(* A pass is BeginPass, one visit per ready unit, and the step that parks  *)
(* or returns; the clock is read afresh by each, so it may advance between *)
(* any two of them.                                                        *)
(***************************************************************************)
EXTENDS Effects, FiniteSets

CONSTANTS
    Units,                \* the units of every generation
    Gens,                 \* the generations, one schedule() call each
    GenOf,                \* [Units -> Gens]
    Index,                \* position of a unit in its generation's list
    Id,                   \* the identifier a unit carries
    DepIds,               \* the identifiers a unit depends on
    Keys,                 \* every conflict key
    GlobalKey,            \* the key of an undeclared mutation
    ConflictKeys,         \* the keys a unit declares
    Observations,         \* units whose effect class is "observation"
    Priority,             \* priorityRank of a unit, 0 (interactive) .. 3
    DeadlineOf,           \* expiry of a unit; no deadline is one past MaxTime
    Scopes, ScopeOf,      \* cancellation scope of a unit, or None
    Admission,            \* the answers a unit's admit() may give
    MaxConcurrent, MaxConcurrentPerKey, LockTimeout, StarvationThreshold,
    ReservedInteractive, MaxQueued,
    Budget,               \* operations the budget node has left at the start
    MaxTime,              \* bound on the clock
    None

ASSUME UnitsAssumption ==
    /\ IsFiniteSet(Units)
    /\ GenOf \in [Units -> Gens]
    /\ Index \in [Units -> Nat]
    /\ Priority \in [Units -> 0 .. 3]
    /\ DeadlineOf \in [Units -> Nat]
    /\ Observations \subseteq Units
    /\ Admission \in [Units -> SUBSET {"ready", "wait", "refused"}]

ASSUME KeysAssumption ==
    /\ GlobalKey \in Keys
    /\ ConflictKeys \in [Units -> SUBSET Keys]

ASSUME ScopesAssumption ==
    /\ None \notin Scopes /\ None \notin Gens
    /\ ScopeOf \in [Units -> Scopes \cup {None}]

ASSUME LimitsAssumption ==
    /\ MaxConcurrent \in Nat /\ MaxConcurrentPerKey \in Nat
    /\ LockTimeout \in Nat /\ StarvationThreshold \in Nat
    /\ ReservedInteractive \in Nat /\ MaxQueued \in Nat
    /\ Budget \in Nat /\ MaxTime \in Nat

VARIABLES
    state,            \* per unit: idle (not submitted), blocked, ready, running, settled
    result,           \* per unit: pending or how it ended
    effect,           \* per unit: the effect certainty of its result
    ran,              \* history: units whose runner was called
    held,             \* per key: number of running holders
    running,          \* number of running units
    budgetLeft,       \* operations neither reserved nor consumed
    waitingUnits,     \* the shared waiting list
    passedOver,       \* per unit: starts it has watched from the waiting list
    capacityBlocked,  \* units whose admit() answered wait since the last change
    arrival, nextArrival, queuedAt,
    pc,               \* per generation: idle, loop, admit, parked, draining, done
    active,           \* the generation whose pass is running, or None
    todo, rankAt,     \* the sorted ready list still to visit, with its sort keys
    woken,            \* parked or draining generations whose await was resolved
    aborted,          \* generations whose caller's signal fired
    stopping,         \* units whose controller was aborted while they ran
    stoppedScopes,    \* scopes whose signal fired
    scopeEffect,      \* per scope: the worst effect recorded on it
    now

unitVars     == <<state, result, effect>>
capacityVars == <<held, running, budgetLeft>>
queueVars    == <<waitingUnits, passedOver, capacityBlocked>>
arrivalVars  == <<arrival, nextArrival, queuedAt>>
loopVars     == <<pc, active, todo, rankAt, woken>>
stopVars     == <<aborted, stopping, stoppedScopes>>
vars == <<unitVars, ran, capacityVars, queueVars, arrivalVars, loopVars,
          stopVars, scopeEffect, now>>

States  == {"idle", "blocked", "ready", "running", "settled"}
Results == {"pending", "completed", "refused", "failed", "cancelled", "timed-out"}
PCs     == {"idle", "loop", "admit", "parked", "draining", "done"}

TypeOK ==
    /\ state \in [Units -> States]
    /\ result \in [Units -> Results]
    /\ effect \in [Units -> EffectCertainty]
    /\ ran \subseteq Units
    /\ held \in [Keys -> Nat]
    /\ running \in Nat
    /\ budgetLeft \in Nat
    /\ waitingUnits \subseteq Units
    /\ passedOver \in [Units -> Nat]
    /\ capacityBlocked \subseteq Units
    /\ arrival \in [Units -> Nat] /\ nextArrival \in Nat
    /\ queuedAt \in [Units -> Nat]
    /\ pc \in [Gens -> PCs]
    /\ active \in Gens \cup {None}
    /\ todo \subseteq Units /\ rankAt \in [Units -> 0 .. 3]
    /\ woken \subseteq Gens
    /\ aborted \subseteq Gens
    /\ stopping \subseteq Units
    /\ stoppedScopes \subseteq Scopes
    /\ scopeEffect \in [Scopes -> EffectCertainty]
    /\ now \in 0 .. MaxTime

Init ==
    /\ state = [u \in Units |-> "idle"]
    /\ result = [u \in Units |-> "pending"]
    /\ effect = [u \in Units |-> NoEffect]
    /\ ran = {}
    /\ held = [k \in Keys |-> 0]
    /\ running = 0
    /\ budgetLeft = Budget
    /\ waitingUnits = {}
    /\ passedOver = [u \in Units |-> 0]
    /\ capacityBlocked = {}
    /\ arrival = [u \in Units |-> 0] /\ nextArrival = 0
    /\ queuedAt = [u \in Units |-> 0]
    /\ pc = [g \in Gens |-> "idle"]
    /\ active = None
    /\ todo = {} /\ rankAt = [u \in Units |-> 0]
    /\ woken = {}
    /\ aborted = {} /\ stopping = {} /\ stoppedScopes = {}
    /\ scopeEffect = [s \in Scopes |-> NoEffect]
    /\ now = 0

------------------------------------------------------------------------------
(* Generations and their graphs                                            *)

UnitsOf(g) == {u \in Units : GenOf[u] = g}
Deps(u)    == {v \in UnitsOf(GenOf[u]) : Id[v] \in DepIds[u]}

QueuedOrSettled(g) == {u \in UnitsOf(g) : state[u] # "running"}
Queued(g)     == {u \in UnitsOf(g) : state[u] \in {"blocked", "ready"}}
RunningOf(g)  == {u \in UnitsOf(g) : state[u] = "running"}
AllSettled(g) == \A u \in UnitsOf(g) : state[u] = "settled"

findCycle(g) ==
    \E S \in SUBSET UnitsOf(g) : S # {} /\ \A u \in S : Deps(u) \cap S # {}

(* Distinct identifiers, no edge out of the generation, no cycle.          *)
GraphValid(g) ==
    /\ \A u, v \in UnitsOf(g) : Id[u] = Id[v] => u = v
    /\ \A u \in UnitsOf(g) : DepIds[u] \subseteq {Id[v] : v \in UnitsOf(g)}
    /\ ~ findCycle(g)

QueueHasRoom(g) == Cardinality(waitingUnits) + Cardinality(UnitsOf(g)) <= MaxQueued

------------------------------------------------------------------------------
(* Capacity, priority and admission order                                  *)

effectiveConflictKeys(u) ==
    IF ConflictKeys[u] # {} THEN ConflictKeys[u]
    ELSE IF u \in Observations THEN {} ELSE {GlobalKey}

keysAvailableOneOver(u) == \A k \in effectiveConflictKeys(u) : held[k] <= MaxConcurrentPerKey
keysAvailable(u) == \A k \in effectiveConflictKeys(u) : held[k] < MaxConcurrentPerKey

(* acquireKeys and releaseKeys.                                            *)
acquire(u) ==
    held' = [k \in Keys |-> IF k \in effectiveConflictKeys(u) THEN held[k] + 1 ELSE held[k]]

releaseDeclared(u) ==
    held' = [k \in Keys |-> IF k \in ConflictKeys[u] THEN held[k] - 1 ELSE held[k]]
release(u) ==
    held' = [k \in Keys |-> IF k \in effectiveConflictKeys(u) THEN held[k] - 1 ELSE held[k]]

effectiveRank(u) ==
    LET threshold == IF StarvationThreshold = 0 THEN 1 ELSE StarvationThreshold
        aged      == Priority[u] - (passedOver[u] \div threshold)
    IN  IF aged < 0 THEN 0 ELSE aged

reserved ==
    LET most == IF MaxConcurrent = 0 THEN 0 ELSE MaxConcurrent - 1
    IN  IF ReservedInteractive < most THEN ReservedInteractive ELSE most

SlotFree(u) == running < MaxConcurrent - (IF effectiveRank(u) = 0 THEN 0 ELSE reserved)

higherWaiting(u) ==
    \E v \in waitingUnits \ {u} :
        /\ state[v] = "ready"
        /\ v \notin capacityBlocked
        /\ keysAvailable(v)
        /\ \/ effectiveRank(v) < effectiveRank(u)
           \/ effectiveRank(v) = effectiveRank(u) /\ arrival[v] < arrival[u]

Admissible(u) == SlotFree(u) /\ keysAvailable(u) /\ ~ higherWaiting(u)

(* The head of the list as it was sorted, before any start of this pass.   *)
IsNext(u) ==
    /\ u \in todo
    /\ \A v \in todo \ {u} :
          \/ rankAt[u] < rankAt[v]
          \/ rankAt[u] = rankAt[v] /\ arrival[u] < arrival[v]

lockDeadline(u) ==
    IF DeadlineOf[u] < queuedAt[u] + LockTimeout
    THEN DeadlineOf[u] ELSE queuedAt[u] + LockTimeout

(* Resolves the await of every parked generation.                          *)
notifyCapacityChanged == woken' = woken \cup {g \in Gens : pc[g] = "parked"}

------------------------------------------------------------------------------
(* Submission: schedule() up to its first pass                             *)

Arrive(g) ==
    /\ arrival' = [u \in Units |-> IF GenOf[u] = g THEN nextArrival + Index[u] ELSE arrival[u]]
    /\ nextArrival' = nextArrival + Cardinality(UnitsOf(g))
    /\ queuedAt' = [u \in Units |-> IF GenOf[u] = g THEN now ELSE queuedAt[u]]

(* Bound: a generation arrives while its lock timeout still fits the clock. *)
CanSubmit(g) == active = None /\ pc[g] = "idle" /\ now + LockTimeout <= MaxTime

(* An invalid graph or a full queue refuses every unit and returns.        *)
SubmitRefused(g) ==
    /\ CanSubmit(g)
    /\ ~ (GraphValid(g) /\ QueueHasRoom(g))
    /\ Arrive(g)
    /\ state' = [u \in Units |-> IF GenOf[u] = g THEN "settled" ELSE state[u]]
    /\ result' = [u \in Units |-> IF GenOf[u] = g THEN "refused" ELSE result[u]]
    /\ pc' = [pc EXCEPT ![g] = "done"]
    /\ UNCHANGED <<effect, ran, capacityVars, queueVars, active, todo, rankAt, woken,
                   stopVars, scopeEffect, now>>

Submit(g) ==
    /\ CanSubmit(g)
    /\ GraphValid(g) /\ QueueHasRoom(g)
    /\ Arrive(g)
    /\ state' = [u \in Units |-> IF GenOf[u] = g THEN "blocked" ELSE state[u]]
    /\ waitingUnits' = waitingUnits \cup UnitsOf(g)
    /\ pc' = [pc EXCEPT ![g] = "loop"]
    /\ active' = g
    /\ UNCHANGED <<result, effect, ran, capacityVars, passedOver, capacityBlocked, todo,
                   rankAt, woken, stopVars, scopeEffect, now>>

------------------------------------------------------------------------------
(* One iteration of the generation loop                                    *)

(* Leaving the loop: tell the others, forget the waiting entries, return.  *)
LeaveLoop(g) ==
    /\ pc' = [pc EXCEPT ![g] = "done"]
    /\ active' = None
    /\ notifyCapacityChanged
    /\ waitingUnits' = waitingUnits \ UnitsOf(g)

Return(g) ==
    /\ active = g /\ pc[g] = "loop"
    /\ AllSettled(g)
    /\ LeaveLoop(g)
    /\ UNCHANGED <<unitVars, ran, capacityVars, passedOver, capacityBlocked, arrivalVars,
                   todo, rankAt, stopVars, scopeEffect, now>>

(* The caller's signal fired: what is queued settles as cancelled with no  *)
(* effect; what runs is drained, without leaving the waiting list.         *)
CancelQueued(g) ==
    /\ active = g /\ pc[g] = "loop"
    /\ ~ AllSettled(g)
    /\ g \in aborted
    /\ state' = [u \in Units |-> IF u \in Queued(g) THEN "settled" ELSE state[u]]
    /\ result' = [u \in Units |-> IF u \in Queued(g) THEN "cancelled" ELSE result[u]]
    /\ IF RunningOf(g) # {}
       THEN /\ pc' = [pc EXCEPT ![g] = "draining"]
            /\ active' = None
            /\ UNCHANGED <<woken, waitingUnits>>
       ELSE LeaveLoop(g)
    /\ UNCHANGED <<effect, ran, capacityVars, passedOver, capacityBlocked, arrivalVars,
                   todo, rankAt, stopVars, scopeEffect, now>>

Expired(g) == {u \in Queued(g) : now >= DeadlineOf[u]}

DepsSettled(u)   == \A d \in Deps(u) : state[d] = "settled"
DepsCompleted(u) == \A d \in Deps(u) : result[d] = "completed"

(* The promotion sweep visits entries once, in list order: a refusal is    *)
(* seen by the entries after it in the list, not by those before it.       *)
DependencyIgnored(g, blocked, R) == R = {}
DependencyFailed(g, blocked, R) ==
    \A u \in blocked :
        u \in R <=> /\ \A d \in Deps(u) : \/ state[d] = "settled"
                                          \/ d \in Expired(g)
                                          \/ d \in R /\ Index[d] < Index[u]
                    /\ ~ DepsCompleted(u)

BeginPass(g) ==
    /\ active = g /\ pc[g] = "loop"
    /\ ~ AllSettled(g)
    /\ g \notin aborted
    /\ LET blocked  == {u \in Queued(g) : state[u] = "blocked"} \ Expired(g)
           promoted == {u \in blocked : DepsCompleted(u)}
       IN  \E R \in SUBSET blocked :
             /\ DependencyFailed(g, blocked, R)
             /\ state' = [u \in Units |->
                    IF u \in Expired(g) \cup R THEN "settled"
                    ELSE IF u \in promoted THEN "ready" ELSE state[u]]
             /\ result' = [u \in Units |->
                    IF u \in Expired(g) THEN "timed-out"
                    ELSE IF u \in R THEN "refused" ELSE result[u]]
    /\ waitingUnits' = waitingUnits \ Expired(g)
    /\ todo' = {u \in UnitsOf(g) : state'[u] = "ready"}
    /\ rankAt' = [u \in Units |-> IF u \in todo' THEN effectiveRank(u) ELSE 0]
    /\ pc' = [pc EXCEPT ![g] = "admit"]
    /\ UNCHANGED <<effect, ran, capacityVars, passedOver, capacityBlocked, arrivalVars,
                   active, woken, stopVars, scopeEffect, now>>

Visit(u) == active # None /\ IsNext(u) /\ todo' = todo \ {u}

Skip(u) ==
    /\ Visit(u)
    /\ ~ Admissible(u)
    /\ UNCHANGED <<unitVars, ran, capacityVars, queueVars, arrivalVars, pc, active, rankAt,
                   woken, stopVars, scopeEffect, now>>

(* start(): admit() answered wait.  The first such answer lets the units   *)
(* behind this one be reconsidered.                                        *)
AdmitWait(u) ==
    /\ Visit(u)
    /\ Admissible(u)
    /\ "wait" \in Admission[u]
    /\ IF u \in capacityBlocked THEN UNCHANGED woken ELSE notifyCapacityChanged
    /\ capacityBlocked' = capacityBlocked \cup {u}
    /\ UNCHANGED <<unitVars, ran, capacityVars, waitingUnits, passedOver, arrivalVars, pc,
                   active, rankAt, stopVars, scopeEffect, now>>

(* start(): admit() refused, or the budget could not be reserved.          *)
AdmitRefused(u) ==
    /\ Visit(u)
    /\ Admissible(u)
    /\ \/ "refused" \in Admission[u]
       \/ "ready" \in Admission[u] /\ budgetLeft = 0
    /\ state' = [state EXCEPT ![u] = "settled"]
    /\ result' = [result EXCEPT ![u] = "refused"]
    /\ UNCHANGED <<effect, ran, capacityVars, queueVars, arrivalVars, pc, active, rankAt,
                   woken, stopVars, scopeEffect, now>>

(* start(): take the budget, the keys and a slot, age everybody left       *)
(* waiting, bind to the scope (a stopped one stops the unit at once).      *)
Start(u) ==
    /\ Visit(u)
    /\ Admissible(u)
    /\ "ready" \in Admission[u] /\ budgetLeft > 0
    /\ budgetLeft' = budgetLeft - 1
    /\ acquire(u)
    /\ running' = running + 1
    /\ state' = [state EXCEPT ![u] = "running"]
    /\ waitingUnits' = waitingUnits \ {u}
    /\ passedOver' = [v \in Units |->
          IF v \in waitingUnits \ {u} THEN passedOver[v] + 1 ELSE passedOver[v]]
    /\ stopping' = IF ScopeOf[u] \in stoppedScopes THEN stopping \cup {u} ELSE stopping
    /\ ran' = ran \cup {u}
    /\ UNCHANGED <<result, effect, capacityBlocked, arrivalVars, pc, active, rankAt, woken,
                   aborted, stoppedScopes, scopeEffect, now>>

PassDone(g) == active = g /\ pc[g] = "admit" /\ todo = {}

SyncWaitingNot(g) == waitingUnits
SyncWaiting(g) == (waitingUnits \ UnitsOf(g)) \cup Queued(g)

LockNeverExpires(g) == {u \in UnitsOf(g) : state[u] = "ready" /\ now >= DeadlineOf[u]}
LockExpired(g) == {u \in UnitsOf(g) : state[u] = "ready" /\ now >= lockDeadline(u)}

(* Waiting past the lock deadline refuses the unit; the loop goes round.   *)
RefuseLate(g) ==
    /\ PassDone(g)
    /\ LockExpired(g) # {}
    /\ state' = [u \in Units |-> IF u \in LockExpired(g) THEN "settled" ELSE state[u]]
    /\ result' = [u \in Units |-> IF u \in LockExpired(g) THEN "refused" ELSE result[u]]
    /\ waitingUnits' = SyncWaiting(g)
    /\ pc' = [pc EXCEPT ![g] = "loop"]
    /\ rankAt' = [u \in Units |-> 0]
    /\ UNCHANGED <<effect, ran, capacityVars, passedOver, capacityBlocked, arrivalVars,
                   active, todo, woken, stopVars, scopeEffect, now>>

(* Everything settled during the pass: break out of the loop.              *)
ReturnAfterPass(g) ==
    /\ PassDone(g)
    /\ AllSettled(g)
    /\ LeaveLoop(g)
    /\ rankAt' = [u \in Units |-> 0]
    /\ UNCHANGED <<unitVars, ran, capacityVars, passedOver, capacityBlocked, arrivalVars,
                   todo, stopVars, scopeEffect, now>>

(* Otherwise wait for capacity, for an own unit, or for the lock timer.    *)
Park(g) ==
    /\ PassDone(g)
    /\ LockExpired(g) = {}
    /\ ~ AllSettled(g)
    /\ waitingUnits' = SyncWaiting(g)
    /\ pc' = [pc EXCEPT ![g] = "parked"]
    /\ active' = None
    /\ rankAt' = [u \in Units |-> 0]
    /\ UNCHANGED <<unitVars, ran, capacityVars, passedOver, capacityBlocked, arrivalVars,
                   todo, woken, stopVars, scopeEffect, now>>

(* The await resolved, or its lock timer fired.                            *)
Resume(g) ==
    /\ active = None
    /\ \/ pc[g] \in {"parked", "draining"} /\ g \in woken
       \/ pc[g] = "parked" /\ LockExpired(g) # {}
    /\ pc' = [pc EXCEPT ![g] = "loop"]
    /\ active' = g
    /\ woken' = woken \ {g}
    /\ UNCHANGED <<unitVars, ran, capacityVars, queueVars, arrivalVars, todo, rankAt,
                   stopVars, scopeEffect, now>>

------------------------------------------------------------------------------
(* A running unit ends                                                     *)

stoppedEffectNone(u) == NoEffect
stoppedEffect(u) == IF u \in Observations THEN NoEffect ELSE UncertainEffect

(* finish(): release keys and slot, settle the budget, record the effect   *)
(* on the scope, wake the parked generations and the unit's own.           *)
finish(u, kind, unitEffect) ==
    /\ active = None
    /\ state[u] = "running"
    /\ release(u)
    /\ running' = running - 1
    /\ budgetLeft' = IF kind = "completed" THEN budgetLeft ELSE budgetLeft + 1
    /\ state' = [state EXCEPT ![u] = "settled"]
    /\ result' = [result EXCEPT ![u] = kind]
    /\ effect' = [effect EXCEPT ![u] = unitEffect]
    /\ scopeEffect' = [s \in Scopes |->
          IF s = ScopeOf[u] THEN worstEffect(scopeEffect[s], unitEffect) ELSE scopeEffect[s]]
    /\ woken' = woken \cup {g \in Gens : pc[g] = "parked"} \cup {GenOf[u]}
    /\ UNCHANGED <<ran, queueVars, arrivalVars, pc, active, todo, rankAt, stopVars, now>>

(* The runner's promise resolved.  It may win the race against an abort    *)
(* or a deadline that fired after it.                                      *)
RunnerCompletes(u) == finish(u, "completed", CompletedEffect)

RunnerFails(u) == finish(u, "failed", stoppedEffect(u))

UnitExpires(u) == now >= DeadlineOf[u] /\ finish(u, "timed-out", stoppedEffect(u))

UnitAwaited(u) == u \in stopping /\ UnitExpires(u)
(* A runner that ignores its signal is abandoned, not awaited.             *)
UnitAbandoned(u) == u \in stopping /\ finish(u, "cancelled", stoppedEffect(u))

------------------------------------------------------------------------------
(* The environment                                                         *)

AbortUnheard(g) ==
    /\ active = None
    /\ g \notin aborted
    /\ pc[g] # "done"
    /\ aborted' = aborted \cup {g}
    /\ stopping' = stopping \cup RunningOf(g)
    /\ UNCHANGED <<unitVars, ran, capacityVars, queueVars, arrivalVars, loopVars,
                   stoppedScopes, scopeEffect, now>>
(* The caller aborts schedule(): wakes the waiters, stops running units.   *)
Abort(g) ==
    /\ active = None
    /\ g \notin aborted
    /\ pc[g] # "done"
    /\ aborted' = aborted \cup {g}
    /\ stopping' = stopping \cup RunningOf(g)
    /\ IF pc[g] = "idle" THEN UNCHANGED woken ELSE notifyCapacityChanged
    /\ UNCHANGED <<unitVars, ran, capacityVars, queueVars, arrivalVars, pc, active, todo,
                   rankAt, stoppedScopes, scopeEffect, now>>

(* A scope's signal fires: its running units stop; queued ones stay queued. *)
StopScope(s) ==
    /\ active = None
    /\ s \notin stoppedScopes
    /\ stoppedScopes' = stoppedScopes \cup {s}
    /\ stopping' = stopping \cup {u \in Units : state[u] = "running" /\ ScopeOf[u] = s}
    /\ UNCHANGED <<unitVars, ran, capacityVars, queueVars, arrivalVars, loopVars, aborted,
                   scopeEffect, now>>

(* options.capacityChanges: every generation under way clears its flags.   *)
CapacityChanges ==
    /\ active = None
    /\ capacityBlocked' = {u \in capacityBlocked : pc[GenOf[u]] = "done"}
    /\ notifyCapacityChanged
    /\ UNCHANGED <<unitVars, ran, capacityVars, waitingUnits, passedOver, arrivalVars, pc,
                   active, todo, rankAt, stopVars, scopeEffect, now>>

Tick ==
    /\ now < MaxTime
    /\ now' = now + 1
    /\ UNCHANGED <<unitVars, ran, capacityVars, queueVars, arrivalVars, loopVars, stopVars,
                   scopeEffect>>

------------------------------------------------------------------------------
PassStep(g) ==
    \/ Return(g) \/ CancelQueued(g) \/ BeginPass(g)
    \/ RefuseLate(g) \/ ReturnAfterPass(g) \/ Park(g)

VisitStep(u) == Skip(u) \/ AdmitWait(u) \/ AdmitRefused(u) \/ Start(u)

Next ==
    \/ \E g \in Gens : \/ SubmitRefused(g) \/ Submit(g) \/ PassStep(g) \/ Resume(g) \/ Abort(g)
    \/ \E u \in Units : \/ VisitStep(u) \/ RunnerCompletes(u) \/ RunnerFails(u)
                        \/ UnitExpires(u) \/ UnitAbandoned(u)
    \/ \E s \in Scopes : StopScope(s)
    \/ CapacityChanges
    \/ Tick

Spec == Init /\ [][Next]_vars

(* The event loop runs a pass to its end, delivers every resolved await    *)
(* and every fired timer (promise jobs are first in, first out, so none is *)
(* overtaken for ever), and time passes.  No runner ever has to settle.    *)
Fairness ==
    /\ WF_vars((\E g \in Gens : PassStep(g)) \/ (\E u \in Units : VisitStep(u)))
    /\ \A g \in Gens : SF_vars(Resume(g))
    /\ SF_vars(\E u \in Units : UnitExpires(u) \/ UnitAbandoned(u))
    /\ WF_vars(Tick)

FairSpec == Spec /\ Fairness

(* Runners that eventually settle, as a caller's own work does.            *)
RunnersSettle == SF_vars(\E u \in Units : RunnerCompletes(u) \/ RunnerFails(u))

FairRunnersSpec == FairSpec /\ RunnersSettle

------------------------------------------------------------------------------
(* Properties                                                              *)

RunningUnits == {u \in Units : state[u] = "running"}
HoldersOf(k) == {u \in RunningUnits : k \in effectiveConflictKeys(u)}
Completed    == {u \in Units : result[u] = "completed"}

(* The counters the admission test reads (held, running, the budget) agree *)
(* with the units that really run, through every start, settlement, abort  *)
(* and refusal of every generation: nothing is leaked or released twice.   *)
Accounting ==
    /\ \A k \in Keys : held[k] = Cardinality(HoldersOf(k))
    /\ running = Cardinality(RunningUnits)
    /\ budgetLeft + Cardinality(RunningUnits) + Cardinality(Completed) = Budget

(* No conflict key has more running holders than the limit, no more units  *)
(* run than the cap, and units that are not (aged to) interactive leave    *)
(* the reserved slots free, whichever generations they belong to.          *)
CapsRespected ==
    /\ \A k \in Keys : Cardinality(HoldersOf(k)) <= MaxConcurrentPerKey
    /\ Cardinality(RunningUnits) <= MaxConcurrent
    /\ Cardinality({u \in RunningUnits : effectiveRank(u) > 0}) <= MaxConcurrent - reserved

(* A runner is called only after every dependency of its unit completed:   *)
(* never beside one, and never after one was refused, cancelled or failed. *)
DependencyOrder ==
    \A u \in ran : \A d \in Deps(u) : result[d] = "completed"

(* What a unit reports about the world is what happened: a unit that never *)
(* ran changed nothing, a unit refused never ran, a mutation that was      *)
(* stopped after it started is uncertain, and its scope has been told.     *)
EffectHonest ==
    \A u \in Units : state[u] = "settled" =>
        /\ u \notin ran => effect[u] = NoEffect
        /\ result[u] = "refused" => u \notin ran
        /\ u \in ran \ Observations =>
              effect[u] = IF result[u] = "completed" THEN CompletedEffect ELSE UncertainEffect
        /\ ScopeOf[u] # None => scopeEffect[ScopeOf[u]] >= effect[u]

(* The waiting list stays within maxQueued and names every unit that       *)
(* waits; between passes a settled unit is on it only while its aborted    *)
(* generation drains; and however often a unit was passed over, aging      *)
(* leaves its rank between interactive and its own class.                  *)
QueueHonest ==
    /\ Cardinality(waitingUnits) <= MaxQueued
    /\ \A u \in Units : state[u] \in {"blocked", "ready"} => u \in waitingUnits
    /\ active = None => \A u \in waitingUnits :
          state[u] \in {"blocked", "ready"} \/ pc[GenOf[u]] = "draining"
    /\ \A u \in waitingUnits : effectiveRank(u) \in 0 .. Priority[u]

(* A stop is never lost on the loops: a running unit whose caller aborted  *)
(* or whose scope stopped has its signal, also when it was started later;  *)
(* no aborted generation sleeps through its abort, and one that drains     *)
(* still has a unit whose end wakes it.                                    *)
StopIsHeard ==
    /\ \A u \in RunningUnits :
          (GenOf[u] \in aborted \/ ScopeOf[u] \in stoppedScopes) => u \in stopping
    /\ \A g \in aborted : pc[g] = "parked" => g \in woken
    /\ \A g \in Gens : pc[g] = "draining" => g \in woken \/ RunningOf(g) # {}

(* A settled unit keeps its result and effect: neither a late runner, an   *)
(* abort nor another pass rewrites what a caller may already have read.    *)
SettledIsFinal ==
    [][\A u \in Units : state[u] = "settled" =>
          state'[u] = "settled" /\ result'[u] = result[u] /\ effect'[u] = effect[u]]_vars

(* The scheduler implements the abstract admission of WorkAdmission: being *)
(* submitted, blocked or ready is waiting there, and the counters start()  *)
(* tests stand for the units that really run.                              *)
WA == INSTANCE WorkAdmission WITH
    phase   <- [u \in Units |-> IF state[u] \in {"running", "settled"} THEN state[u] ELSE "waiting"],
    verdict <- result,
    DepsOf  <- [u \in Units |-> Deps(u)],
    KeysOf  <- [u \in Units |-> effectiveConflictKeys(u)],
    PerKey  <- MaxConcurrentPerKey,
    Cap     <- MaxConcurrent

(* Every behaviour of the passes is, seen from a caller, one of            *)
(* WorkAdmission: no pass, abort or wake-up starts a unit early, twice or  *)
(* over a limit, or settles one it may not.                                *)
ImplementsWorkAdmission == WA!Spec

(* A unit without dependencies is started or settled even when no runner   *)
(* ever returns: the lock deadline turns a wait into a refusal.            *)
WaitIsBounded ==
    \A u \in Units : Deps(u) = {} =>
        (state[u] \in {"blocked", "ready"} ~> state[u] \in {"running", "settled"})

(* An aborted schedule() returns although its runners ignore their signal. *)
AbortReturns ==
    \A g \in Gens : (g \in aborted /\ pc[g] # "idle") ~> pc[g] = "done"

(* A dependency listed before its dependents, and no refusal by start().   *)
ListedInOrder(g) ==
    \A u \in UnitsOf(g) : /\ \A d \in Deps(u) : Index[d] < Index[u]
                         /\ "refused" \notin Admission[u]

(* With runners that settle, a generation listed in dependency order whose *)
(* units start() cannot refuse always returns to its caller.               *)
OrderedGenerationReturns ==
    RunnersSettle => \A g \in Gens :
        ListedInOrder(g) /\ Budget >= Cardinality(Units)
            => (pc[g] # "idle" ~> pc[g] = "done")

(* scheduler.ts: "Cancelling a scope then cancels its queued and running   *)
(* units": no runner is called once the scope of its unit was cancelled.   *)
StoppedScopeStartsNothing ==
    [][\A u \in ran' \ ran : ScopeOf[u] \notin stoppedScopes]_vars

(* scheduler.test.ts: "every unit reaches a terminal state".               *)
EveryUnitSettles ==
    \A u \in Units : state[u] # "idle" ~> state[u] = "settled"

(* "one that is fully blocked has to be told when the other made room": no *)
(* parked generation has a unit that could start once all awaits resumed.  *)
NoMissedWakeUp ==
    (active = None /\ woken = {}) => \A g \in Gens : pc[g] = "parked" =>
        ~ \E u \in UnitsOf(g) : state[u] = "ready" /\ u \notin capacityBlocked /\ Admissible(u)
==============================================================================
