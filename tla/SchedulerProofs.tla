--------------------------- MODULE SchedulerProofs ---------------------------
(***************************************************************************)
(* Proofs about the scheduler for every set of generations, units, keys    *)
(* and limits.  The inductive invariant joins the counters the admission   *)
(* test reads with the life cycle of a unit.                               *)
(***************************************************************************)
EXTENDS Scheduler, FiniteSetTheorems, TLAPS

------------------------------------------------------------------------------
(* The inductive invariant                                                 *)

(* Where the generations' loops, the sorted list and the waiting list are. *)
Control ==
    /\ \A g \in Gens : pc[g] = "idle" => \A u \in UnitsOf(g) : state[u] = "idle"
    /\ \A u \in todo : state[u] = "ready" /\ GenOf[u] = active /\ pc[active] = "admit"
    /\ \A u \in Units : state[u] \in {"blocked", "ready"} => u \in waitingUnits
    /\ \A u \in waitingUnits : \/ state[u] \in {"blocked", "ready"}
                               \/ GenOf[u] = active
                               \/ pc[GenOf[u]] = "draining"

(* Where a unit is in its life: nothing is decided about it before it      *)
(* settles, only a unit that ran is or was running, and a unit is ready    *)
(* only once its dependencies completed.                                   *)
LifeCycle ==
    /\ \A u \in Units : state[u] # "settled" => result[u] = "pending" /\ effect[u] = NoEffect
    /\ \A u \in Units : state[u] = "running" => u \in ran /\ u \notin waitingUnits
    /\ \A u \in ran : state[u] \in {"running", "settled"}
    /\ \A u \in Units : (state[u] = "ready" \/ u \in ran) =>
          \A x \in Deps(u) : result[x] = "completed"

QueueBounded == Cardinality(waitingUnits) <= MaxQueued

IInv ==
    /\ TypeOK
    /\ Control
    /\ LifeCycle
    /\ QueueBounded
    /\ Accounting /\ CapsRespected
    /\ EffectHonest

------------------------------------------------------------------------------
(* The three shapes a step can have for a unit                             *)

(* A step of the loop or of the environment moves units towards running or *)
(* settles them unrun; it neither starts nor ends one, and only Submit     *)
(* adds to the waiting list.                                               *)
UnitMoves ==
    /\ UNCHANGED <<effect, ran, capacityVars, passedOver, scopeEffect>>
    /\ waitingUnits' \subseteq waitingUnits \/ \E g \in Gens : Submit(g)
    /\ \A u \in Units :
         \/ state'[u] = state[u] /\ result'[u] = result[u]
         \/ state[u] = "idle" /\ state'[u] = "blocked" /\ result'[u] = result[u]
         \/ /\ state[u] = "blocked" /\ state'[u] = "ready" /\ result'[u] = result[u]
            /\ \A x \in Deps(u) : result[x] = "completed"
         \/ /\ state[u] \in {"idle", "blocked", "ready"} /\ state'[u] = "settled"
            /\ result'[u] \in {"refused", "cancelled", "timed-out"}

Ends(u, kind) ==
    /\ kind \in {"completed", "failed", "timed-out", "cancelled"}
    /\ finish(u, kind, IF kind = "completed" THEN CompletedEffect ELSE stoppedEffect(u))

(* The actions of the control loop and of the environment.                 *)
MoveActions ==
    \/ \E g \in Gens : \/ SubmitRefused(g) \/ Submit(g) \/ PassStep(g) \/ Resume(g) \/ Abort(g)
    \/ \E u \in Units : Skip(u) \/ AdmitWait(u) \/ AdmitRefused(u)
    \/ \E s \in Scopes : StopScope(s)
    \/ CapacityChanges
    \/ Tick

LEMMA NextShapes ==
    ASSUME Next
    PROVE  \/ MoveActions
           \/ \E u \in Units : Start(u)
           \/ \E u \in Units : \E kind \in Results : Ends(u, kind)
<1>1. \A u \in Units :
        (RunnerCompletes(u) \/ RunnerFails(u) \/ UnitExpires(u) \/ UnitAbandoned(u))
           => \E kind \in Results : Ends(u, kind)
  BY DEF RunnerCompletes, RunnerFails, UnitExpires, UnitAbandoned, Ends, Results
<1> QED
  BY <1>1 DEF Next, VisitStep, MoveActions

------------------------------------------------------------------------------
(* Facts about the operators                                               *)

(* Aging leaves a unit between interactive and its own class.              *)
LEMMA RankType ==
    ASSUME TypeOK, NEW u \in Units
    PROVE  effectiveRank(u) \in 0 .. Priority[u] /\ effectiveRank(u) \in 0 .. 3
<1> DEFINE threshold == IF StarvationThreshold = 0 THEN 1 ELSE StarvationThreshold
<1>1. threshold \in Nat /\ threshold > 0
  BY LimitsAssumption
<1>2. passedOver[u] \in Nat /\ Priority[u] \in 0 .. 3
  BY UnitsAssumption DEF TypeOK
<1>3. \A p, t \in Nat : t > 0 => p \div t \in Nat
  OBVIOUS
<1>4. passedOver[u] \div threshold \in Nat
  BY <1>1, <1>2, <1>3
<1> QED
  BY <1>2, <1>4 DEF effectiveRank

(* Subsets of the units are finite, so their cardinalities are numbers.    *)
LEMMA UnitSets ==
    ASSUME NEW S \in SUBSET Units
    PROVE  IsFiniteSet(S) /\ Cardinality(S) \in Nat
BY UnitsAssumption, FS_Subset, FS_CardinalityType

(* The worse of two effects is at least each of them.                      *)
LEMMA WorstEffectUp ==
    \A a, b \in EffectCertainty :
        /\ worstEffect(a, b) \in EffectCertainty
        /\ worstEffect(a, b) >= a /\ worstEffect(a, b) >= b
BY DEF EffectCertainty, NoEffect, UncertainEffect, worstEffect

LEMMA EffectOrder ==
    /\ \A a \in EffectCertainty : a >= a
    /\ \A a, b, c \in EffectCertainty : a >= b /\ b >= c => a >= c
BY DEF EffectCertainty, NoEffect, UncertainEffect

(* Some slot is never reserved.                                            *)
LEMMA ReservedBound == reserved \in Nat /\ MaxConcurrent - reserved \in Nat
BY LimitsAssumption DEF reserved

------------------------------------------------------------------------------
(* A step that starts and ends no unit leaves the counters right.          *)
LEMMA MovesCount ==
    ASSUME IInv, UnitMoves
    PROVE  Accounting' /\ CapsRespected'
<1> USE DEF IInv
<1>1. RunningUnits' = RunningUnits
  BY DEF UnitMoves, RunningUnits
<1>2. Completed' = Completed
  BY DEF UnitMoves, Completed, LifeCycle
<1>3. \A k \in Keys : HoldersOf(k)' = HoldersOf(k)
  BY <1>1 DEF HoldersOf
<1>4. {u \in RunningUnits : effectiveRank(u) > 0}' = {u \in RunningUnits : effectiveRank(u) > 0}
  BY <1>1 DEF effectiveRank, UnitMoves
<1> QED
  BY <1>1, <1>2, <1>3, <1>4 DEF Accounting, CapsRespected, UnitMoves, capacityVars

(* Starting a unit the pass found admissible counts it on every counter    *)
(* and stays within every cap.                                             *)
LEMMA StartCounts ==
    ASSUME IInv, NEW u \in Units, Start(u)
    PROVE  Accounting' /\ CapsRespected'
<1> USE DEF IInv
<1>1. u \notin RunningUnits /\ u \notin Completed /\ state[u] = "ready"
  BY DEF Control, LifeCycle, RunningUnits, Completed, Start, Visit, IsNext
<1>2. RunningUnits' = RunningUnits \cup {u}
  BY DEF Start, RunningUnits, TypeOK
<1>3. Completed' = Completed
  BY DEF Start, Completed
<1>4. \A k \in Keys : HoldersOf(k)' = IF k \in effectiveConflictKeys(u)
                                      THEN HoldersOf(k) \cup {u} ELSE HoldersOf(k)
  BY <1>2 DEF HoldersOf, effectiveConflictKeys
<1>5. RunningUnits \in SUBSET Units /\ \A k \in Keys : HoldersOf(k) \in SUBSET RunningUnits
  BY DEF RunningUnits, HoldersOf
<1>6. Cardinality(RunningUnits') = Cardinality(RunningUnits) + 1
  BY <1>1, <1>2, <1>5, UnitSets, FS_AddElement
<1>7. \A k \in Keys : Cardinality(HoldersOf(k)') = IF k \in effectiveConflictKeys(u)
                         THEN Cardinality(HoldersOf(k)) + 1 ELSE Cardinality(HoldersOf(k))
  <2>1. SUFFICES ASSUME NEW k \in Keys
                 PROVE  Cardinality(HoldersOf(k) \cup {u}) = Cardinality(HoldersOf(k)) + 1
    BY <1>4
  <2>2. HoldersOf(k) \in SUBSET Units /\ u \notin HoldersOf(k)
    BY <1>1, <1>5
  <2> QED
    BY <2>2, UnitSets, FS_AddElement
<1>8. Accounting'
  <2>1. running' = Cardinality(RunningUnits')
    BY <1>6 DEF Start, Accounting
  <2>2. \A k \in Keys : held'[k] = Cardinality(HoldersOf(k)')
    BY <1>7 DEF Start, acquire, Accounting
  <2>3. budgetLeft' + Cardinality(RunningUnits') + Cardinality(Completed') = Budget
    <3>1. Cardinality(RunningUnits) \in Nat /\ Cardinality(Completed) \in Nat
      BY UnitSets, <1>5 DEF Completed
    <3> QED
      BY <1>3, <1>6, <3>1 DEF Start, Accounting, TypeOK
  <2> QED
    BY <2>1, <2>2, <2>3 DEF Accounting
<1>9. CapsRespected'
  <2> DEFINE Lower == {v \in RunningUnits : effectiveRank(v) > 0}
  <2>1. \A v \in RunningUnits \cup {u} : effectiveRank(v)' = effectiveRank(v)
    <3>1. \A v \in RunningUnits \cup {u} : v \in Units /\ v \notin waitingUnits \ {u}
      BY <1>5 DEF LifeCycle, RunningUnits
    <3>2. \A v \in RunningUnits \cup {u} : passedOver'[v] = passedOver[v]
      BY <3>1 DEF Start
    <3> QED
      BY <3>2 DEF effectiveRank
  <2>2. Lower' = IF effectiveRank(u) > 0 THEN Lower \cup {u} ELSE Lower
    BY <1>2, <2>1
  <2>3. running < MaxConcurrent - (IF effectiveRank(u) = 0 THEN 0 ELSE reserved)
    BY DEF Start, Admissible, SlotFree
  <2>4. effectiveRank(u) \in Nat
    BY RankType
  <2>5. running \in Nat /\ running = Cardinality(RunningUnits)
    BY DEF TypeOK, Accounting
  <2>6. Cardinality(RunningUnits') <= MaxConcurrent
    BY <1>6, <2>3, <2>5, ReservedBound, LimitsAssumption
  <2>7. Cardinality(Lower') <= MaxConcurrent - reserved
    <3>1. CASE effectiveRank(u) > 0
      <4>1. Lower \in SUBSET RunningUnits /\ IsFiniteSet(RunningUnits) /\ IsFiniteSet(Lower)
        BY <1>5, UnitSets
      <4>2. Cardinality(Lower) <= Cardinality(RunningUnits)
        BY <4>1, FS_Subset
      <4>3. Cardinality(Lower \cup {u}) = Cardinality(Lower) + 1
        BY <4>1, <1>1, FS_AddElement
      <4>4. Cardinality(Lower) \in Nat
        BY <4>1, FS_CardinalityType
      <4>5. Cardinality(Lower') = Cardinality(Lower) + 1
        BY <2>2, <3>1, <4>3
      <4>6. running < MaxConcurrent - reserved
        BY <2>3, <2>4, <3>1
      <4> HIDE DEF Lower
      <4> QED
        BY <2>5, <4>2, <4>4, <4>5, <4>6, ReservedBound
    <3>2. CASE ~ (effectiveRank(u) > 0)
      BY <2>2, <3>2 DEF CapsRespected
    <3> QED
      BY <3>1, <3>2
  <2>8. \A k \in Keys : Cardinality(HoldersOf(k)') <= MaxConcurrentPerKey
    <3>1. \A k \in effectiveConflictKeys(u) : held[k] < MaxConcurrentPerKey
      BY DEF Start, Admissible, keysAvailable
    <3> QED
      BY <1>7, <3>1, LimitsAssumption DEF CapsRespected, Accounting, TypeOK
  <2> QED
    BY <2>6, <2>7, <2>8, <1>2 DEF CapsRespected
<1> QED
  BY <1>8, <1>9

(* Whatever ends a unit, its slot and each of its keys is given back once. *)
LEMMA FinishCounts ==
    ASSUME IInv, NEW u \in Units, NEW kind, NEW e, finish(u, kind, e)
    PROVE  Accounting' /\ CapsRespected'
<1> USE DEF IInv
<1>1. u \in RunningUnits /\ u \notin Completed
  BY DEF LifeCycle, RunningUnits, Completed, finish
<1>2. RunningUnits' = RunningUnits \ {u}
  BY DEF finish, RunningUnits, TypeOK
<1>3. Completed' = IF kind = "completed" THEN Completed \cup {u} ELSE Completed
  BY <1>1 DEF finish, Completed, TypeOK
<1>4. \A k \in Keys : HoldersOf(k)' = IF k \in effectiveConflictKeys(u)
                                      THEN HoldersOf(k) \ {u} ELSE HoldersOf(k)
  BY <1>2 DEF HoldersOf, effectiveConflictKeys
<1>5. RunningUnits \in SUBSET Units /\ Completed \in SUBSET Units
      /\ \A k \in Keys : HoldersOf(k) \in SUBSET Units
  BY DEF RunningUnits, HoldersOf, Completed
<1>6. /\ Cardinality(RunningUnits) \in Nat
      /\ Cardinality(RunningUnits') = Cardinality(RunningUnits) - 1
  BY <1>1, <1>2, <1>5, UnitSets, FS_RemoveElement
<1>7. \A k \in Keys : /\ Cardinality(HoldersOf(k)) \in Nat
                      /\ Cardinality(HoldersOf(k)') = IF k \in effectiveConflictKeys(u)
                         THEN Cardinality(HoldersOf(k)) - 1 ELSE Cardinality(HoldersOf(k))
  <2>1. SUFFICES ASSUME NEW k \in Keys
                 PROVE  /\ Cardinality(HoldersOf(k)) \in Nat
                        /\ k \in effectiveConflictKeys(u) =>
                             Cardinality(HoldersOf(k) \ {u}) = Cardinality(HoldersOf(k)) - 1
    BY <1>4
  <2>2. k \in effectiveConflictKeys(u) => u \in HoldersOf(k)
    BY <1>1 DEF HoldersOf
  <2> QED
    BY <1>5, <2>2, UnitSets, FS_RemoveElement
<1>8. /\ Cardinality(Completed) \in Nat
      /\ Cardinality(Completed') = IF kind = "completed" THEN Cardinality(Completed) + 1
                                   ELSE Cardinality(Completed)
  BY <1>1, <1>3, <1>5, UnitSets, FS_AddElement
<1>9. Accounting'
  <2>1. running' = Cardinality(RunningUnits')
    BY <1>6 DEF finish, Accounting
  <2>2. \A k \in Keys : held'[k] = Cardinality(HoldersOf(k)')
    BY <1>7 DEF finish, release, Accounting
  <2>3. budgetLeft' + Cardinality(RunningUnits') + Cardinality(Completed') = Budget
    BY <1>6, <1>8 DEF finish, Accounting, TypeOK
  <2> QED
    BY <2>1, <2>2, <2>3 DEF Accounting
<1>10. CapsRespected'
  <2> DEFINE Lower == {v \in RunningUnits : effectiveRank(v) > 0}
  <2>1. Lower' = Lower \ {u}
    <3>1. \A v : effectiveRank(v)' = effectiveRank(v)
      BY DEF effectiveRank, finish, queueVars
    <3> QED
      BY <1>2, <3>1
  <2>2. Cardinality(Lower) \in Nat /\ Cardinality(Lower') <= Cardinality(Lower)
    <3>1. IsFiniteSet(Lower) /\ Cardinality(Lower) \in Nat
      BY <1>5, UnitSets
    <3>2. Lower \ {u} \in SUBSET Lower
      OBVIOUS
    <3> QED
      BY <2>1, <3>1, <3>2, FS_Subset
  <2>3. Cardinality(Lower') <= MaxConcurrent - reserved
    <3>1. Cardinality(Lower) <= MaxConcurrent - reserved
      BY DEF CapsRespected
    <3>2. Cardinality(Lower') \in Nat
      BY <1>5, <2>1, UnitSets
    <3> QED
      BY <2>2, <3>1, <3>2, ReservedBound
  <2>4. Cardinality(RunningUnits') <= MaxConcurrent
    BY <1>6, LimitsAssumption DEF CapsRespected
  <2>5. \A k \in Keys : Cardinality(HoldersOf(k)') <= MaxConcurrentPerKey
    BY <1>7, LimitsAssumption DEF CapsRespected
  <2> QED
    BY <2>3, <2>4, <2>5 DEF CapsRespected
<1> QED
  BY <1>9, <1>10

------------------------------------------------------------------------------
(* The steps, action by action                                             *)

(* Which actions neither start nor end a unit, and why.                    *)
LEMMA MovesAre ==
    ASSUME IInv, MoveActions
    PROVE  UnitMoves
<1> USE DEF IInv, unitVars, capacityVars, queueVars, arrivalVars, loopVars, stopVars
<1>1. ASSUME NEW g \in Gens, SubmitRefused(g) PROVE UnitMoves
  BY <1>1 DEF SubmitRefused, CanSubmit, UnitMoves, Control, UnitsOf
<1>2. ASSUME NEW g \in Gens, Submit(g) PROVE UnitMoves
  <2>1. \A u \in UnitsOf(g) : state[u] = "idle" /\ state'[u] = "blocked"
    BY <1>2 DEF Submit, CanSubmit, Control, UnitsOf
  <2> QED
    BY <1>2, <2>1 DEF UnitMoves, Submit, UnitsOf
<1>3. ASSUME NEW g \in Gens, Return(g) PROVE UnitMoves
  BY <1>3 DEF Return, LeaveLoop, UnitMoves
<1>4. ASSUME NEW g \in Gens, CancelQueued(g) PROVE UnitMoves
  BY <1>4 DEF CancelQueued, LeaveLoop, Queued, UnitMoves
<1>5. ASSUME NEW g \in Gens, BeginPass(g) PROVE UnitMoves
  BY <1>5 DEF BeginPass, DepsCompleted, Queued, Expired, UnitMoves
<1>6. ASSUME NEW g \in Gens, RefuseLate(g) PROVE UnitMoves
  BY <1>6 DEF RefuseLate, LockExpired, SyncWaiting, Queued, UnitMoves, Control, UnitsOf
<1>7. ASSUME NEW g \in Gens, ReturnAfterPass(g) PROVE UnitMoves
  BY <1>7 DEF ReturnAfterPass, LeaveLoop, UnitMoves
<1>8. ASSUME NEW g \in Gens, Park(g) PROVE UnitMoves
  BY <1>8 DEF Park, SyncWaiting, Queued, UnitMoves, Control, UnitsOf
<1>9. ASSUME NEW g \in Gens, Resume(g) PROVE UnitMoves
  BY <1>9 DEF Resume, UnitMoves
<1>10. ASSUME NEW g \in Gens, Abort(g) PROVE UnitMoves
  BY <1>10 DEF Abort, UnitMoves
<1>11. ASSUME NEW u \in Units, Skip(u) PROVE UnitMoves
  BY <1>11 DEF Skip, UnitMoves
<1>12. ASSUME NEW u \in Units, AdmitWait(u) PROVE UnitMoves
  BY <1>12 DEF AdmitWait, UnitMoves
<1>13. ASSUME NEW u \in Units, AdmitRefused(u) PROVE UnitMoves
  BY <1>13 DEF AdmitRefused, Visit, IsNext, UnitMoves, TypeOK, Control
<1>14. ASSUME NEW s \in Scopes, StopScope(s) PROVE UnitMoves
  BY <1>14 DEF StopScope, UnitMoves
<1>15. CASE CapacityChanges
  BY <1>15 DEF CapacityChanges, UnitMoves
<1>16. CASE Tick
  BY <1>16 DEF Tick, UnitMoves
<1> QED
  BY <1>1, <1>2, <1>3, <1>4, <1>5, <1>6, <1>7, <1>8, <1>9, <1>10, <1>11, <1>12, <1>13,
     <1>14, <1>15, <1>16 DEF MoveActions, PassStep

(* Every step keeps the loops, the sorted list and the waiting list in step. *)
LEMMA ControlStep ==
    ASSUME IInv, Next
    PROVE  Control'
<1> USE DEF IInv, unitVars, capacityVars, queueVars, arrivalVars, loopVars, stopVars
<1>1. ASSUME NEW g \in Gens, SubmitRefused(g) PROVE Control'
  BY <1>1 DEF SubmitRefused, CanSubmit, TypeOK, Control, UnitsOf
<1>2. ASSUME NEW g \in Gens, Submit(g) PROVE Control'
  BY <1>2, UnitsAssumption, ScopesAssumption DEF Submit, CanSubmit, TypeOK, Control, UnitsOf
<1>3. ASSUME NEW g \in Gens, Return(g) PROVE Control'
  BY <1>3 DEF Return, AllSettled, LeaveLoop, TypeOK, Control, UnitsOf
<1>4. ASSUME NEW g \in Gens, CancelQueued(g) PROVE Control'
  BY <1>4, UnitsAssumption DEF CancelQueued, LeaveLoop, Queued, TypeOK, Control, UnitsOf
<1>5. ASSUME NEW g \in Gens, BeginPass(g) PROVE Control'
  BY <1>5 DEF BeginPass, Queued, Expired, TypeOK, Control, UnitsOf
<1>6. ASSUME NEW g \in Gens, RefuseLate(g) PROVE Control'
  BY <1>6 DEF RefuseLate, PassDone, LockExpired, SyncWaiting, Queued, TypeOK, Control,
     UnitsOf
<1>7. ASSUME NEW g \in Gens, ReturnAfterPass(g) PROVE Control'
  BY <1>7 DEF ReturnAfterPass, AllSettled, PassDone, LeaveLoop, TypeOK, Control, UnitsOf
<1>8. ASSUME NEW g \in Gens, Park(g) PROVE Control'
  BY <1>8 DEF Park, PassDone, SyncWaiting, Queued, TypeOK, Control, UnitsOf
<1>9. ASSUME NEW g \in Gens, Resume(g) PROVE Control'
  BY <1>9, UnitsAssumption, ScopesAssumption DEF Resume, TypeOK, Control
<1>10. ASSUME NEW g \in Gens, Abort(g) PROVE Control'
  BY <1>10 DEF Abort, Control
<1>11. ASSUME NEW u \in Units, Skip(u) PROVE Control'
  BY <1>11 DEF Skip, Visit, Control
<1>12. ASSUME NEW u \in Units, AdmitWait(u) PROVE Control'
  BY <1>12 DEF AdmitWait, Visit, Control
<1>13. ASSUME NEW u \in Units, AdmitRefused(u) PROVE Control'
  BY <1>13 DEF AdmitRefused, Visit, IsNext, Control
<1>14. ASSUME NEW u \in Units, Start(u) PROVE Control'
  BY <1>14 DEF Start, Visit, IsNext, TypeOK, Control
<1>15. ASSUME NEW u \in Units, NEW kind \in Results, Ends(u, kind) PROVE Control'
  BY <1>15 DEF Ends, finish, Control
<1>16. ASSUME NEW s \in Scopes, StopScope(s) PROVE Control'
  BY <1>16 DEF StopScope, Control
<1>17. CASE CapacityChanges
  BY <1>17 DEF CapacityChanges, Control
<1>18. CASE Tick
  BY <1>18 DEF Tick, Control
<1> QED
  BY <1>1, <1>2, <1>3, <1>4, <1>5, <1>6, <1>7, <1>8, <1>9, <1>10, <1>11, <1>12, <1>13,
     <1>14, <1>15, <1>16, <1>17, <1>18, NextShapes DEF MoveActions, PassStep

(* Every step keeps the types.                                             *)
LEMMA TypeStep ==
    ASSUME IInv, Next
    PROVE  TypeOK'
<1> USE DEF IInv, unitVars, capacityVars, queueVars, arrivalVars, loopVars, stopVars
<1>1. ASSUME NEW g \in Gens, SubmitRefused(g) PROVE TypeOK'
  <2>1. Cardinality(UnitsOf(g)) \in Nat
    BY UnitSets DEF UnitsOf
  <2>2. arrival' \in [Units -> Nat] /\ nextArrival' \in Nat /\ queuedAt' \in [Units -> Nat]
    BY <1>1, <2>1, UnitsAssumption, LimitsAssumption DEF TypeOK, SubmitRefused, Arrive
  <2> QED
    BY <1>1, <2>2 DEF TypeOK, SubmitRefused, States, Results, PCs
<1>2. ASSUME NEW g \in Gens, Submit(g) PROVE TypeOK'
  <2>1. Cardinality(UnitsOf(g)) \in Nat
    BY UnitSets DEF UnitsOf
  <2>2. arrival' \in [Units -> Nat] /\ nextArrival' \in Nat /\ queuedAt' \in [Units -> Nat]
    BY <1>2, <2>1, UnitsAssumption, LimitsAssumption DEF TypeOK, Submit, Arrive
  <2> QED
    BY <1>2, <2>2 DEF TypeOK, Submit, UnitsOf, States, PCs
<1>3. ASSUME NEW g \in Gens, Return(g) PROVE TypeOK'
  BY <1>3 DEF TypeOK, Return, LeaveLoop, notifyCapacityChanged, PCs
<1>4. ASSUME NEW g \in Gens, CancelQueued(g) PROVE TypeOK'
  BY <1>4 DEF TypeOK, CancelQueued, LeaveLoop, notifyCapacityChanged, States, Results, PCs
<1>5. ASSUME NEW g \in Gens, BeginPass(g) PROVE TypeOK'
  <2>1. \A u \in Units : effectiveRank(u) \in 0 .. 3
    BY RankType
  <2>2. rankAt' \in [Units -> 0 .. 3] /\ todo' \subseteq Units
    BY <1>5, <2>1 DEF BeginPass, UnitsOf
  <2>3. state' \in [Units -> States] /\ result' \in [Units -> Results]
    BY <1>5 DEF TypeOK, BeginPass, States, Results
  <2> QED
    BY <1>5, <2>2, <2>3 DEF TypeOK, BeginPass, PCs
<1>6. ASSUME NEW g \in Gens, RefuseLate(g) PROVE TypeOK'
  BY <1>6 DEF TypeOK, RefuseLate, SyncWaiting, Queued, UnitsOf, States, Results, PCs
<1>7. ASSUME NEW g \in Gens, ReturnAfterPass(g) PROVE TypeOK'
  BY <1>7 DEF TypeOK, ReturnAfterPass, LeaveLoop, notifyCapacityChanged, PCs
<1>8. ASSUME NEW g \in Gens, Park(g) PROVE TypeOK'
  BY <1>8 DEF TypeOK, Park, SyncWaiting, Queued, UnitsOf, PCs
<1>9. ASSUME NEW g \in Gens, Resume(g) PROVE TypeOK'
  BY <1>9 DEF TypeOK, Resume, PCs
<1>10. ASSUME NEW g \in Gens, Abort(g) PROVE TypeOK'
  BY <1>10 DEF TypeOK, Abort, notifyCapacityChanged, RunningOf, UnitsOf
<1>11. ASSUME NEW u \in Units, Skip(u) PROVE TypeOK'
  BY <1>11 DEF TypeOK, Skip, Visit
<1>12. ASSUME NEW u \in Units, AdmitWait(u) PROVE TypeOK'
  BY <1>12 DEF TypeOK, AdmitWait, Visit, notifyCapacityChanged
<1>13. ASSUME NEW u \in Units, AdmitRefused(u) PROVE TypeOK'
  BY <1>13 DEF TypeOK, AdmitRefused, Visit, States, Results
<1>14. ASSUME NEW u \in Units, Start(u) PROVE TypeOK'
  <2>1. held' \in [Keys -> Nat] /\ running' \in Nat /\ budgetLeft' \in Nat
    BY <1>14 DEF TypeOK, Start, acquire
  <2>2. passedOver' \in [Units -> Nat] /\ state' \in [Units -> States]
    BY <1>14 DEF TypeOK, Start, States
  <2> QED
    BY <1>14, <2>1, <2>2 DEF TypeOK, Start, Visit
<1>15. ASSUME NEW u \in Units, NEW kind \in Results, Ends(u, kind) PROVE TypeOK'
  <2> DEFINE e == IF kind = "completed" THEN CompletedEffect ELSE stoppedEffect(u)
  <2>1. e \in EffectCertainty
    BY DEF stoppedEffect, EffectCertainty, NoEffect, CompletedEffect, UncertainEffect
  <2>2. finish(u, kind, e)
    BY <1>15 DEF Ends
  <2> HIDE DEF e
  <2>3. Accounting'
    BY <2>2, FinishCounts
  <2>4. RunningUnits' \in SUBSET Units /\ \A k \in Keys : HoldersOf(k)' \in SUBSET Units
    BY DEF RunningUnits, HoldersOf
  <2>5. running' \in Nat /\ \A k \in Keys : held'[k] \in Nat
    BY <2>3, <2>4, UnitSets DEF Accounting
  <2>6. held' \in [Keys -> Nat] /\ budgetLeft' \in Nat
    BY <2>2, <2>5 DEF finish, release, TypeOK
  <2>7. scopeEffect' \in [Scopes -> EffectCertainty] /\ effect' \in [Units -> EffectCertainty]
    BY <2>1, <2>2 DEF finish, TypeOK, worstEffect
  <2> QED
    BY <2>2, <2>5, <2>6, <2>7, UnitsAssumption DEF TypeOK, finish, States
<1>16. ASSUME NEW s \in Scopes, StopScope(s) PROVE TypeOK'
  BY <1>16 DEF TypeOK, StopScope
<1>17. CASE CapacityChanges
  BY <1>17 DEF TypeOK, CapacityChanges, notifyCapacityChanged
<1>18. CASE Tick
  BY <1>18, LimitsAssumption DEF TypeOK, Tick
<1> QED
  BY <1>1, <1>2, <1>3, <1>4, <1>5, <1>6, <1>7, <1>8, <1>9, <1>10, <1>11, <1>12, <1>13,
     <1>14, <1>15, <1>16, <1>17, <1>18, NextShapes DEF MoveActions, PassStep

(* Every step keeps a unit in its life cycle.                              *)
LEMMA LifeCycleStep ==
    ASSUME IInv, Next
    PROVE  LifeCycle'
<1> USE DEF IInv
<1>1. CASE MoveActions
  <2>1. UnitMoves
    BY <1>1, MovesAre
  <2>2. \A u \in Units : state[u] = "running" => u \notin waitingUnits'
    BY <2>1 DEF UnitMoves, LifeCycle, Submit, UnitsOf
  <2>3. \A u \in Units : result[u] = "completed" => result'[u] = "completed"
    BY <2>1 DEF UnitMoves, LifeCycle
  <2> QED
    BY <2>1, <2>2, <2>3 DEF UnitMoves, LifeCycle, Deps, UnitsOf, TypeOK
<1>2. ASSUME NEW u \in Units, Start(u) PROVE LifeCycle'
  <2>1. state[u] = "ready"
    BY <1>2 DEF Start, Visit, IsNext, Control
  <2> QED
    BY <1>2, <2>1 DEF Start, LifeCycle, Deps, TypeOK
<1>3. ASSUME NEW u \in Units, NEW kind \in Results, Ends(u, kind) PROVE LifeCycle'
  BY <1>3 DEF Ends, finish, LifeCycle, Deps, TypeOK, queueVars
<1> QED
  BY <1>1, <1>2, <1>3, NextShapes

(* Only Submit lengthens the waiting list, and it checks the limit first.  *)
LEMMA QueueStep ==
    ASSUME IInv, Next
    PROVE  QueueBounded'
<1> USE DEF IInv
<1>1. waitingUnits \in SUBSET Units /\ Cardinality(waitingUnits) \in Nat
  BY UnitSets DEF TypeOK
<1>2. ASSUME waitingUnits' \subseteq waitingUnits PROVE QueueBounded'
  <2>1. /\ Cardinality(waitingUnits') <= Cardinality(waitingUnits)
        /\ Cardinality(waitingUnits') \in Nat
    BY <1>1, <1>2, UnitSets, FS_Subset
  <2> QED
    BY <1>1, <2>1, LimitsAssumption DEF QueueBounded
<1>3. ASSUME NEW g \in Gens, Submit(g) PROVE QueueBounded'
  <2>1. UnitsOf(g) \in SUBSET Units
    BY DEF UnitsOf
  <2>2. /\ Cardinality(waitingUnits \cup UnitsOf(g))
             <= Cardinality(waitingUnits) + Cardinality(UnitsOf(g))
        /\ Cardinality(waitingUnits \cup UnitsOf(g)) \in Nat /\ Cardinality(UnitsOf(g)) \in Nat
    <3>1. /\ waitingUnits \cup UnitsOf(g) \in SUBSET Units
          /\ waitingUnits \cap UnitsOf(g) \in SUBSET Units
      BY <1>1, <2>1
    <3>2. /\ IsFiniteSet(waitingUnits) /\ IsFiniteSet(UnitsOf(g))
          /\ Cardinality(UnitsOf(g)) \in Nat
          /\ Cardinality(waitingUnits \cup UnitsOf(g)) \in Nat
          /\ Cardinality(waitingUnits \cap UnitsOf(g)) \in Nat
      BY <1>1, <2>1, <3>1, UnitSets
    <3>3. Cardinality(waitingUnits \cup UnitsOf(g)) =
            Cardinality(waitingUnits) + Cardinality(UnitsOf(g))
              - Cardinality(waitingUnits \cap UnitsOf(g))
      BY <3>2, FS_Union
    <3> QED
      BY <1>1, <3>2, <3>3
  <2> QED
    BY <1>1, <1>3, <2>2, LimitsAssumption DEF QueueBounded, Submit, QueueHasRoom
<1>4. CASE MoveActions
  BY <1>2, <1>3, <1>4, MovesAre DEF UnitMoves
<1>5. ASSUME NEW u \in Units, Start(u) PROVE QueueBounded'
  BY <1>2, <1>5 DEF Start
<1>6. ASSUME NEW u \in Units, NEW kind \in Results, Ends(u, kind) PROVE QueueBounded'
  BY <1>2, <1>6 DEF Ends, finish, queueVars
<1> QED
  BY <1>4, <1>5, <1>6, NextShapes

(* Every step keeps the reported effects honest.                           *)
LEMMA EffectStep ==
    ASSUME IInv, Next
    PROVE  EffectHonest'
<1> USE DEF IInv, EffectHonest
<1>1. \A s \in Scopes : scopeEffect[s] >= NoEffect
  BY DEF TypeOK, EffectCertainty, NoEffect
<1>2. CASE MoveActions
  <2>1. UnitMoves
    BY <1>2, MovesAre
  <2> QED
    BY <1>1, <2>1, ScopesAssumption DEF UnitMoves, LifeCycle
<1>3. ASSUME NEW u \in Units, Start(u) PROVE EffectHonest'
  <2>1. state[u] = "ready"
    BY <1>3 DEF Start, Visit, IsNext, Control
  <2> QED
    BY <1>3, <2>1 DEF Start
<1>4. ASSUME NEW u \in Units, NEW kind \in Results, Ends(u, kind) PROVE EffectHonest'
  <2> DEFINE e == IF kind = "completed" THEN CompletedEffect ELSE stoppedEffect(u)
  <2>1. finish(u, kind, e) /\ u \in ran /\ kind \in Results \ {"pending", "refused"}
    BY <1>4 DEF Ends, finish, LifeCycle
  <2>2. e \in EffectCertainty /\ (u \notin Observations =>
          e = IF kind = "completed" THEN CompletedEffect ELSE UncertainEffect)
    BY DEF stoppedEffect, EffectCertainty, NoEffect, CompletedEffect, UncertainEffect
  <2> HIDE DEF e
  <2>3. \A s \in Scopes : scopeEffect'[s] >= scopeEffect[s] /\ (s = ScopeOf[u] => scopeEffect'[s] >= e)
    <3>1. SUFFICES ASSUME NEW s \in Scopes
                   PROVE  scopeEffect'[s] >= scopeEffect[s] /\ (s = ScopeOf[u] => scopeEffect'[s] >= e)
      OBVIOUS
    <3>2. scopeEffect[s] \in EffectCertainty
      BY DEF TypeOK
    <3>3. scopeEffect'[s] = IF s = ScopeOf[u] THEN worstEffect(scopeEffect[s], e) ELSE scopeEffect[s]
      BY <2>1 DEF finish
    <3> QED
      BY <2>2, <3>2, <3>3, WorstEffectUp, EffectOrder
  <2>4. ScopeOf[u] # None => scopeEffect'[ScopeOf[u]] >= e
    BY <2>3, ScopesAssumption
  <2>5. \A v \in Units \ {u} : /\ state'[v] = state[v] /\ result'[v] = result[v]
                               /\ effect'[v] = effect[v]
    BY <2>1 DEF finish
  <2>6. state'[u] = "settled" /\ result'[u] = kind /\ effect'[u] = e /\ ran' = ran
    BY <2>1 DEF finish, TypeOK
  <2>7. \A v \in Units : (state[v] = "settled" /\ ScopeOf[v] # None)
                            => scopeEffect'[ScopeOf[v]] >= effect[v]
    <3>1. SUFFICES ASSUME NEW v \in Units, state[v] = "settled", ScopeOf[v] # None
                   PROVE  scopeEffect'[ScopeOf[v]] >= effect[v]
      OBVIOUS
    <3>2. /\ ScopeOf[v] \in Scopes
          /\ scopeEffect[ScopeOf[v]] >= effect[v] /\ scopeEffect'[ScopeOf[v]] >= scopeEffect[ScopeOf[v]]
      BY <2>3, <3>1, ScopesAssumption
    <3>3. {effect[v], scopeEffect[ScopeOf[v]], scopeEffect'[ScopeOf[v]]} \subseteq EffectCertainty
      BY <1>4, <3>2, TypeStep DEF TypeOK
    <3> QED
      BY <3>2, <3>3, EffectOrder
  <2> QED
    BY <2>1, <2>2, <2>4, <2>5, <2>6, <2>7
<1> QED
  BY <1>2, <1>3, <1>4, NextShapes

(* Every step keeps the counters exact and the caps respected.             *)
LEMMA CountStep ==
    ASSUME IInv, Next
    PROVE  Accounting' /\ CapsRespected'
<1>1. CASE MoveActions
  BY <1>1, MovesAre, MovesCount
<1>2. ASSUME NEW u \in Units, Start(u) PROVE Accounting' /\ CapsRespected'
  BY <1>2, StartCounts
<1>3. ASSUME NEW u \in Units, NEW kind \in Results, Ends(u, kind)
      PROVE  Accounting' /\ CapsRespected'
  BY <1>3, FinishCounts DEF Ends
<1> QED
  BY <1>1, <1>2, <1>3, NextShapes

------------------------------------------------------------------------------
(* The theorems                                                            *)

(* The strengthened invariant holds in every reachable state.              *)
THEOREM Invariance == Spec => []IInv
<1>1. Init => IInv
  <2> SUFFICES ASSUME Init PROVE IInv
    OBVIOUS
  <2>1. RunningUnits = {} /\ Completed = {} /\ waitingUnits = {}
    BY DEF Init, RunningUnits, Completed
  <2>2. TypeOK /\ Control /\ LifeCycle /\ EffectHonest
    BY LimitsAssumption DEF Init, TypeOK, Control, LifeCycle, EffectHonest, States, Results,
       PCs, EffectCertainty, NoEffect, UncertainEffect, UnitsOf
  <2>3. Cardinality({}) = 0
    BY FS_EmptySet
  <2>4. \A k \in Keys : HoldersOf(k) = {}
    BY <2>1 DEF HoldersOf
  <2>5. {u \in RunningUnits : effectiveRank(u) > 0} = {}
    BY <2>1
  <2>6. Accounting
    <3>1. running = 0 /\ budgetLeft = Budget /\ \A k \in Keys : held[k] = 0
      BY DEF Init
    <3> QED
      BY <2>1, <2>3, <2>4, <3>1, LimitsAssumption DEF Accounting
  <2>7. CapsRespected
    BY <2>1, <2>3, <2>4, <2>5, LimitsAssumption, ReservedBound DEF CapsRespected
  <2>8. QueueBounded
    BY <2>1, <2>3, LimitsAssumption DEF QueueBounded
  <2> QED
    BY <2>2, <2>6, <2>7, <2>8 DEF IInv
<1>2. IInv /\ [Next]_vars => IInv'
  <2>1. ASSUME IInv, Next PROVE IInv'
    BY <2>1, TypeStep, ControlStep, LifeCycleStep, QueueStep, CountStep, EffectStep DEF IInv
  <2>2. ASSUME IInv, UNCHANGED vars PROVE IInv'
    <3> USE <2>2 DEF IInv, vars, unitVars, capacityVars, queueVars, arrivalVars, loopVars, stopVars
    <3>1. TypeOK' /\ Control' /\ LifeCycle' /\ QueueBounded' /\ EffectHonest'
      BY DEF TypeOK, Control, LifeCycle, QueueBounded, EffectHonest
    <3>2. UnitMoves
      BY DEF UnitMoves
    <3> QED
      BY <3>1, <3>2, MovesCount
  <2> QED
    BY <2>1, <2>2
<1> QED
  BY <1>1, <1>2, PTL DEF Spec

(* Type correctness.                                                       *)
THEOREM Typing == Spec => []TypeOK
<1>1. IInv => TypeOK
  BY DEF IInv
<1> QED
  BY <1>1, Invariance, PTL

(* The counters of finish() and start() are exact for any number of        *)
(* generations: no slot, key or budget operation is leaked.                *)
THEOREM CountersExact == Spec => []Accounting
<1>1. IInv => Accounting
  BY DEF IInv
<1> QED
  BY <1>1, Invariance, PTL

(* Mutual exclusion on conflict keys, the concurrency cap and the          *)
(* interactive reservation hold across generations.                        *)
THEOREM CapsHold == Spec => []CapsRespected
<1>1. IInv => CapsRespected
  BY DEF IInv
<1> QED
  BY <1>1, Invariance, PTL

(* A runner is called only after the unit's dependencies completed.        *)
THEOREM DependenciesFirst == Spec => []DependencyOrder
<1>1. IInv => DependencyOrder
  BY DEF IInv, TypeOK, LifeCycle, DependencyOrder
<1> QED
  BY <1>1, Invariance, PTL

(* Reported effects never hide a mutation that was started and stopped.    *)
THEOREM EffectsHonest == Spec => []EffectHonest
<1>1. IInv => EffectHonest
  BY DEF IInv
<1> QED
  BY <1>1, Invariance, PTL

(* The waiting list is complete, bounded and free of settled units, and    *)
(* aging stops at the interactive class.                                   *)
THEOREM QueueIsHonest == Spec => []QueueHonest
<1>1. IInv => QueueHonest
  <2> SUFFICES ASSUME IInv PROVE QueueHonest
    OBVIOUS
  <2>1. \A u \in waitingUnits : effectiveRank(u) \in 0 .. Priority[u]
    BY RankType DEF IInv, TypeOK
  <2> QED
    BY <2>1, UnitsAssumption, ScopesAssumption DEF IInv, TypeOK, Control, QueueBounded,
       QueueHonest
<1> QED
  BY <1>1, Invariance, PTL

(* A settled unit is never rewritten.                                      *)
THEOREM SettledStays == Spec => SettledIsFinal
<1> DEFINE Kept == \A u \in Units : state[u] = "settled" =>
          state'[u] = "settled" /\ result'[u] = result[u] /\ effect'[u] = effect[u]
<1>1. IInv /\ [Next]_vars => [Kept]_vars
  <2>1. ASSUME IInv, Next PROVE Kept
    <3>1. CASE MoveActions
      BY <2>1, <3>1, MovesAre DEF UnitMoves
    <3>2. ASSUME NEW u \in Units, Start(u) PROVE Kept
      BY <2>1, <3>2 DEF Start, Visit, IsNext, IInv, Control
    <3>3. ASSUME NEW u \in Units, NEW kind \in Results, Ends(u, kind) PROVE Kept
      BY <2>1, <3>3 DEF Ends, finish, IInv
    <3> QED
      BY <2>1, <3>1, <3>2, <3>3, NextShapes
  <2> QED
    BY <2>1
<1> QED
  BY <1>1, Invariance, PTL DEF Spec, SettledIsFinal

------------------------------------------------------------------------------
(* Stops                                                                   *)

(* An admission pass runs to its end before any signal is delivered, so    *)
(* the generation it belongs to was not aborted when the pass began and is *)
(* not aborted while it runs.                                              *)
PassesUnaborted == \A g \in Gens : pc[g] = "admit" => active = g /\ g \notin aborted

SignalsDelivered ==
    \A u \in RunningUnits :
        (GenOf[u] \in aborted \/ ScopeOf[u] \in stoppedScopes) => u \in stopping

LoopsHear ==
    /\ \A g \in aborted : pc[g] = "parked" => g \in woken
    /\ \A g \in Gens : pc[g] = "draining" => g \in woken \/ RunningOf(g) # {}

Heard == PassesUnaborted /\ SignalsDelivered /\ LoopsHear

(* A step that starts and ends no unit leaves the running units of every   *)
(* generation what they were.                                              *)
LEMMA MovesKeepRunning ==
    ASSUME IInv, MoveActions
    PROVE  RunningUnits' = RunningUnits /\ \A g \in Gens : RunningOf(g)' = RunningOf(g)
BY MovesAre DEF UnitMoves, RunningUnits, RunningOf, UnitsOf

(* Every step of a loop or of the environment keeps stops heard.           *)
LEMMA HeardByMoves ==
    ASSUME IInv, Heard, MoveActions
    PROVE  Heard'
<1> USE MovesKeepRunning DEF Heard, IInv, TypeOK, unitVars, capacityVars, queueVars,
    arrivalVars, loopVars, stopVars, PassesUnaborted, SignalsDelivered, LoopsHear
<1>1. ASSUME NEW g \in Gens, SubmitRefused(g) PROVE Heard'
  BY <1>1 DEF SubmitRefused, CanSubmit
<1>2. ASSUME NEW g \in Gens, Submit(g) PROVE Heard'
  BY <1>2, ScopesAssumption DEF Submit, CanSubmit
<1>3. ASSUME NEW g \in Gens, Return(g) PROVE Heard'
  BY <1>3 DEF Return, LeaveLoop, notifyCapacityChanged
<1>4. ASSUME NEW g \in Gens, CancelQueued(g) PROVE Heard'
  <2>1. CASE RunningOf(g) # {}
    BY <1>4, <2>1 DEF CancelQueued
  <2>2. CASE RunningOf(g) = {}
    BY <1>4, <2>2 DEF CancelQueued, LeaveLoop, notifyCapacityChanged
  <2> QED
    BY <2>1, <2>2
<1>5. ASSUME NEW g \in Gens, BeginPass(g) PROVE Heard'
  BY <1>5 DEF BeginPass
<1>6. ASSUME NEW g \in Gens, RefuseLate(g) PROVE Heard'
  BY <1>6 DEF RefuseLate, PassDone
<1>7. ASSUME NEW g \in Gens, ReturnAfterPass(g) PROVE Heard'
  BY <1>7 DEF ReturnAfterPass, PassDone, LeaveLoop, notifyCapacityChanged
<1>8. ASSUME NEW g \in Gens, Park(g) PROVE Heard'
  BY <1>8 DEF Park, PassDone
<1>9. ASSUME NEW g \in Gens, Resume(g) PROVE Heard'
  BY <1>9, ScopesAssumption DEF Resume
<1>10. ASSUME NEW g \in Gens, Abort(g) PROVE Heard'
  <2>1. SignalsDelivered'
    BY <1>10 DEF Abort, RunningOf, RunningUnits, UnitsOf
  <2>2. PassesUnaborted' /\ LoopsHear'
    BY <1>10, ScopesAssumption DEF Abort, notifyCapacityChanged
  <2> QED
    BY <2>1, <2>2
<1>11. ASSUME NEW u \in Units, Skip(u) \/ AdmitWait(u) \/ AdmitRefused(u) PROVE Heard'
  <2>1. UNCHANGED <<pc, active, aborted, stopping, stoppedScopes>> /\ woken \subseteq woken'
    BY <1>11 DEF Skip, AdmitWait, AdmitRefused, notifyCapacityChanged
  <2> QED
    BY <2>1
<1>12. ASSUME NEW s \in Scopes, StopScope(s) PROVE Heard'
  BY <1>12 DEF StopScope, RunningUnits
<1>13. CASE CapacityChanges
  BY <1>13 DEF CapacityChanges, notifyCapacityChanged
<1>14. CASE Tick
  BY <1>14 DEF Tick
<1> QED
  BY <1>1, <1>2, <1>3, <1>4, <1>5, <1>6, <1>7, <1>8, <1>9, <1>10, <1>11, <1>12, <1>13,
     <1>14 DEF MoveActions, PassStep

(* No stop is lost on a unit or on a loop: start() takes over a scope that *)
(* already stopped, an abort reaches every running unit and every parked   *)
(* loop, and finish() wakes the loop that drains.                          *)
THEOREM StopsAreHeard == Spec => []StopIsHeard
<1>1. Init => Heard
  BY DEF Init, Heard, PassesUnaborted, SignalsDelivered, LoopsHear, RunningUnits
<1>2. IInv /\ Heard /\ [Next]_vars => Heard'
  <2> SUFFICES ASSUME IInv, Heard, [Next]_vars PROVE Heard'
    OBVIOUS
  <2> USE DEF Heard, IInv, TypeOK, PassesUnaborted, SignalsDelivered, LoopsHear
  <2>1. ASSUME NEW u \in Units, Start(u) PROVE Heard'
    <3>1. GenOf[u] \notin aborted /\ RunningUnits' = RunningUnits \cup {u}
      BY <2>1, UnitsAssumption DEF Start, Visit, IsNext, Control, RunningUnits
    <3>2. \A g \in Gens : RunningOf(g) \subseteq RunningOf(g)'
      BY <2>1 DEF Start, RunningOf, UnitsOf
    <3> QED
      BY <2>1, <3>1, <3>2 DEF Start
  <2>2. ASSUME NEW u \in Units, NEW kind \in Results, Ends(u, kind) PROVE Heard'
    <3>1. RunningUnits' \subseteq RunningUnits
      BY <2>2 DEF Ends, finish, RunningUnits
    <3>2. \A g \in Gens : g \in woken' \/ RunningOf(g)' = RunningOf(g)
      BY <2>2 DEF Ends, finish, RunningOf, UnitsOf
    <3> QED
      BY <2>2, <3>1, <3>2 DEF Ends, finish, stopVars
  <2>3. CASE UNCHANGED vars
    BY <2>3 DEF vars, unitVars, loopVars, stopVars, RunningUnits, RunningOf, UnitsOf
  <2> QED
    BY <2>1, <2>2, <2>3, HeardByMoves, NextShapes
<1>3. Heard => StopIsHeard
  BY DEF Heard, SignalsDelivered, LoopsHear, StopIsHeard
<1> QED
  BY <1>1, <1>2, <1>3, Invariance, PTL DEF Spec

------------------------------------------------------------------------------
(* The refinement                                                          *)

(* The phase a caller sees.                                                *)
PhaseOf == [u \in Units |-> IF state[u] \in {"running", "settled"} THEN state[u] ELSE "waiting"]

LEMMA SameCardinality == \A S : WA!Cardinality(S) = Cardinality(S)
BY Zenon DEF WA!Cardinality, Cardinality

(* The abstract counts are those the admission test reads.                 *)
LEMMA AbstractCounts ==
    /\ WA!Working = RunningUnits
    /\ \A k \in Keys : WA!Holders(k) = HoldersOf(k)
<1>1. WA!Working = RunningUnits
  BY DEF WA!Working, RunningUnits
<1> QED
  BY <1>1 DEF WA!Holders, HoldersOf, RunningUnits

(* A step of the loop or the environment gives units up or shows nothing.  *)
LEMMA MovesRefine ==
    ASSUME IInv, UnitMoves, TypeOK'
    PROVE  WA!Next \/ UNCHANGED WA!workVars
<1> DEFINE S == {u \in Units : state[u] # "settled" /\ state'[u] = "settled"}
<1> USE DEF IInv
<1>1. result \in [Units -> Results] /\ state \in [Units -> States]
  BY DEF TypeOK
<1>2. \A u \in Units \ S : PhaseOf'[u] = PhaseOf[u] /\ result'[u] = result[u]
  BY <1>1 DEF UnitMoves, PhaseOf, States
<1>3. \A u \in S : /\ PhaseOf[u] = "waiting" /\ PhaseOf'[u] = "settled"
                    /\ result'[u] \in WA!GivenUp
  BY <1>1 DEF UnitMoves, PhaseOf, WA!GivenUp
<1>4. result' = [u \in Units |-> result'[u]] /\ PhaseOf' = [u \in Units |-> PhaseOf'[u]]
  BY DEF PhaseOf, TypeOK
<1>5. CASE S = {}
  BY <1>1, <1>2, <1>4, <1>5 DEF WA!workVars, PhaseOf
<1>6. CASE S # {}
  <2> DEFINE how == [u \in S |-> result'[u]]
  <2>1. how \in [S -> WA!GivenUp]
    BY <1>3
  <2>2. result' = [u \in Units |-> IF u \in S THEN how[u] ELSE result[u]]
    BY <1>2, <1>4
  <2>3. PhaseOf' = [u \in Units |-> IF u \in S THEN "settled" ELSE PhaseOf[u]]
    BY <1>2, <1>3, <1>4
  <2>4. S \in SUBSET WA!Waiting
    BY <1>3 DEF WA!Waiting, PhaseOf
  <2>5. PICK T : T = S
    OBVIOUS
  <2>6. WA!GiveUp(T)
    BY <1>6, <2>1, <2>2, <2>3, <2>5 DEF WA!GiveUp, PhaseOf
  <2> QED
    BY <2>4, <2>5, <2>6 DEF WA!Next
<1> QED
  BY <1>5, <1>6

(* start() takes a unit exactly when the abstract admission would.         *)
LEMMA StartRefines ==
    ASSUME IInv, NEW u \in Units, Start(u)
    PROVE  WA!Begin(u)
<1> USE DEF IInv
<1>1. state[u] = "ready"
  BY DEF Start, Visit, IsNext, Control
<1>2. \A x \in Deps(u) : result[x] = "completed"
  BY <1>1 DEF LifeCycle
<1>3. running < MaxConcurrent
  BY ReservedBound, LimitsAssumption DEF Start, Admissible, SlotFree, TypeOK
<1>4. effectiveConflictKeys(u) \subseteq Keys
  BY KeysAssumption DEF effectiveConflictKeys
<1>5. \A k \in effectiveConflictKeys(u) : Cardinality(WA!Holders(k)) < MaxConcurrentPerKey
  BY <1>4, AbstractCounts DEF Start, Admissible, keysAvailable, Accounting
<1>6. PhaseOf' = [PhaseOf EXCEPT ![u] = "running"] /\ result' = result
  BY <1>1 DEF Start, PhaseOf, TypeOK
<1>7. PhaseOf[u] = "waiting"
  BY <1>1 DEF PhaseOf
<1>8. Cardinality(WA!Working) < MaxConcurrent
  BY <1>3, AbstractCounts DEF Accounting
<1>9. /\ [v \in Units |-> Deps(v)][u] = Deps(u)
      /\ [v \in Units |-> effectiveConflictKeys(v)][u] = effectiveConflictKeys(u)
  OBVIOUS
<1>10. \A x \in [v \in Units |-> Deps(v)][u] : result[x] = "completed"
  BY <1>2, <1>9
<1>11. \A k \in [v \in Units |-> effectiveConflictKeys(v)][u] :
          Cardinality(WA!Holders(k)) < MaxConcurrentPerKey
  BY <1>5, <1>9
<1> QED
  BY <1>6, <1>7, <1>8, <1>10, <1>11, SameCardinality, Zenon DEF WA!Begin, PhaseOf

LEMMA EndRefines ==
    ASSUME IInv, NEW u \in Units, NEW kind \in Results, Ends(u, kind)
    PROVE  WA!Next
<1>1. /\ state[u] = "running" /\ kind \in WA!Ended
      /\ PhaseOf' = [PhaseOf EXCEPT ![u] = "settled"] /\ result' = [result EXCEPT ![u] = kind]
  BY DEF Ends, finish, WA!Ended, PhaseOf, IInv, TypeOK
<1>2. WA!End(u, kind)
  BY <1>1 DEF WA!End, PhaseOf
<1> QED
  BY <1>1, <1>2 DEF WA!Next

(* The scheduler implements WorkAdmission, for any units and limits.       *)
THEOREM Refinement == Spec => ImplementsWorkAdmission
<1>1. Init => WA!Init
  BY DEF Init, WA!Init
<1>2. IInv /\ [Next]_vars => [WA!Next]_(WA!workVars)
  <2>1. ASSUME IInv, Next PROVE WA!Next \/ UNCHANGED WA!workVars
    <3>1. CASE MoveActions
      BY <2>1, <3>1, MovesAre, MovesRefine, TypeStep
    <3>2. ASSUME NEW u \in Units, Start(u) PROVE WA!Next
      BY <2>1, <3>2, StartRefines DEF WA!Next
    <3> QED
      BY <2>1, <3>1, <3>2, EndRefines, NextShapes
  <2>2. UNCHANGED vars => UNCHANGED WA!workVars
    BY DEF vars, unitVars, WA!workVars
  <2> QED
    BY <2>1, <2>2
<1> QED
  BY <1>1, <1>2, Invariance, PTL DEF Spec, ImplementsWorkAdmission, WA!Spec
==============================================================================
