------------------------------ MODULE Shutdown -------------------------------
(***************************************************************************)
(* Stopping the runtime: the shutdown coordinator                          *)
(* (application/runtime/shutdown-coordinator.ts) with the interruption     *)
(* ladder (interruption.ts) that starts and escalates it, as               *)
(* runtime-lifecycle.ts wires them to the scope tree.                      *)
(*                                                                         *)
(* The phases run in order.  A phase calls its participants and waits for  *)
(* all of them or for its deadline; a rise of the level aborts the wait,   *)
(* which is armed again on the shorter grace before any later event        *)
(* (`rearm').  The root scope is cancelled when its phase opens, and what  *)
(* never acknowledged is settled by force after the last phase.  A         *)
(* participant may settle late, after its phase, or never.                 *)
(***************************************************************************)
EXTENDS Naturals, Sequences, FiniteSets

CONSTANTS
    Phases,              \* SHUTDOWN_PHASES, in order
    CancelPhase,         \* "cancel-root-scope"
    Participants,        \* a participant is its name and its phase
    PhaseOf,
    MaxParticipants,     \* MAX_SHUTDOWN_PARTICIPANTS
    Grace,               \* graceForLevel: graceful 0, escalated 1, forced 2
    MaxInterrupts        \* bound: interrupts in one run

CONSTANTS Scopes, Root, Parent, Ancestors, RequestedDeadline, Reported, MaxDepth, MaxLive,
          MaxRetained, MaxTombstones, MaxTime

Levels == 0 .. 2
Last   == Len(Phases)

ASSUME ShutdownAssumption ==
    /\ Last \in Nat \ {0} /\ Phases[1] # CancelPhase
    /\ \E i \in 1 .. Last : Phases[i] = CancelPhase
    /\ PhaseOf \in [Participants -> {Phases[i] : i \in 1 .. Last}]
    /\ MaxParticipants \in Nat
    /\ Grace \in [Levels -> Nat \ {0}]
    /\ \A l, m \in Levels : l <= m => Grace[m] <= Grace[l]
    /\ MaxInterrupts \in Nat

VARIABLES nodes, status, reason, effect, settledDescendantEffect, result, deadline,
          cancellationBoundaries, retained, tombstones, liveCount, trim, forcing, now, known

VARIABLES
    registered,      \* participants registered before the shutdown began
    interrupts,      \* interrupts counted by the policy
    level,
    phase,           \* 0 before the shutdown, then 1 .. Last, the sweep, and done
    left,            \* time left until the deadline of the phase
    rearm,           \* the level rose: the wait was aborted and not yet armed again
    called,          \* participants whose run() was called
    ended,           \* per participant: none, completed or failed
    report,          \* per participant: what its closed phase recorded
    verdict          \* the outcome of the shutdown report

treeVars == <<nodes, status, reason, effect, settledDescendantEffect, result, deadline,
              cancellationBoundaries, retained, tombstones, liveCount, trim, forcing, known>>
waitVars == <<phase, left, rearm, called>>
vars == <<treeVars, now, registered, interrupts, level, waitVars, ended, report, verdict>>

Tree == INSTANCE ScopeTree

ASSUME ScopesAssumption ==
    /\ Tree!TreeAssumption /\ Tree!ScopeLimits
    /\ \A s \in Scopes \ {Root} : Root \in Ancestors[s]

Sweep == Last + 1
Done  == Last + 2

TypeOK ==
    /\ Tree!TypeOK
    /\ registered \subseteq Participants /\ called \subseteq registered
    /\ interrupts \in Nat /\ level \in Levels
    /\ phase \in 0 .. Done
    /\ left \in Nat
    /\ rearm \in BOOLEAN
    /\ ended \in [Participants -> {"none", "completed", "failed"}]
    /\ report \in [Participants -> {"none", "completed", "failed", "timed-out"}]
    /\ verdict \in {"none", "completed", "failed", "uncertain"}

Init ==
    /\ Tree!Init
    /\ registered = {} /\ interrupts = 0 /\ level = 0
    /\ phase = 0 /\ left = 0 /\ rearm = FALSE
    /\ called = {}
    /\ ended = [p \in Participants |-> "none"]
    /\ report = [p \in Participants |-> "none"]
    /\ verdict = "none"

------------------------------------------------------------------------------
InPhase == phase \in 1 .. Last

MembersOf(i) == {p \in registered : PhaseOf[p] = Phases[i]}
Outstanding  == {p \in MembersOf(phase) : ended[p] = "none"}

(* The program is single threaded: no event arrives inside a tree call or  *)
(* between an abort and the continuation it releases.                      *)
NextEvent == Tree!Idle /\ ~ rearm

register(p) ==
    /\ NextEvent
    /\ phase = 0
    /\ Cardinality(registered) < MaxParticipants
    /\ p \notin registered
    /\ registered' = registered \cup {p}
    /\ UNCHANGED <<treeVars, now, interrupts, level, waitVars, ended, report, verdict>>

(* runPhase up to its await.                                               *)
enterPhase(i, atLevel) ==
    /\ phase' = i
    /\ left' = Grace[atLevel]
    /\ called' = called \cup MembersOf(i)
    /\ rearm' = FALSE

raised(l) == IF l > level THEN l ELSE level

(* shutdown(): a second call finds the sequence already running.           *)
begin(l) ==
    /\ phase = 0
    /\ level' = raised(l)
    /\ enterPhase(1, raised(l))

requestShutdown(l) ==
    /\ NextEvent
    /\ begin(l)
    /\ UNCHANGED <<treeVars, now, registered, interrupts, ended, report, verdict>>

(* A higher level aborts the wait of the phase in progress.                *)
raiseOnce(l) ==
    /\ level' = raised(l)
    /\ rearm' = (l > level /\ level = 0 /\ InPhase)
    /\ UNCHANGED <<phase, left, called>>
raiseLevel(l) ==
    /\ level' = raised(l)
    /\ rearm' = (l > level /\ InPhase)
    /\ UNCHANGED <<phase, left, called>>

(* A root that was evicted is an unknown scope: the error is ignored.      *)
cancelRoot == IF Root \in nodes THEN Tree!cancel(Root) ELSE UNCHANGED <<treeVars, now>>

(* The first interrupt asks.                                               *)
firstInterrupt ==
    /\ NextEvent /\ interrupts = 0 /\ MaxInterrupts > 0
    /\ interrupts' = 1
    /\ cancelRoot
    /\ \/ begin(0)
       \/ phase # 0 /\ UNCHANGED <<level, waitVars>>
    /\ UNCHANGED <<registered, ended, report, verdict>>

(* The second insists, the third stops waiting; further ones are counted   *)
(* and change nothing.                                                     *)
laterInterruptStarts ==
    /\ NextEvent /\ interrupts \in 1 .. MaxInterrupts - 1
    /\ interrupts' = interrupts + 1
    /\ UNCHANGED <<treeVars, now, registered, level, waitVars, ended, report, verdict>>
laterInterrupt ==
    /\ NextEvent /\ interrupts \in 1 .. MaxInterrupts - 1
    /\ interrupts' = interrupts + 1
    /\ IF interrupts <= 2 THEN raiseLevel(interrupts) ELSE UNCHANGED <<level, waitVars>>
    /\ UNCHANGED <<treeVars, now, registered, ended, report, verdict>>

(* The wait of the phase goes on, never for longer than it had.            *)
RearmAfresh ==
    /\ rearm
    /\ rearm' = FALSE
    /\ left' = Grace[level]
    /\ UNCHANGED <<treeVars, now, registered, interrupts, level, phase, called, ended, report,
                   verdict>>
Rearm ==
    /\ rearm
    /\ rearm' = FALSE
    /\ left' = IF Outstanding # {} /\ Grace[level] < left THEN Grace[level] ELSE left
    /\ UNCHANGED <<treeVars, now, registered, interrupts, level, phase, called, ended, report,
                   verdict>>

participantSettles(p, how) ==
    /\ Tree!Idle
    /\ p \in called /\ ended[p] = "none"
    /\ ended' = [ended EXCEPT ![p] = how]
    /\ UNCHANGED <<treeVars, now, registered, interrupts, level, waitVars, report, verdict>>

phaseOverPatient == Outstanding = {}
phaseOver == Outstanding = {} \/ left = 0

(* What the coordinator itself does in a phase: cancel the root scope in   *)
(* its phase, before the participants are called.                          *)
builtInForgotten(i) == UNCHANGED <<treeVars, now>>
builtInWork(i) ==
    IF Phases[i] = CancelPhase THEN cancelRoot ELSE UNCHANGED <<treeVars, now>>

(* Nothing may be left non-terminal after the last phase.                  *)
sweepActiveOnly ==
    /\ forcing' = {s \in nodes : status[s] = "active"}
    /\ UNCHANGED <<nodes, status, reason, effect, settledDescendantEffect, result, deadline,
                   cancellationBoundaries, retained, tombstones, liveCount, trim, known, now>>
sweepTree == Tree!forceSettleUnacknowledged

(* Close the phase on what it observed and open the next one, or sweep the *)
(* tree after the last.                                                    *)
endPhase ==
    /\ NextEvent /\ InPhase
    /\ phaseOver
    /\ report' = [p \in Participants |->
          IF p \notin MembersOf(phase) THEN report[p]
          ELSE IF ended[p] = "none" THEN "timed-out" ELSE ended[p]]
    /\ IF phase = Last
       THEN /\ phase' = Sweep
            /\ sweepTree
            /\ UNCHANGED <<left, rearm, called>>
       ELSE /\ enterPhase(phase + 1, level)
            /\ builtInWork(phase + 1)
    /\ UNCHANGED <<registered, interrupts, level, ended, verdict>>

VerdictFailedFirst ==
    IF \E p \in registered : report[p] = "failed" THEN "failed"
    ELSE IF \E p \in registered : report[p] = "timed-out" THEN "uncertain" ELSE "completed"
Verdict ==
    IF \E p \in registered : report[p] = "timed-out" THEN "uncertain"
    ELSE IF \E p \in registered : report[p] = "failed" THEN "failed" ELSE "completed"

(* run() returns its report once the sweep of the tree is over.            *)
finishRun ==
    /\ NextEvent /\ phase = Sweep
    /\ phase' = Done
    /\ verdict' = Verdict
    /\ UNCHANGED <<treeVars, now, registered, interrupts, level, left, rearm, called,
                   ended, report>>

------------------------------------------------------------------------------
(* What the rest of the program does to the tree meanwhile: a scope that   *)
(* settles by itself does so with an acknowledgement, whatever its outcome.*)

TreeCall ==
    \E s \in Scopes :
        \/ Tree!derive(s) \/ Tree!acknowledge(s)
        \/ Tree!cancellationBoundary(s, TRUE) \/ Tree!cancellationBoundary(s, FALSE)

(* The loops inside settle() and forceSettleUnacknowledged().              *)
TreeLoop ==
    \/ Tree!TrimEvict \/ Tree!TrimSkip \/ Tree!TrimEnd
    \/ \E s \in Scopes : Tree!forceSettle(s)

TreeStep ==
    /\ (TreeCall /\ ~ rearm) \/ TreeLoop
    /\ UNCHANGED <<registered, interrupts, level, waitVars, ended, report, verdict>>

(* Time passes in a phase; the tree's own clock is not used here.          *)
Tick ==
    /\ NextEvent /\ InPhase /\ left > 0
    /\ left' = left - 1
    /\ UNCHANGED <<treeVars, now, registered, interrupts, level, phase, rearm, called, ended,
                   report, verdict>>

Coordinator == Rearm \/ endPhase \/ finishRun

Next ==
    \/ \E p \in Participants : register(p)
    \/ \E l \in Levels : requestShutdown(l)
    \/ firstInterrupt \/ laterInterrupt
    \/ Coordinator
    \/ \E p \in Participants : \E how \in {"completed", "failed"} : participantSettles(p, how)
    \/ TreeStep
    \/ Tick

Spec == Init /\ [][Next]_vars

(* The event loop resumes what is due and time passes, however often other *)
(* calls on the tree come in between.  No participant and no scope owner   *)
(* ever has to settle.                                                     *)
Fairness ==
    /\ SF_vars(Coordinator)
    /\ WF_vars(TreeLoop /\ TreeStep)
    /\ SF_vars(Tick)

FairSpec == Spec /\ Fairness

------------------------------------------------------------------------------
(* Properties                                                              *)

(* Once shutdown has reported, no scope of the runtime is live, and none   *)
(* is opened, reopened or revived afterwards, whatever was sheltered from  *)
(* the cancellation and whoever still holds a scope identifier.            *)
NothingSurvives ==
    phase = Done => \A s \in nodes : status[s] = "terminal"

(* From the cancellation phase on, a scope that is still active is         *)
(* sheltered by a boundary: no scope opened, unsheltered or left behind    *)
(* during the later phases goes on as if nothing had happened.             *)
ActiveIsSheltered ==
    (\E i \in 1 .. Last : Phases[i] = CancelPhase /\ i <= phase) =>
        \A s \in nodes : status[s] = "active" =>
            (({s} \cup Ancestors[s]) \ {Root}) \cap cancellationBoundaries # {}

(* The report tells what was observed: completed only when every           *)
(* registered participant was called and succeeded, failed only when all   *)
(* settled; force and hanging participants skip nobody.                    *)
ReportHonest ==
    phase = Done =>
        /\ called = registered
        /\ verdict = "completed" => \A p \in registered : ended[p] = "completed"
        /\ verdict = "failed" => /\ \A p \in registered : ended[p] # "none"
                                 /\ \E p \in registered : ended[p] = "failed"

(* "Force shortens": after every rise of the level, however many there     *)
(* were in one phase, the phase waits no longer than the new grace.        *)
GraceHonoured ==
    (InPhase /\ ~ rearm /\ Outstanding # {}) => left <= Grace[level]

(* "A second, parallel notion of how urgent is this would let the two      *)
(* disagree about whether cleanup still has time": once somebody           *)
(* interrupted, the shutdown runs, and no phase, the one in progress or a  *)
(* later one, waits longer than the number of interrupts allows,           *)
(* whatever level the shutdown was started at and by whom.                 *)
PolicyLevel == IF interrupts <= 1 THEN 0 ELSE IF interrupts = 2 THEN 1 ELSE 2
InterruptsHeard ==
    interrupts > 0 =>
        /\ phase # 0
        /\ (InPhase /\ ~ rearm /\ Outstanding # {}) => left <= Grace[PolicyLevel]

(* No interrupt ever gives the phase in progress more time than it had.    *)
GraceOnlyShrinks ==
    [][InPhase /\ phase' = phase => left' <= left]_vars

(* A shutdown that began ends in a report although no participant and no   *)
(* scope ever settles by itself.                                           *)
ShutdownEnds == phase = 1 ~> phase = Done
==============================================================================
