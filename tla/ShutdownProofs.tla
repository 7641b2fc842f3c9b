--------------------------- MODULE ShutdownProofs ----------------------------
(***************************************************************************)
(* Proofs about Shutdown, for every list of phases and participants, every *)
(* grace, every tree of scopes and every order of interrupts and calls.    *)
(*                                                                         *)
(* The coordinator's part (Inv) follows a participant through its phase:   *)
(* called when the phase is entered, recorded as it had ended when the     *)
(* phase is closed.  The tree's part (TreeInv) needs that the chain above  *)
(* a scope is in memory: then the cancellation walk from the root misses   *)
(* only what a boundary shelters, and eviction takes no boundary away from *)
(* a scope below it.                                                       *)
(***************************************************************************)
EXTENDS Shutdown, TLAPS

(* The coordinator's own variables keep their types.                       *)
Typed ==
    /\ registered \subseteq Participants /\ called \subseteq registered
    /\ interrupts \in Nat /\ level \in Levels
    /\ phase \in 0 .. Done
    /\ left \in Nat
    /\ rearm \in BOOLEAN
    /\ ended \in [Participants -> {"none", "completed", "failed"}]
    /\ report \in [Participants -> {"none", "completed", "failed", "timed-out"}]
    /\ verdict \in {"none", "completed", "failed", "uncertain"}

(* A participant has been called exactly when its phase was entered.       *)
CalledSoFar ==
    \A p \in registered :
        p \in called <=> \E i \in 1 .. Last : i <= phase /\ PhaseOf[p] = Phases[i]

(* A closed phase recorded all its participants, each as it had ended.     *)
Observed ==
    /\ \A p \in Participants : report[p] \in {"completed", "failed"} => ended[p] = report[p]
    /\ \A p \in registered :
          (\E i \in 1 .. Last : i < phase /\ PhaseOf[p] = Phases[i]) => report[p] # "none"

Concluded == phase = Done => verdict = Verdict

(* The coordinator is never behind the interrupts counted by the policy.   *)
Heard ==
    /\ interrupts > 0 => phase # 0
    /\ level >= PolicyLevel

Inv == Typed /\ CalledSoFar /\ Observed /\ Concluded /\ Heard /\ GraceHonoured

------------------------------------------------------------------------------
LEMMA Numbers ==
    /\ Last \in Nat /\ Last > 0 /\ Sweep = Last + 1 /\ Done = Last + 2
    /\ Grace \in [Levels -> Nat] /\ \A l \in Levels : l \in Nat /\ Grace[l] \in Nat
    /\ 0 \in Levels /\ 1 \in Levels /\ 2 \in Levels
BY ShutdownAssumption DEF Sweep, Done, Levels

(* Steps of the tree and of participants, with the coordinator at rest.    *)
LEMMA RestStep ==
    ASSUME Inv, UNCHANGED <<registered, interrupts, level, waitVars, report, verdict>>,
           \/ UNCHANGED ended
           \/ \E p \in called, how \in {"completed", "failed"} :
                 ended[p] = "none" /\ ended' = [ended EXCEPT ![p] = how]
    PROVE  Inv'
<1>1. Typed'
  BY DEF Inv, Typed, waitVars
<1>2. \A p \in Participants : ended[p] # "none" => ended'[p] = ended[p]
  BY DEF Inv, Typed
<1>3. CalledSoFar' /\ Observed'
  BY <1>2 DEF Inv, Typed, CalledSoFar, Observed, waitVars
<1>4. Concluded'
  BY DEF Inv, Concluded, Verdict, waitVars
<1>5. Outstanding' \subseteq Outstanding
  BY <1>2 DEF Inv, Typed, Outstanding, MembersOf, waitVars
<1>6. GraceHonoured'
  BY <1>5 DEF Inv, GraceHonoured, InPhase, waitVars
<1>7. Heard'
  BY DEF Inv, Heard, PolicyLevel, waitVars
<1> QED BY <1>1, <1>3, <1>4, <1>6, <1>7 DEF Inv

LEMMA RegisterStep ==
    ASSUME Inv, NEW p \in Participants, register(p)
    PROVE  Inv'
<1> USE Numbers
<1>1. phase = 0 /\ p \notin registered /\ registered' = registered \cup {p}
      /\ UNCHANGED <<interrupts, level, phase, left, rearm, called, ended, report, verdict>>
  BY DEF register, waitVars
<1>2. Typed'
  BY <1>1 DEF Inv, Typed
<1>3. CalledSoFar'
  BY <1>1 DEF Inv, Typed, CalledSoFar
<1>4. Observed'
  BY <1>1 DEF Inv, Typed, Observed
<1>5. Concluded' /\ GraceHonoured'
  BY <1>1 DEF Concluded, GraceHonoured, InPhase
<1>6. Heard'
  BY <1>1 DEF Inv, Heard, PolicyLevel
<1> QED BY <1>2, <1>3, <1>4, <1>5, <1>6 DEF Inv

(* The shutdown begins: the first phase is entered.                        *)
LEMMA BeginStep ==
    ASSUME Inv, NEW l \in Levels, begin(l), interrupts' \in Nat, interrupts' <= 1,
           UNCHANGED <<registered, ended, report, verdict>>
    PROVE  Inv'
<1> USE Numbers
<1>1. /\ phase = 0 /\ level' = raised(l) /\ phase' = 1 /\ left' = Grace[raised(l)]
      /\ called' = called \cup MembersOf(1) /\ rearm' = FALSE
  BY DEF begin, enterPhase
<1>2. raised(l) \in Levels
  BY DEF Inv, Typed, raised
<1>3. MembersOf(1) \subseteq registered
  BY DEF MembersOf
<1>4. Typed'
  <2>1. phase' \in 0 .. Done /\ left' \in Nat
    BY <1>1, <1>2
  <2>2. rearm' \in BOOLEAN
    BY <1>1, Zenon
  <2> QED BY <1>1, <1>2, <1>3, <2>1, <2>2 DEF Inv, Typed
<1>5. CalledSoFar'
  <2>1. called = {}
    BY <1>1 DEF Inv, Typed, CalledSoFar
  <2>2. \A i \in 1 .. Last : i <= 1 <=> i = 1
    OBVIOUS
  <2> QED BY <1>1, <2>1, <2>2 DEF CalledSoFar, MembersOf
<1>6. Observed'
  BY <1>1 DEF Inv, Observed
<1>7. Concluded' /\ GraceHonoured'
  BY <1>1, <1>2 DEF Concluded, GraceHonoured
<1>8. Heard'
  BY <1>1, <1>2 DEF Heard, PolicyLevel
<1> QED BY <1>4, <1>5, <1>6, <1>7, <1>8 DEF Inv

LEMMA RaiseStep ==
    ASSUME Inv, ~ rearm, NEW l \in Levels, raiseLevel(l),
           interrupts = l, interrupts > 0, interrupts' = interrupts + 1,
           UNCHANGED <<registered, ended, report, verdict>>
    PROVE  Inv'
<1> USE Numbers
<1>1. /\ level' = raised(l) /\ UNCHANGED <<phase, left, called>>
      /\ rearm' = (l > level /\ InPhase)
  BY DEF raiseLevel
<1>2. raised(l) \in Levels /\ (~ l > level => raised(l) = level) /\ raised(l) >= l
  BY DEF Inv, Typed, raised
<1>3. Typed'
  BY <1>1, <1>2 DEF Inv, Typed
<1>4. CalledSoFar' /\ Observed'
  BY <1>1 DEF Inv, CalledSoFar, Observed
<1>5. Concluded'
  BY <1>1 DEF Inv, Concluded, Verdict
<1>6. GraceHonoured'
  BY <1>1, <1>2 DEF Inv, GraceHonoured, InPhase, Outstanding, MembersOf
<1>7. Heard'
  <2>1. phase # 0
    BY DEF Inv, Heard
  <2>2. PolicyLevel' = l
    BY DEF PolicyLevel, Levels
  <2> QED BY <1>1, <1>2, <2>1, <2>2 DEF Heard
<1> QED BY <1>3, <1>4, <1>5, <1>6, <1>7 DEF Inv

(* An interrupt that leaves the coordinator alone: the first one, when the *)
(* shutdown runs already, and those after the third.                       *)
LEMMA IgnoredStep ==
    ASSUME Inv, UNCHANGED <<registered, level, waitVars, ended, report, verdict>>,
           interrupts' \in Nat, phase # 0, PolicyLevel' = PolicyLevel
    PROVE  Inv'
<1>1. Typed'
  BY DEF Inv, Typed, waitVars
<1>2. CalledSoFar' /\ Observed' /\ Concluded'
  BY DEF Inv, CalledSoFar, Observed, Concluded, Verdict, waitVars
<1>3. GraceHonoured'
  BY DEF Inv, GraceHonoured, InPhase, Outstanding, MembersOf, waitVars
<1>4. Heard'
  BY DEF Inv, Heard, waitVars
<1> QED BY <1>1, <1>2, <1>3, <1>4 DEF Inv

LEMMA RearmStep ==
    ASSUME Inv, Rearm
    PROVE  Inv'
<1> USE Numbers
<1>1. /\ rearm' = FALSE
      /\ left' = IF Outstanding # {} /\ Grace[level] < left THEN Grace[level] ELSE left
      /\ UNCHANGED <<registered, interrupts, level, phase, called, ended, report, verdict>>
  BY DEF Rearm
<1>2. level \in Levels /\ Grace[level] \in Nat /\ left \in Nat
  BY DEF Inv, Typed
<1>3. Typed'
  BY <1>1, <1>2 DEF Inv, Typed
<1>4. CalledSoFar' /\ Observed'
  BY <1>1 DEF Inv, CalledSoFar, Observed
<1>5. Concluded'
  BY <1>1 DEF Inv, Concluded, Verdict
<1>6. Outstanding' = Outstanding
  BY <1>1 DEF Outstanding, MembersOf
<1>7. GraceHonoured'
  BY <1>1, <1>2, <1>6 DEF GraceHonoured
<1>8. Heard'
  BY <1>1 DEF Inv, Heard, PolicyLevel
<1> QED BY <1>3, <1>4, <1>5, <1>7, <1>8 DEF Inv

LEMMA TickStep ==
    ASSUME Inv, Tick
    PROVE  Inv'
<1> USE Numbers
<1>1. /\ left > 0 /\ left' = left - 1 /\ ~ rearm /\ InPhase
      /\ UNCHANGED <<registered, interrupts, level, phase, rearm, called, ended, report, verdict>>
  BY DEF Tick, NextEvent
<1>2. Grace[level] \in Nat /\ left \in Nat
  BY DEF Inv, Typed
<1>3. Typed'
  BY <1>1, <1>2 DEF Inv, Typed
<1>4. CalledSoFar' /\ Observed'
  BY <1>1 DEF Inv, CalledSoFar, Observed
<1>5. Concluded'
  BY <1>1 DEF Inv, Concluded, Verdict
<1>6. Outstanding' = Outstanding
  BY <1>1 DEF Outstanding, MembersOf
<1>7. GraceHonoured'
  BY <1>1, <1>2, <1>6 DEF Inv, GraceHonoured
<1>8. Heard'
  BY <1>1 DEF Inv, Heard, PolicyLevel
<1> QED BY <1>3, <1>4, <1>5, <1>7, <1>8 DEF Inv

(* A phase closes: what it observed is recorded before the next is entered.*)
LEMMA EndPhaseStep ==
    ASSUME Inv, endPhase
    PROVE  Inv'
<1> USE Numbers
<1>1. /\ phase \in 1 .. Last /\ ~ rearm
      /\ report' = [p \in Participants |->
            IF p \notin MembersOf(phase) THEN report[p]
            ELSE IF ended[p] = "none" THEN "timed-out" ELSE ended[p]]
      /\ \/ phase = Last /\ phase' = Sweep /\ UNCHANGED <<left, rearm, called>>
         \/ phase # Last /\ enterPhase(phase + 1, level)
      /\ UNCHANGED <<registered, interrupts, level, ended, verdict>>
  BY DEF endPhase, NextEvent, InPhase
<1>2. /\ phase' = phase + 1 /\ rearm' = FALSE /\ left' \in Nat
      /\ called' = IF phase = Last THEN called ELSE called \cup MembersOf(phase + 1)
      /\ (phase # Last => left' = Grace[level])
  BY <1>1 DEF enterPhase, Inv, Typed
<1>3. MembersOf(phase + 1) \subseteq registered
  BY DEF MembersOf
<1>4. Typed'
  <2>1. report' \in [Participants -> {"none", "completed", "failed", "timed-out"}]
    BY <1>1 DEF Inv, Typed
  <2>2. phase' \in 0 .. Done
    BY <1>1, <1>2
  <2>3. rearm' \in BOOLEAN
    BY <1>2, Zenon
  <2>4. called' \subseteq registered'
    BY <1>1, <1>2, <1>3 DEF Inv, Typed
  <2> QED BY <1>1, <1>2, <2>1, <2>2, <2>3, <2>4 DEF Inv, Typed
<1>5. CalledSoFar'
  <2>1. ASSUME NEW p \in registered
        PROVE  p \in called' <=> \E i \in 1 .. Last : i <= phase' /\ PhaseOf[p] = Phases[i]
    <3>1. p \in called <=> \E i \in 1 .. Last : i <= phase /\ PhaseOf[p] = Phases[i]
      BY DEF Inv, CalledSoFar
    <3>2. \A i \in 1 .. Last : i <= phase' <=> i <= phase \/ i = phase + 1
      BY <1>1, <1>2
    <3>3. phase # Last => phase + 1 \in 1 .. Last
      BY <1>1
    <3>4. p \in MembersOf(phase + 1) <=> PhaseOf[p] = Phases[phase + 1]
      BY DEF MembersOf
    <3>5. phase = Last => \A i \in 1 .. Last : i # phase + 1
      OBVIOUS
    <3> QED BY <1>2, <3>1, <3>2, <3>3, <3>4, <3>5
  <2> QED BY <1>1, <2>1 DEF CalledSoFar
<1>6. Observed'
  <2>1. \A p \in Participants : report'[p] \in {"completed", "failed"} => ended'[p] = report'[p]
    BY <1>1 DEF Inv, Observed
  <2>2. ASSUME NEW p \in registered, NEW i \in 1 .. Last, i < phase + 1, PhaseOf[p] = Phases[i]
        PROVE  report'[p] # "none"
    <3>1. p \in Participants
      BY DEF Inv, Typed
    <3>2. CASE p \in MembersOf(phase)
      BY <1>1, <3>1, <3>2 DEF Inv, Typed
    <3>3. CASE p \notin MembersOf(phase)
      <4>1. i # phase
        BY <2>2, <3>3 DEF MembersOf
      <4>2. i < phase
        BY <1>1, <2>2, <4>1
      <4> QED BY <1>1, <2>2, <3>1, <3>3, <4>2 DEF Inv, Observed
    <3> QED BY <3>2, <3>3
  <2> QED BY <1>1, <1>2, <2>1, <2>2 DEF Observed
<1>7. Concluded'
  BY <1>1, <1>2 DEF Concluded
<1>8. GraceHonoured'
  <2>1. Grace[level] \in Nat
    BY DEF Inv, Typed
  <2> QED BY <1>1, <1>2, <2>1 DEF GraceHonoured, InPhase
<1>9. Heard'
  BY <1>1, <1>2 DEF Inv, Heard, PolicyLevel
<1> QED BY <1>4, <1>5, <1>6, <1>7, <1>8, <1>9 DEF Inv

LEMMA FinishStep ==
    ASSUME Inv, finishRun
    PROVE  Inv'
<1> USE Numbers
<1>1. /\ phase = Sweep /\ phase' = Done /\ verdict' = Verdict
      /\ UNCHANGED <<registered, interrupts, level, left, rearm, called, ended, report>>
  BY DEF finishRun
<1>2. Typed'
  BY <1>1 DEF Inv, Typed, Verdict
<1>3. \A i \in 1 .. Last : i <= phase /\ i <= phase' /\ i < phase /\ i < phase'
  BY <1>1
<1>4. CalledSoFar' /\ Observed'
  BY <1>1, <1>3 DEF Inv, CalledSoFar, Observed
<1>5. Concluded'
  BY <1>1 DEF Concluded, Verdict
<1>6. GraceHonoured'
  BY <1>1 DEF GraceHonoured, InPhase
<1>7. Heard'
  BY <1>1 DEF Inv, Heard, PolicyLevel
<1> QED BY <1>2, <1>4, <1>5, <1>6, <1>7 DEF Inv

LEMMA InitInv == Init => Inv
<1> SUFFICES ASSUME Init PROVE Inv
  OBVIOUS
<1> USE Numbers
<1>1. Typed
  <2>1. phase \in 0 .. Done
    BY DEF Init
  <2>2. rearm \in BOOLEAN
    BY Zenon DEF Init
  <2> QED BY <2>1, <2>2 DEF Init, Typed, Levels
<1>2. CalledSoFar /\ Observed
  BY DEF Init, CalledSoFar, Observed
<1>3. Concluded /\ GraceHonoured /\ Heard
  BY DEF Init, Concluded, GraceHonoured, InPhase, Heard, PolicyLevel
<1> QED BY <1>1, <1>2, <1>3 DEF Inv

LEMMA NextInv == Inv /\ [Next]_vars => Inv'
<1> SUFFICES ASSUME Inv, [Next]_vars PROVE Inv'
  OBVIOUS
<1>1. ASSUME NEW p \in Participants, register(p) PROVE Inv'
  BY <1>1, RegisterStep
<1> USE Numbers
<1>2. ASSUME NEW l \in Levels, requestShutdown(l) PROVE Inv'
  <2>1. begin(l) /\ phase = 0 /\ UNCHANGED <<interrupts, registered, ended, report, verdict>>
    BY <1>2 DEF requestShutdown, begin
  <2>2. interrupts' \in Nat /\ interrupts' <= 1
    BY <2>1 DEF Inv, Typed, Heard
  <2> QED BY <2>1, <2>2, BeginStep
<1>3. CASE firstInterrupt
  <2>1. interrupts = 0 /\ interrupts' = 1 /\ UNCHANGED <<registered, ended, report, verdict>>
    BY <1>3 DEF firstInterrupt
  <2>2. CASE begin(0)
    BY <2>1, <2>2, BeginStep
  <2>3. CASE phase # 0 /\ UNCHANGED <<level, waitVars>>
    BY <2>1, <2>3, IgnoredStep DEF PolicyLevel
  <2> QED BY <1>3, <2>2, <2>3 DEF firstInterrupt
<1>4. CASE laterInterrupt
  <2>1. /\ ~ rearm /\ interrupts > 0 /\ interrupts \in Nat /\ interrupts' = interrupts + 1
        /\ UNCHANGED <<registered, ended, report, verdict>>
    BY <1>4 DEF laterInterrupt, NextEvent, Inv, Typed
  <2>2. CASE interrupts <= 2
    <3>1. interrupts \in Levels /\ raiseLevel(interrupts)
      BY <1>4, <2>1, <2>2 DEF laterInterrupt, Levels
    <3>2. PICK l \in Levels : l = interrupts
      BY <3>1
    <3> QED BY <2>1, <3>1, <3>2, RaiseStep
  <2>3. CASE ~ interrupts <= 2
    <3>1. UNCHANGED <<level, waitVars>> /\ interrupts' \in Nat /\ PolicyLevel' = PolicyLevel
      BY <1>4, <2>1, <2>3 DEF laterInterrupt, PolicyLevel
    <3>2. phase # 0
      BY <2>1 DEF Inv, Heard
    <3> QED BY <2>1, <3>1, <3>2, IgnoredStep
  <2> QED BY <2>2, <2>3
<1>5. CASE Rearm
  BY <1>5, RearmStep
<1>6. CASE endPhase
  BY <1>6, EndPhaseStep
<1>7. CASE finishRun
  BY <1>7, FinishStep
<1>8. ASSUME NEW p \in Participants, NEW how \in {"completed", "failed"}, participantSettles(p, how)
      PROVE  Inv'
  BY <1>8, RestStep DEF participantSettles
<1>9. CASE TreeStep
  BY <1>9, RestStep DEF TreeStep
<1>10. CASE Tick
  BY <1>10, TickStep
<1>11. CASE UNCHANGED vars
  BY <1>11, RestStep DEF vars
<1> QED BY <1>1, <1>2, <1>3, <1>4, <1>5, <1>6, <1>7, <1>8, <1>9, <1>10, <1>11 DEF Next, Coordinator

------------------------------------------------------------------------------
(* The tree under the coordinator                                          *)

InMemory ==
    /\ nodes \subseteq Scopes /\ status \in [Scopes -> Tree!Statuses]
    /\ \A s \in nodes : Ancestors[s] \subseteq nodes

(* Around a scope: the scopes that a boundary could shelter it at.         *)
Way(s) == ({s} \cup Ancestors[s]) \ {Root}
Sheltered == \A s \in nodes : status[s] = "active" => Way(s) \cap cancellationBoundaries # {}
Swept     == \A s \in nodes : status[s] = "terminal" \/ s \in forcing

LEMMA Branches ==
    /\ Root \in Scopes /\ Ancestors \in [Scopes -> SUBSET Scopes] /\ Ancestors[Root] = {}
    /\ Parent \in [Scopes \ {Root} -> Scopes]
    /\ \A s \in Scopes \ {Root} :
          Ancestors[s] = {Parent[s]} \cup Ancestors[Parent[s]] /\ Root \in Ancestors[s]
    /\ \A s \in Scopes : s \notin Ancestors[s]
    /\ \A s \in Scopes : \A a \in Ancestors[s] :
          /\ Ancestors[a] \subseteq Ancestors[s]
          /\ \E c \in ({s} \cup Ancestors[s]) \ {Root} : Parent[c] = a
BY ScopesAssumption DEF Tree!TreeAssumption

(* Cancelling the root leaves nothing active that is not sheltered.        *)
LEMMA RootCancelled ==
    ASSUME InMemory, Tree!cancel(Root)
    PROVE  InMemory' /\ Sheltered' /\ forcing = {} /\ forcing' = {} /\ (Swept => Swept')
<1> USE Branches
<1> DEFINE own == {Root}
           below == Tree!cancellationReach(Root)
           stopped == {s \in own \cup below : status[s] = "active"}
<1>1. /\ Root \in nodes /\ forcing = {}
      /\ status' = [s \in Scopes |-> IF s \in stopped THEN "cancelling" ELSE status[s]]
      /\ UNCHANGED <<nodes, cancellationBoundaries, forcing>>
  BY DEF Tree!cancel, Tree!Stop, Tree!Idle, Tree!loopVars
<1>2. InMemory'
  BY <1>1 DEF InMemory, Tree!Statuses
<1>3. Sheltered'
  <2> SUFFICES ASSUME NEW s \in nodes, status'[s] = "active"
               PROVE  Way(s) \cap cancellationBoundaries # {}
    BY <1>1 DEF Sheltered, Way
  <2>1. s \in Scopes /\ s \notin stopped /\ status[s] = "active"
    BY <1>1 DEF InMemory
  <2>2. s # Root /\ s \notin below
    BY <2>1
  <2>3. Tree!Path(Root, s) = Way(s) /\ Way(s) \ {s} \subseteq nodes /\ Root \in Ancestors[s]
    BY <2>1, <2>2 DEF Tree!Path, Way, InMemory
  <2>4. s \in Tree!descendantsOf(Root)
    BY <1>1, <2>3 DEF Tree!descendantsOf, Tree!ancestorIdsOf
  <2> QED BY <2>2, <2>3, <2>4 DEF Tree!cancellationReach
<1>4. Swept => Swept'
  <2>1. Swept => \A s \in nodes : s \notin stopped
    BY <1>1 DEF Swept
  <2> QED BY <1>1, <2>1 DEF Swept, InMemory
<1> QED BY <1>1, <1>2, <1>3, <1>4

(* ... and a root that is gone has left nothing behind.                    *)
LEMMA RootStopped ==
    ASSUME InMemory, Tree!Idle, cancelRoot
    PROVE  InMemory' /\ Sheltered' /\ forcing = {} /\ forcing' = {} /\ (Swept => Swept')
<1>1. CASE Root \in nodes
  BY <1>1, RootCancelled DEF cancelRoot
<1>2. CASE Root \notin nodes
  <2>1. nodes = {}
    BY <1>2, Branches DEF InMemory
  <2>2. UNCHANGED <<nodes, status, forcing>> /\ forcing = {}
    BY <1>2 DEF cancelRoot, treeVars, Tree!Idle
  <2> QED BY <2>1, <2>2 DEF InMemory, Sheltered, Swept
<1> QED BY <1>1, <1>2

LEMMA Derived ==
    ASSUME InMemory, NEW s \in Scopes, Tree!derive(s)
    PROVE  /\ InMemory' /\ forcing = {} /\ forcing' = {}
           /\ (Sheltered => Sheltered') /\ (Swept => Swept')
<1> USE Branches
<1>1. /\ s # Root /\ s \notin nodes /\ forcing = {}
      /\ Parent[s] \in nodes /\ status[Parent[s]] # "terminal"
      /\ nodes' = nodes \cup {s}
      /\ status' = [status EXCEPT ![s] =
            IF status[Parent[s]] = "cancelling" THEN "cancelling" ELSE "active"]
      /\ UNCHANGED <<cancellationBoundaries, forcing>>
  BY DEF Tree!derive, Tree!Idle, Tree!Live, Tree!loopVars
<1>2. InMemory'
  <2>1. status' \in [Scopes -> Tree!Statuses] /\ nodes' \subseteq Scopes
    BY <1>1 DEF InMemory, Tree!Statuses
  <2>2. Ancestors[s] \subseteq nodes
    BY <1>1 DEF InMemory
  <2> QED BY <1>1, <2>1, <2>2 DEF InMemory
<1>3. Sheltered => Sheltered'
  <2> SUFFICES ASSUME Sheltered, NEW t \in nodes \cup {s}, status'[t] = "active"
               PROVE  Way(t) \cap cancellationBoundaries # {}
    BY <1>1 DEF Sheltered, Way
  <2>1. CASE t # s
    BY <1>1, <2>1 DEF Sheltered, InMemory
  <2>2. CASE t = s
    <3>1. status[Parent[s]] = "active"
      BY <1>1, <2>2 DEF InMemory, Tree!Statuses
    <3>2. Way(Parent[s]) \cap cancellationBoundaries # {}
      BY <1>1, <3>1 DEF Sheltered
    <3>3. Way(Parent[s]) \subseteq Way(s)
      BY <1>1 DEF Way
    <3> QED BY <2>2, <3>2, <3>3
  <2> QED BY <2>1, <2>2
<1>4. Swept => Swept'
  BY <1>1 DEF Swept
<1> QED BY <1>1, <1>2, <1>3, <1>4

LEMMA Bounded ==
    ASSUME InMemory, NEW s \in Scopes, NEW on \in BOOLEAN, Tree!cancellationBoundary(s, on)
    PROVE  /\ InMemory' /\ forcing = {} /\ forcing' = {}
           /\ (Sheltered => Sheltered') /\ (Swept => Swept')
<1> USE Branches
<1>1. /\ s \in nodes /\ s # Root /\ forcing = {} /\ UNCHANGED <<nodes, status, forcing>>
      /\ \/ cancellationBoundaries' = cancellationBoundaries \cup {s}
         \/ /\ Parent[s] \in nodes /\ status[Parent[s]] = "active"
            /\ cancellationBoundaries' = cancellationBoundaries \ {s}
  BY DEF Tree!cancellationBoundary, Tree!Idle, Tree!loopVars
<1>2. InMemory' /\ (Swept => Swept')
  BY <1>1 DEF InMemory, Swept
<1>3. CASE cancellationBoundaries' = cancellationBoundaries \cup {s}
  BY <1>1, <1>2, <1>3 DEF Sheltered, Way
<1>4. CASE /\ Parent[s] \in nodes /\ status[Parent[s]] = "active"
           /\ cancellationBoundaries' = cancellationBoundaries \ {s}
  <2> SUFFICES ASSUME Sheltered, NEW t \in nodes, status[t] = "active"
               PROVE  Way(t) \cap (cancellationBoundaries \ {s}) # {}
    BY <1>1, <1>2, <1>4 DEF Sheltered, Way
  <2>1. t \in Scopes /\ Way(t) \cap cancellationBoundaries # {}
    BY DEF Sheltered, InMemory
  <2>2. CASE s \notin Way(t)
    BY <2>1, <2>2
  <2>3. CASE s \in Way(t)
    <3>1. Way(Parent[s]) \cap cancellationBoundaries # {}
      BY <1>4 DEF Sheltered
    <3>2. s \notin Way(Parent[s])
      BY <1>1 DEF Way
    <3>3. Ancestors[s] \subseteq Ancestors[t]
      BY <2>1, <2>3 DEF Way
    <3>4. Way(Parent[s]) \subseteq Way(t)
      BY <1>1, <3>3 DEF Way
    <3> QED BY <3>1, <3>2, <3>4
  <2> QED BY <2>2, <2>3
<1> QED BY <1>1, <1>3, <1>4

LEMMA SettledScope ==
    ASSUME InMemory, NEW s \in Scopes, Tree!acknowledge(s) \/ Tree!forceSettle(s)
    PROVE  /\ InMemory' /\ (forcing = {} => forcing' = {})
           /\ (Sheltered => Sheltered') /\ (Swept => Swept')
<1>1. /\ status' = [status EXCEPT ![s] = "terminal"]
      /\ UNCHANGED <<nodes, cancellationBoundaries>> /\ forcing \ {s} \subseteq forcing'
      /\ forcing' \subseteq forcing
  BY DEF Tree!acknowledge, Tree!forceSettle, Tree!settle
<1>2. InMemory'
  BY <1>1 DEF InMemory, Tree!Statuses
<1>3. Sheltered => Sheltered'
  BY <1>1 DEF Sheltered, Way, InMemory
<1>4. Swept => Swept'
  BY <1>1 DEF Swept, InMemory
<1> QED BY <1>1, <1>2, <1>3, <1>4

LEMMA TrimmedScope ==
    ASSUME InMemory, Tree!TrimEvict
    PROVE  /\ InMemory' /\ forcing' = forcing
           /\ (Sheltered => Sheltered') /\ (Swept => Swept')
<1> USE Branches
<1> DEFINE s == retained[trim]
<1>1. /\ s \in nodes /\ Tree!children(s) = {} /\ nodes' = nodes \ {s}
      /\ cancellationBoundaries' = cancellationBoundaries \ {s}
      /\ status' = [status EXCEPT ![s] = "active"] /\ UNCHANGED forcing
  BY DEF Tree!TrimEvict, Tree!evict, Tree!loopVars
<1>2. \A t \in nodes : s \notin Ancestors[t]
  <2> SUFFICES ASSUME NEW t \in nodes, s \in Ancestors[t] PROVE FALSE
    OBVIOUS
  <2>1. PICK c \in ({t} \cup Ancestors[t]) \ {Root} : Parent[c] = s
    BY DEF InMemory
  <2>2. c \in nodes
    BY <2>1 DEF InMemory
  <2> QED BY <1>1, <2>1, <2>2 DEF Tree!children
<1>3. InMemory'
  BY <1>1, <1>2 DEF InMemory, Tree!Statuses
<1>4. \A t \in nodes \ {s} : status'[t] = status[t] /\ s \notin Way(t)
  BY <1>1, <1>2 DEF InMemory, Way
<1>5. Sheltered => Sheltered'
  <2> SUFFICES ASSUME Sheltered, NEW t \in nodes \ {s}, status'[t] = "active"
               PROVE  Way(t) \cap (cancellationBoundaries \ {s}) # {}
    BY <1>1 DEF Sheltered, Way
  <2> QED BY <1>4 DEF Sheltered
<1>6. Swept => Swept'
  BY <1>1, <1>4 DEF Swept
<1> QED BY <1>1, <1>3, <1>5, <1>6

LEMMA TreeKept ==
    ASSUME InMemory, TreeStep
    PROVE  /\ InMemory' /\ (forcing = {} => forcing' = {})
           /\ (Sheltered => Sheltered') /\ (Swept => Swept')
<1>1. CASE Tree!TrimSkip \/ Tree!TrimEnd
  <2>1. UNCHANGED <<nodes, status, cancellationBoundaries, forcing>>
    BY <1>1 DEF Tree!TrimSkip, Tree!TrimEnd, Tree!treeVars
  <2> QED BY <2>1 DEF InMemory, Sheltered, Way, Swept
<1> QED BY <1>1, Derived, Bounded, SettledScope, TrimmedScope DEF TreeStep, TreeCall, TreeLoop

Entered == \E i \in 1 .. Last : Phases[i] = CancelPhase /\ i <= phase

TreeInv ==
    /\ InMemory
    /\ Entered => Sheltered
    /\ phase >= Sweep => Swept
    /\ phase = Done => forcing = {}

(* The coordinator moves and the tree does not.                            *)
LEMMA StillTree ==
    ASSUME Inv, TreeInv, UNCHANGED treeVars, phase' \in Nat,
           \/ phase' = phase
           \/ phase = 0 /\ phase' = 1
           \/ /\ phase \in 1 .. Last /\ phase' = phase + 1
              /\ phase # Last /\ Phases[phase + 1] # CancelPhase
           \/ phase = Sweep /\ phase' = Done /\ forcing = {}
    PROVE  TreeInv'
<1> USE Numbers
<1>1. /\ InMemory' <=> InMemory
      /\ Sheltered' <=> Sheltered
      /\ Swept' <=> Swept
      /\ forcing' = forcing
  BY DEF treeVars, InMemory, Sheltered, Way, Swept
<1>2. phase \in Nat
  BY DEF Inv, Typed
<1>3. Entered' => Entered
  BY <1>2, ShutdownAssumption DEF Entered
<1> QED BY <1>1, <1>2, <1>3 DEF TreeInv

LEMMA TreeNext == Inv /\ TreeInv /\ [Next]_vars => TreeInv'
<1> SUFFICES ASSUME Inv, TreeInv, [Next]_vars PROVE TreeInv'
  OBVIOUS
<1> USE Numbers
<1>0. phase \in 0 .. Done /\ phase \in Nat /\ InMemory
  BY DEF Inv, Typed, TreeInv
<1>1. CASE \/ \E p \in Participants : register(p)
           \/ \E p \in Participants : \E how \in {"completed", "failed"} : participantSettles(p, how)
           \/ laterInterrupt \/ Rearm \/ Tick \/ UNCHANGED vars
  <2>1. UNCHANGED treeVars /\ phase' = phase
    BY <1>1 DEF register, participantSettles, laterInterrupt, raiseLevel, Rearm, Tick, vars, waitVars
  <2> QED BY <1>0, <2>1, StillTree
<1>2. CASE \E l \in Levels : requestShutdown(l)
  <2>1. UNCHANGED treeVars /\ phase = 0 /\ phase' = 1
    BY <1>2 DEF requestShutdown, begin, enterPhase
  <2> QED BY <2>1, StillTree
<1>3. CASE finishRun
  <2>1. UNCHANGED treeVars /\ phase = Sweep /\ phase' = Done /\ forcing = {}
    BY <1>3 DEF finishRun, NextEvent, Tree!Idle
  <2> QED BY <2>1, StillTree
<1>4. CASE firstInterrupt
  <2>1. Tree!Idle /\ cancelRoot /\ (phase' = phase \/ (phase = 0 /\ phase' = 1))
    BY <1>4 DEF firstInterrupt, begin, enterPhase, waitVars, NextEvent
  <2>2. InMemory' /\ Sheltered' /\ forcing = {} /\ forcing' = {} /\ (Swept => Swept')
    BY <1>0, <2>1, RootStopped
  <2> QED BY <2>1, <2>2 DEF TreeInv
<1>5. CASE endPhase
  <2>1. phase \in 1 .. Last
    BY <1>5 DEF endPhase, InPhase
  <2>2. CASE phase = Last
    <3>1. phase' = Sweep /\ forcing' = {s \in nodes : status[s] # "terminal"}
          /\ UNCHANGED <<nodes, status, cancellationBoundaries>>
      BY <1>5, <2>2 DEF endPhase, sweepTree, Tree!forceSettleUnacknowledged, Tree!treeVars
    <3>2. InMemory' /\ Swept' /\ (Sheltered => Sheltered')
      BY <1>0, <3>1 DEF InMemory, Swept, Sheltered, Way
    <3>3. Entered
      BY <2>2, ShutdownAssumption DEF Entered
    <3> QED BY <3>1, <3>2, <3>3 DEF TreeInv
  <2>3. CASE phase # Last /\ Phases[phase + 1] # CancelPhase
    <3>1. phase' = phase + 1 /\ UNCHANGED treeVars
      BY <1>5, <2>3 DEF endPhase, enterPhase, builtInWork
    <3> QED BY <1>0, <2>1, <2>3, <3>1, StillTree
  <2>4. CASE phase # Last /\ Phases[phase + 1] = CancelPhase
    <3>1. phase' = phase + 1 /\ Tree!Idle /\ cancelRoot
      BY <1>5, <2>4 DEF endPhase, enterPhase, builtInWork, NextEvent
    <3>2. InMemory' /\ Sheltered' /\ forcing' = {}
      BY <1>0, <3>1, RootStopped
    <3>3. ~ phase' >= Sweep
      BY <2>1, <2>4, <3>1
    <3> QED BY <3>2, <3>3 DEF TreeInv
  <2> QED BY <2>2, <2>3, <2>4
<1>6. CASE TreeStep
  <2>1. phase' = phase
    BY <1>6 DEF TreeStep, waitVars
  <2>2. /\ InMemory' /\ (forcing = {} => forcing' = {})
        /\ (Sheltered => Sheltered') /\ (Swept => Swept')
    BY <1>0, <1>6, TreeKept
  <2> QED BY <2>1, <2>2 DEF TreeInv, Entered
<1> QED BY <1>1, <1>2, <1>3, <1>4, <1>5, <1>6 DEF Next, Coordinator

LEMMA TreeInit == Init => TreeInv
<1> SUFFICES ASSUME Init PROVE TreeInv
  OBVIOUS
<1> USE Numbers, Branches
<1>1. /\ phase = 0 /\ nodes = {Root} /\ status = [s \in Scopes |-> "active"]
      /\ forcing = {}
  BY DEF Init, Tree!Init
<1>2. InMemory
  BY <1>1 DEF InMemory, Tree!Statuses
<1>3. ~ Entered
  BY <1>1 DEF Entered
<1> QED BY <1>1, <1>2, <1>3 DEF TreeInv

------------------------------------------------------------------------------
(* The theorems                                                            *)

(* The invariant of the coordinator (runPhase, shutdown, escalate) and of  *)
(* the scope tree it cancels and sweeps.                                   *)
THEOREM Invariance == Spec => [](Inv /\ TreeInv)
<1>1. Init => Inv /\ TreeInv
  BY InitInv, TreeInit
<1>2. (Inv /\ TreeInv) /\ [Next]_vars => (Inv /\ TreeInv)'
  BY NextInv, TreeNext
<1> QED BY <1>1, <1>2, PTL DEF Spec

(* The report of a shutdown (runPhase, the verdict in run) says completed  *)
(* or failed only of what was observed, for every number of phases and     *)
(* participants, whatever was forced and whoever hung.                     *)
THEOREM ReportIsHonest == Spec => []ReportHonest
<1>1. Inv => ReportHonest
  <2> SUFFICES ASSUME Inv, phase = Done PROVE ReportHonest
    BY DEF ReportHonest
  <2>1. \A p \in registered : \E i \in 1 .. Last : PhaseOf[p] = Phases[i]
    BY ShutdownAssumption DEF Inv, Typed
  <2>2. \A i \in 1 .. Last : i <= phase /\ i < phase
    BY Numbers
  <2>3. called = registered
    BY <2>1, <2>2 DEF Inv, Typed, CalledSoFar
  <2>4. \A p \in registered : report[p] # "none" /\ p \in Participants
    BY <2>1, <2>2 DEF Inv, Typed, Observed
  <2>5. verdict = Verdict
    BY DEF Inv, Concluded
  <2>6. \A p \in registered : report[p] \in {"completed", "failed", "timed-out"}
    BY <2>4 DEF Inv, Typed
  <2> QED BY <2>3, <2>4, <2>5, <2>6 DEF ReportHonest, Verdict, Inv, Observed
<1> QED BY Invariance, <1>1, PTL

(* After every rise of the level (escalate) the wait of the phase is no    *)
(* longer than the new grace.                                              *)
THEOREM GraceIsHonoured == Spec => []GraceHonoured
<1>1. Inv => GraceHonoured
  BY DEF Inv
<1> QED BY Invariance, <1>1, PTL

(* The wait of every phase (graceForLevel in runPhase) is as short as the  *)
(* interrupts counted by createInterruptionPolicy ask, for every number of *)
(* interrupts and every start of the shutdown.                             *)
THEOREM InterruptsAreHeard == Spec => []InterruptsHeard
<1>1. Inv => InterruptsHeard
  <2> SUFFICES ASSUME Inv, InPhase, ~ rearm, Outstanding # {}
               PROVE  left <= Grace[PolicyLevel]
    BY DEF InterruptsHeard, Inv, Heard
  <2>1. left \in Nat /\ level \in Levels /\ PolicyLevel \in Levels /\ PolicyLevel <= level
    BY Numbers DEF Inv, Typed, Heard, PolicyLevel
  <2>2. left <= Grace[level]
    BY DEF Inv, GraceHonoured
  <2>3. Grace[level] <= Grace[PolicyLevel]
    BY <2>1, ShutdownAssumption
  <2> QED BY <2>1, <2>2, <2>3, Numbers
<1> QED BY Invariance, <1>1, PTL

(* The re-armed wait of runPhase never gives a phase more time.            *)
THEOREM GraceShrinks == Spec => GraceOnlyShrinks
<1>1. ASSUME Inv, [Next]_vars PROVE [InPhase /\ phase' = phase => left' <= left]_vars
  <2> SUFFICES ASSUME InPhase, phase' = phase PROVE left' <= left
    OBVIOUS
  <2> USE Numbers
  <2>0. left \in Nat /\ phase \in 1 .. Last /\ level \in Levels /\ phase # 0
    BY <1>1 DEF Inv, Typed, InPhase
  <2>1. CASE \/ \E p \in Participants : register(p)
             \/ \E p \in Participants : \E how \in {"completed", "failed"} : participantSettles(p, how)
             \/ TreeStep \/ laterInterrupt \/ finishRun \/ UNCHANGED vars
    BY <2>0, <2>1 DEF register, participantSettles, TreeStep, laterInterrupt, raiseLevel, finishRun, vars, waitVars
  <2>2. CASE firstInterrupt \/ \E l \in Levels : requestShutdown(l)
    BY <2>0, <2>2 DEF firstInterrupt, requestShutdown, begin, waitVars
  <2>3. CASE Rearm \/ Tick
    BY <2>0, <2>3 DEF Rearm, Tick
  <2>4. CASE endPhase
    BY <2>0, <2>4 DEF endPhase, enterPhase
  <2> QED BY <1>1, <2>1, <2>2, <2>3, <2>4 DEF Next, Coordinator
<1> QED BY Invariance, <1>1, PTL DEF Spec, GraceOnlyShrinks

(* From the cancellation phase on nothing is active in the tree without a  *)
(* boundary above it, for every tree and every order of calls.             *)
THEOREM StopReachesAll == Spec => []ActiveIsSheltered
<1>1. TreeInv => ActiveIsSheltered
  BY DEF TreeInv, Entered, Sheltered, Way, ActiveIsSheltered
<1> QED BY Invariance, <1>1, PTL

(* Once the shutdown has reported, the forced settlement has left no live  *)
(* scope, and none comes to life afterwards.                               *)
THEOREM NoneSurvives == Spec => []NothingSurvives
<1>1. Inv /\ TreeInv => NothingSurvives
  BY Numbers DEF TreeInv, Swept, NothingSurvives
<1> QED BY Invariance, <1>1, PTL

------------------------------------------------------------------------------
(* The tree under a coordinator is a tree                                  *)

(* What the coordinator and the rest of the program do to the scopes are   *)
(* calls of the tree and steps of its loops.                               *)
LEMMA TreeIsCalled ==
    ASSUME [Next]_vars
    PROVE  [Tree!Next]_(Tree!vars)
<1>1. ASSUME UNCHANGED <<treeVars, now>> PROVE UNCHANGED Tree!vars
  BY <1>1 DEF treeVars, Tree!vars, Tree!treeVars, Tree!effectVars, Tree!retentionVars,
     Tree!loopVars
<1>2. cancelRoot => Tree!Next \/ UNCHANGED Tree!vars
  BY <1>1, Branches DEF cancelRoot, Tree!Next
<1>3. CASE \/ \E p \in Participants : register(p)
           \/ \E p \in Participants : \E how \in {"completed", "failed"} : participantSettles(p, how)
           \/ \E l \in Levels : requestShutdown(l)
           \/ laterInterrupt \/ Rearm \/ Tick \/ finishRun \/ UNCHANGED vars
  BY <1>1, <1>3 DEF register, participantSettles, requestShutdown, laterInterrupt, Rearm, Tick,
     finishRun, vars
<1>4. CASE firstInterrupt
  BY <1>2, <1>4 DEF firstInterrupt
<1>5. CASE endPhase
  BY <1>1, <1>2, <1>5 DEF endPhase, builtInWork, sweepTree, Tree!Next
<1>6. CASE TreeStep
  BY <1>6 DEF TreeStep, TreeCall, TreeLoop, Tree!Next
<1> QED BY <1>3, <1>4, <1>5, <1>6 DEF Next, Coordinator

(* Shutdown composed with the tree implements the tree: the coordinator    *)
(* and the interruption ladder reach the scopes through the tree's own     *)
(* operations only, one at a time and never inside one of its loops.       *)
THEOREM TreeRefinement == Spec => Tree!Spec
<1>1. Init => Tree!Init
  BY DEF Init
<1>2. [Next]_vars => [Tree!Next]_(Tree!vars)
  BY TreeIsCalled
<1> QED BY <1>1, <1>2, PTL DEF Spec, Tree!Spec

------------------------------------------------------------------------------
(* The tree's theorems, for the scopes of the composed program.  Tree and  *)
(* TP name the same definitions; each pair below is the same formula once  *)
(* it is expanded.                                                         *)
TP == INSTANCE ScopeTreeProofs

LEMMA SameNumbers == \A S : Tree!Cardinality(S) = TP!Cardinality(S)
BY DEF Tree!Cardinality, TP!Cardinality

USE DEF Tree!vars, Tree!treeVars, Tree!effectVars, Tree!retentionVars, Tree!loopVars,
        TP!vars, TP!treeVars, TP!effectVars, TP!retentionVars, TP!loopVars

USE DEF Tree!NoEffect, Tree!CompletedEffect, Tree!PartialEffect, Tree!UncertainEffect,
        Tree!EffectCertainty, Tree!worstEffect, Tree!outcome, Tree!NoOutcome,
        Tree!timeoutOutcomeFor, Tree!cancellationOutcomeFor,
        TP!NoEffect, TP!CompletedEffect, TP!PartialEffect, TP!UncertainEffect,
        TP!EffectCertainty, TP!worstEffect, TP!outcome, TP!NoOutcome,
        TP!timeoutOutcomeFor, TP!cancellationOutcomeFor

USE DEF Tree!Idle, Tree!Live, Tree!Path, Tree!ancestorIdsOf, Tree!descendantsOf, Tree!children,
        Tree!hasTombstone, Tree!tombstoneIndex, Tree!RemoveIndex, Tree!forgetTombstone,
        TP!Idle, TP!Live, TP!Path, TP!ancestorIdsOf, TP!descendantsOf, TP!children,
        TP!hasTombstone, TP!tombstoneIndex, TP!RemoveIndex, TP!forgetTombstone

LEMMA SameAssumptions == TP!TreeAssumption /\ TP!ScopeLimits
BY ScopesAssumption DEF Tree!TreeAssumption, TP!TreeAssumption, Tree!ScopeLimits, TP!ScopeLimits,
   Tree!IsFiniteSet, TP!IsFiniteSet

LEMMA SameInit == Tree!Init => TP!Init
BY DEF Tree!Init, TP!Init

LEMMA SameNext == Tree!Next => TP!Next
<1>1. ASSUME NEW s \in Scopes PROVE Tree!derive(s) => TP!derive(s)
  BY SameNumbers DEF Tree!derive, TP!derive
<1>2. /\ \A s \in Scopes : Tree!cancel(s) => TP!cancel(s)
      /\ Tree!expireDeadlines => TP!expireDeadlines
  BY DEF Tree!cancel, TP!cancel, Tree!expireDeadlines, TP!expireDeadlines, Tree!Stop, TP!Stop,
     Tree!cancellationReach, TP!cancellationReach
<1>3. ASSUME NEW s \in Scopes, NEW on \in BOOLEAN
      PROVE  Tree!cancellationBoundary(s, on) => TP!cancellationBoundary(s, on)
  BY DEF Tree!cancellationBoundary, TP!cancellationBoundary
<1>4. ASSUME NEW s \in Scopes
      PROVE  /\ Tree!complete(s) => TP!complete(s)
             /\ Tree!fail(s) => TP!fail(s)
             /\ Tree!acknowledge(s) => TP!acknowledge(s)
             /\ Tree!forceSettle(s) => TP!forceSettle(s)
  BY DEF Tree!complete, TP!complete, Tree!fail, TP!fail, Tree!acknowledge, TP!acknowledge,
     Tree!forceSettle, TP!forceSettle, Tree!settle, TP!settle, Tree!foldIntoAncestors,
     TP!foldIntoAncestors, Tree!foldInto, TP!foldInto, Tree!totalEffectOf, TP!totalEffectOf
<1>5. ASSUME NEW s \in Scopes, NEW e \in Reported
      PROVE  /\ Tree!recordEffect(s, e) => TP!recordEffect(s, e)
             /\ Tree!recordLateEffect(s, e) => TP!recordLateEffect(s, e)
  BY DEF Tree!recordEffect, TP!recordEffect, Tree!recordLateEffect, TP!recordLateEffect,
     Tree!Learn, TP!Learn, Tree!foldIntoAncestors, TP!foldIntoAncestors, Tree!foldInto, TP!foldInto
<1>6. /\ Tree!forceSettleUnacknowledged => TP!forceSettleUnacknowledged
      /\ Tree!TrimEvict => TP!TrimEvict
      /\ Tree!TrimSkip => TP!TrimSkip
      /\ Tree!TrimEnd => TP!TrimEnd
      /\ Tree!Tick => TP!Tick
  BY DEF Tree!forceSettleUnacknowledged, TP!forceSettleUnacknowledged, Tree!TrimEvict, TP!TrimEvict,
     Tree!TrimSkip, TP!TrimSkip, Tree!TrimEnd, TP!TrimEnd, Tree!TrimGoesOn, TP!TrimGoesOn,
     Tree!evict, TP!evict, Tree!remembered, TP!remembered, Tree!Tick, TP!Tick
<1> QED BY <1>1, <1>2, <1>3, <1>4, <1>5, <1>6 DEF Tree!Next, TP!Next

LEMMA SameTree == Spec => TP!Spec
<1>1. [Tree!Next]_(Tree!vars) => [TP!Next]_(TP!vars)
  BY SameNext
<1> QED BY <1>1, SameInit, TreeRefinement, PTL DEF Tree!Spec, TP!Spec

(* Every variable of the coordinator and of the tree keeps its type.       *)
THEOREM Typing == Spec => []TypeOK
<1>1. TP!TypeOK => Tree!TypeOK
  BY DEF TP!TypeOK, Tree!TypeOK, TP!Statuses, Tree!Statuses, TP!Reasons, Tree!Reasons,
     TP!Outcomes, Tree!Outcomes, TP!OutcomeKinds, Tree!OutcomeKinds, TP!Tombstones, Tree!Tombstones
<1>2. Inv /\ Tree!TypeOK => TypeOK
  BY DEF Inv, Typed, TypeOK
<1>3. TP!Spec => []TP!TypeOK
  BY SameAssumptions, TP!Typing
<1> QED BY <1>1, <1>2, <1>3, Invariance, SameTree, PTL

(* While the runtime shuts down the tree stays what its own theorems say:  *)
(* no scope in memory is orphaned, retention and the live count are exact, *)
(* and no scope below a stopped one runs on unless a boundary shelters it, *)
(* whichever of interrupt, phase, forced sweep or owner acts next.         *)
THEOREM TreeStaysSound ==
    Spec => [](Tree!ChainIntact /\ Tree!RetentionExact /\ Tree!NoEscape)
<1>1. TP!ChainIntact => Tree!ChainIntact
  BY DEF TP!ChainIntact, Tree!ChainIntact
<1>2. TP!RetentionExact => Tree!RetentionExact
  BY SameNumbers DEF TP!RetentionExact, Tree!RetentionExact
<1>3. TP!NoEscape => Tree!NoEscape
  BY DEF TP!NoEscape, Tree!NoEscape
<1>4. TP!Spec => [](TP!ChainIntact /\ TP!RetentionExact /\ TP!NoEscape)
  BY SameAssumptions, TP!ChainStays, TP!RetentionStays, TP!NoneEscapes, PTL
<1> QED BY <1>1, <1>2, <1>3, <1>4, SameTree, PTL

(* The outcome a scope settled with stays as it was read: the forced sweep *)
(* after the last phase rewrites no scope that had settled by itself, and  *)
(* nothing that comes later rewrites what the sweep said.                  *)
THEOREM OutcomesStay == Spec => Tree!SettledIsFrozen
<1> DEFINE Kept ==
      \A s \in nodes \cap nodes' :
          /\ effect'[s] >= effect[s]
          /\ settledDescendantEffect'[s] >= settledDescendantEffect[s]
          /\ status[s] = "terminal" =>
                /\ status'[s] = "terminal" /\ result'[s] = result[s]
                /\ effect'[s] = effect[s] /\ reason'[s] = reason[s]
<1>1. TP!SettledIsFrozen => Tree!SettledIsFrozen
  <2>1. [Kept]_(TP!vars) => [Kept]_(Tree!vars)
    OBVIOUS
  <2> QED BY <2>1, PTL DEF TP!SettledIsFrozen, Tree!SettledIsFrozen
<1>2. TP!Spec => TP!SettledIsFrozen
  BY SameAssumptions, TP!SettledStays
<1> QED BY <1>1, <1>2, SameTree, PTL
==============================================================================
