--------------------------- MODULE SchedulesProofs ---------------------------
(***************************************************************************)
(* Proofs about Schedules: for every set of hosts and slots, every overlap *)
(* policy and any number of crashes, a slot's effect starts at most once,  *)
(* no living execution is written off, an uncertain attempt holds the      *)
(* schedule, verdicts are final and queue-latest queues one occurrence.    *)
(*                                                                         *)
(* None of them is inductive by itself.  What makes them so is Attempts:   *)
(* a slot that was not admitted has no attempt, no execution and no past   *)
(* one; an execution has a living owner and an attempt that is open or     *)
(* given up; a settlement between its read and its write finds its attempt *)
(* open.  The hold rests on Held, and the queue on the generations of the  *)
(* slots never being ahead of the definition's.                            *)
(***************************************************************************)
EXTENDS Schedules, FiniteSetTheorems, TLAPS

Attempts ==
    \A s \in Slots :
        /\ slot[s] # "admitted" =>
              attempt[s] = "none" /\ run[s] = "none" /\ executions[s] = 0
        /\ executions[s] <= 1
        /\ run[s] = "validating" => executions[s] = 0
        /\ run[s] # "none" => owner[s] \in Hosts /\ attempt[s] \in {"open", "abandoned"}
        /\ run[s] = "settling" => attempt[s] = "open"

Held == unseen => state # "enabled"

Queue ==
    /\ \A s \in Slots : slotGen[s] <= generation
    /\ overlap = "queue-latest" =>
          \A s, t \in Slots :
              slot[s] = "pending" /\ slotGen[s] = generation
              /\ slot[t] = "pending" /\ slotGen[t] = generation => s = t

Inv == TypeOK /\ Attempts /\ Held /\ Queue

------------------------------------------------------------------------------
(* Types                                                                   *)

LEMMA ReviseTyped ==
    ASSUME TypeOK, NEW by, Revise(by)
    PROVE  same' \in [Hosts -> BOOLEAN]
BY Zenon DEF TypeOK, Revise

LEMMA GoTyped ==
    ASSUME TypeOK, NEW h \in Hosts, NEW page \in SUBSET Slots,
           NEW where \in {"idle", "recover", "admit", "validate", "claim"}, Go(h, where, page)
    PROVE  pc' \in [Hosts -> {"idle", "recover", "admit", "validate", "claim"}]
           /\ todo' \in [Hosts -> SUBSET Slots]
BY DEF TypeOK, Go

LEMMA SameTyped ==
    ASSUME TypeOK, NEW h \in Hosts, NEW b \in BOOLEAN, same' = [same EXCEPT ![h] = b]
    PROVE  same' \in [Hosts -> BOOLEAN]
BY Zenon DEF TypeOK

LEMMA SettledTyped ==
    ASSUME TypeOK, NEW S \in SUBSET Slots, NEW how \in {"none"} \cup Terminal, settled(S, how)
    PROVE  /\ attempt' \in [Slots -> {"none", "open"} \cup Terminal]
           /\ cancelReq' \subseteq Slots
           /\ unseen' \in BOOLEAN
BY DEF TypeOK, settled

(* A change of the tick's own state, of the record or of the stops.        *)
LEMMA TickTyped ==
    ASSUME TypeOK, NEW h \in Hosts, NEW s, UNCHANGED stops,
           \/ tick(h) \/ leaveAdmit(h) \/ recoverOwned(h, s) \/ inspectUnavailable(h, s) \/
              stillThere(h, s)
           \/ admit(h, s) \/ authorityChanged(h, s) \/ clearBlocker(h, s)
    PROVE  TypeOK'
<1>1. CASE tick(h)
  BY <1>1, ReviseTyped, SameTyped, GoTyped
     DEF TypeOK, tick, Open, recordVars, slotVars, attemptVars, tickVars, runVars
<1>2. CASE recoverOwned(h, s)
  BY <1>2, ReviseTyped, SameTyped, GoTyped
     DEF TypeOK, recoverOwned, At1st, Visited, recordVars, slotVars, attemptVars, tickVars,
        runVars
<1>3. CASE inspectUnavailable(h, s)
  BY <1>3, ReviseTyped, SameTyped, GoTyped
     DEF TypeOK, inspectUnavailable, Visited, recordVars, slotVars, attemptVars, tickVars,
        runVars
<1>4. CASE stillThere(h, s)
  BY <1>4, ReviseTyped, SameTyped, GoTyped
     DEF TypeOK, stillThere, identityKnown, Visited, recordVars, slotVars, attemptVars,
        tickVars, runVars
<1>5. CASE admit(h, s)
  BY <1>5, ReviseTyped, SameTyped, GoTyped
     DEF TypeOK, admit, Visited, Stay, recordVars, slotVars, attemptVars, tickVars, runVars
<1>6. CASE authorityChanged(h, s)
  BY <1>6, ReviseTyped, SameTyped, GoTyped
     DEF TypeOK, authorityChanged, Visited, recordVars, slotVars, attemptVars, tickVars, runVars
<1>7. CASE clearBlocker(h, s)
  BY <1>7, ReviseTyped, SameTyped, GoTyped
     DEF TypeOK, clearBlocker, Stay, recordVars, slotVars, attemptVars, tickVars, runVars
<1>8. CASE leaveAdmit(h)
  BY <1>8, ReviseTyped, SameTyped, GoTyped
     DEF TypeOK, leaveAdmit, recordVars, slotVars, attemptVars, tickVars, runVars
<1> QED BY <1>1, <1>2, <1>3, <1>4, <1>5, <1>6, <1>7, <1>8

LEMMA BatchTyped ==
    ASSUME TypeOK, NEW S \in SUBSET Slots, \E B \in Batch(S) : superseded(B)
    PROVE  /\ slot' \in [Slots -> {"none", "pending", "admitted", "skipped", "coalesced",
                                   "superseded"}]
           /\ \A s \in Slots : slot'[s] # slot[s] => s \in S /\ slot'[s] = "superseded"
BY DEF TypeOK, Batch, superseded

LEMMA UserTyped ==
    ASSUME TypeOK, UNCHANGED stops, User \/ \E s \in Slots : decide(s)
    PROVE  TypeOK'
<1> USE SchedulesAssumption DEF TypeOK, recordVars, slotVars, attemptVars, tickVars, runVars
<1>1. CASE enable
  BY <1>1, ReviseTyped DEF enable
<1>2. CASE pause
  BY <1>2, ReviseTyped DEF pause
<1>3. CASE update
  <2>1. generation' \in 1 .. MaxGeneration
    BY <1>3 DEF update
  <2>2. Pending \in SUBSET Slots
    BY DEF Pending
  <2> QED BY <1>3, <2>1, <2>2, ReviseTyped, BatchTyped DEF update
<1>4. CASE delete
  BY <1>4, ReviseTyped, BatchTyped DEF delete, Pending
<1>5. ASSUME NEW s \in Slots, cancel(s) PROVE TypeOK'
  BY <1>5 DEF cancel
<1>6. ASSUME NEW s \in Slots, decide(s) PROVE TypeOK'
  BY <1>6 DEF decide
<1> QED BY <1>1, <1>2, <1>3, <1>4, <1>5, <1>6 DEF User

(* The steps that claim, execute, settle or end an attempt.                *)
LEMMA AttemptTyped ==
    ASSUME TypeOK, NEW h \in Hosts, NEW s \in Slots, NEW how \in Terminal, UNCHANGED stops,
           \/ reconciled(h, s, how) \/ claim(h, s) \/ claimRefused(h, s)
           \/ execute(s) \/ returned(s, how) \/ settle(s)
    PROVE  TypeOK'
<1> USE DEF TypeOK, recordVars, slotVars, attemptVars, tickVars, runVars
<1>1. CASE reconciled(h, s, how)
  <2>1. {s} \cap Open \in SUBSET Slots
    BY DEF Open
  <2>2. same' \in [Hosts -> BOOLEAN]
    BY <1>1, ReviseTyped DEF reconciled, hold, identityKnown
  <2> QED BY <1>1, <2>1, <2>2, SettledTyped, GoTyped
          DEF reconciled, hold, identityKnown, Visited
<1>2. CASE claim(h, s)
  BY <1>2, SameTyped, GoTyped DEF claim, Visited
<1>3. CASE claimRefused(h, s)
  BY <1>3, SameTyped, GoTyped DEF claimRefused, Visited
<1>4. CASE execute(s)
  BY <1>4 DEF execute
<1>5. CASE returned(s, how)
  BY <1>5 DEF returned
<1>6. CASE settle(s)
  <2>1. {s} \ raced \in SUBSET Slots
    OBVIOUS
  <2>2. same' \in [Hosts -> BOOLEAN]
    BY <1>6, ReviseTyped DEF settle, saveAttempt, hold
  <2> QED BY <1>6, <2>1, <2>2, SettledTyped DEF settle, saveAttempt, hold
<1> QED BY <1>1, <1>2, <1>3, <1>4, <1>5, <1>6

LEMMA HostTyped ==
    ASSUME TypeOK, NEW h \in Hosts, UNCHANGED stops, retire(h) \/ closeEnds(h) \/ start(h)
    PROVE  TypeOK'
<1> USE DEF TypeOK, recordVars, slotVars, attemptVars, tickVars, runVars
<1>1. CASE retire(h)
  <2>1. Stale \in SUBSET Slots /\ Runnable \in SUBSET Slots
    BY DEF Stale, Runnable, Pending
  <2> QED BY <1>1, <2>1, BatchTyped, GoTyped DEF retire
<1>2. CASE closeEnds(h)
  <2>1. active(h) \cap Open \in SUBSET Slots
    BY DEF Open
  <2>2. same' \in [Hosts -> BOOLEAN]
    BY <1>2, ReviseTyped DEF closeEnds, saveAttempt, hold
  <2>3. "abandoned" \in Terminal
    BY DEF Terminal, Uncertain
  <2> QED BY <1>2, <2>1, <2>2, <2>3, SettledTyped DEF closeEnds, saveAttempt, hold
<1>3. CASE start(h)
  BY <1>3 DEF start
<1> QED BY <1>1, <1>2, <1>3

LEMMA StopTyped ==
    ASSUME TypeOK, NEW h \in Hosts, close(h) \/ crash(h), stops < MaxStops, stops' = stops + 1
    PROVE  TypeOK'
<1> USE SchedulesAssumption DEF TypeOK, recordVars, slotVars, attemptVars, tickVars, runVars
<1>1. CASE close(h)
  BY <1>1 DEF close
<1>2. CASE crash(h)
  <2>1. life' \in [Hosts -> {"up", "closing", "closed", "down"}]
    BY <1>2 DEF crash
  <2>2. owner' \in [Slots -> Hosts \cup {NoHost}]
    BY <1>2 DEF crash
  <2>3. run' \in [Slots -> {"none", "validating", "executing", "settling"}]
    BY <1>2 DEF crash
  <2>4. outcome' \in [Slots -> {"none"} \cup Terminal]
    BY <1>2 DEF crash
  <2>5. stop' \subseteq Slots /\ raced' \subseteq Slots
    BY <1>2 DEF crash
  <2>6. same' \in [Hosts -> BOOLEAN]
    BY <1>2, SameTyped DEF crash
  <2>7. /\ pc' \in [Hosts -> {"idle", "recover", "admit", "validate", "claim"}]
        /\ todo' \in [Hosts -> SUBSET Slots]
    BY <1>2, GoTyped DEF crash
  <2> QED BY <1>2, <2>1, <2>2, <2>3, <2>4, <2>5, <2>6, <2>7 DEF crash
<1> QED BY <1>1, <1>2

------------------------------------------------------------------------------
(* The invariant is inductive                                              *)

Rest == Attempts /\ Held /\ Queue

(* A step that leaves the attempts and slots alone and enables nothing.    *)
LEMMA QuietKeeps ==
    ASSUME Rest, UNCHANGED <<slot, slotGen, generation, attempt, owner, run, executions,
       unseen>>,
           state' = state \/ state' # "enabled"
    PROVE  Rest'
BY DEF Rest, Attempts, Held, Queue, overlap

LEMMA QuietSteps ==
    ASSUME Rest, NEW h, NEW s,
           \/ pause \/ cancel(s) \/ start(h) \/ close(h)
           \/ tick(h) \/ recoverOwned(h, s) \/ inspectUnavailable(h, s) \/ stillThere(h, s)
           \/ admit(h, s) \/ authorityChanged(h, s) \/ clearBlocker(h, s) \/ leaveAdmit(h)
    PROVE  Rest'
BY QuietKeeps DEF pause, cancel, start, close, tick, recoverOwned, inspectUnavailable,
   stillThere,
   admit, authorityChanged, clearBlocker, leaveAdmit, recordVars, slotVars, attemptVars,
      tickVars, runVars

LEMMA DecideKeeps ==
    ASSUME Inv, NEW s \in Slots, decide(s)
    PROVE  Rest'
<1> USE SchedulesAssumption DEF Inv, TypeOK, Terminal, Uncertain, recordVars, slotVars,
   attemptVars, tickVars, runVars
<1>0. /\ slotGen' = [slotGen EXCEPT ![s] = generation] /\ slot[s] = "none"
      /\ \A t \in Slots : slot'[t] =
            IF /\ overlap = "queue-latest" /\ t \in queuedWith(s)
               /\ \E later \in queuedWith(s) : later > t
            THEN "coalesced"
            ELSE IF t = s THEN "pending" ELSE slot[t]
      /\ UNCHANGED <<state, generation, attempt, owner, unseen, run, executions>>
  BY DEF decide
<1>1. Attempts'
  <2>1. \A t \in queuedWith(s) : slot[t] \in {"none", "pending"}
    BY <1>0 DEF queuedWith, Pending
  <2>2. \A t \in Slots : slot'[t] # slot[t] => slot[t] # "admitted" /\ slot'[t] # "admitted"
    BY <1>0, <2>1
  <2> QED BY <1>0, <2>2 DEF Attempts
<1>2. Held'
  BY <1>0 DEF Held
<1>3. Queue'
  <2>1. \A t \in Slots : slotGen'[t] <= generation'
    BY <1>0 DEF Queue
  <2>2. overlap' = overlap
    BY <1>0 DEF overlap
  <2>3. ASSUME overlap = "queue-latest", NEW t \in Slots, NEW u \in Slots,
               slot'[t] = "pending", slotGen'[t] = generation,
               slot'[u] = "pending", slotGen'[u] = generation
        PROVE  t = u
    <3>1. t \in queuedWith(s) /\ u \in queuedWith(s)
      BY <1>0, <2>3 DEF queuedWith, Pending
    <3>2. ~ u > t /\ ~ t > u
      BY <1>0, <2>3, <3>1
    <3> QED BY <3>2
  <2> QED BY <1>0, <2>1, <2>2, <2>3 DEF Queue
<1> QED BY <1>1, <1>2, <1>3 DEF Rest

LEMMA EnableKeeps ==
    ASSUME Inv, enable
    PROVE  Rest'
<1> USE SchedulesAssumption DEF Inv, TypeOK, Terminal, Uncertain, recordVars, slotVars,
   attemptVars, tickVars, runVars
<1>1. Attempts'
  BY DEF Attempts, enable
<1>2. Held'
  BY DEF Held, enable
<1>3. Queue'
  BY DEF Queue, overlap, enable
<1> QED BY <1>1, <1>2, <1>3 DEF Rest

LEMMA UpdateKeeps ==
    ASSUME Inv, update
    PROVE  Rest'
<1> USE SchedulesAssumption DEF Inv, TypeOK, Terminal, Uncertain, recordVars, slotVars,
   attemptVars, tickVars, runVars
<1>1. Attempts'
  BY DEF Attempts, update, superseded, Batch, Pending
<1>2. Held'
  BY DEF Held, update, superseded, Batch, Pending
<1>3. Queue'
  BY DEF Queue, overlap, update, superseded, Batch, Pending
<1> QED BY <1>1, <1>2, <1>3 DEF Rest

LEMMA DeleteKeeps ==
    ASSUME Inv, delete
    PROVE  Rest'
<1> USE SchedulesAssumption DEF Inv, TypeOK, Terminal, Uncertain, recordVars, slotVars,
   attemptVars, tickVars, runVars
<1>1. Attempts'
  BY DEF Attempts, delete, superseded, Batch, Pending
<1>2. Held'
  BY DEF Held, delete, superseded, Batch, Pending
<1>3. Queue'
  BY DEF Queue, overlap, delete, superseded, Batch, Pending
<1> QED BY <1>1, <1>2, <1>3 DEF Rest

LEMMA ReconciledKeeps ==
    ASSUME Inv, NEW h \in Hosts, NEW s \in Slots, NEW how \in Terminal, reconciled(h, s, how)
    PROVE  Rest'
<1> USE SchedulesAssumption DEF Inv, TypeOK, Terminal, Uncertain, recordVars, slotVars,
   attemptVars, tickVars, runVars
<1>1. Attempts'
  BY DEF Attempts, reconciled, settled, Holds, hold, Open
<1>2. Held'
  BY DEF Held, reconciled, settled, Holds, hold, Open
<1>3. Queue'
  BY DEF Queue, overlap, reconciled, settled, Holds, hold, Open
<1> QED BY <1>1, <1>2, <1>3 DEF Rest

LEMMA RetireKeeps ==
    ASSUME Inv, NEW h \in Hosts, retire(h)
    PROVE  Rest'
<1> USE DEF Inv, TypeOK, recordVars, slotVars, attemptVars, tickVars, runVars
<1>1. Stale \in SUBSET Slots /\ \A s \in Stale : slot[s] = "pending"
  BY DEF Stale, Pending
<1>2. \A s \in Slots : slot'[s] # slot[s] => slot[s] = "pending" /\ slot'[s] = "superseded"
  BY <1>1, BatchTyped DEF retire
<1>3. UNCHANGED <<slotGen, generation, attempt, owner, run, executions, unseen, state>>
  BY DEF retire
<1>4. Attempts'
  BY <1>2, <1>3 DEF Attempts
<1>5. Held'
  BY <1>3 DEF Held
<1>6. Queue'
  BY <1>2, <1>3 DEF Queue, overlap
<1> QED BY <1>4, <1>5, <1>6 DEF Rest

LEMMA ClaimKeeps ==
    ASSUME Inv, NEW h \in Hosts, NEW s \in Slots, claim(h, s)
    PROVE  Rest'
<1> USE SchedulesAssumption DEF Inv, TypeOK, Terminal, Uncertain, recordVars, slotVars,
   attemptVars, tickVars, runVars
<1>1. Attempts'
  BY DEF Attempts, claim, Claimable
<1>2. Held'
  BY DEF Held, claim, Claimable
<1>3. Queue'
  BY DEF Queue, overlap, claim, Claimable
<1> QED BY <1>1, <1>2, <1>3 DEF Rest

LEMMA ClaimRefusedKeeps ==
    ASSUME Inv, NEW h \in Hosts, NEW s \in Slots, claimRefused(h, s)
    PROVE  Rest'
<1> USE SchedulesAssumption DEF Inv, TypeOK, Terminal, Uncertain, recordVars, slotVars,
   attemptVars, tickVars, runVars
<1>1. Attempts'
  BY DEF Attempts, claimRefused, Claimable
<1>2. Held'
  BY DEF Held, claimRefused, Claimable
<1>3. Queue'
  BY DEF Queue, overlap, claimRefused, Claimable
<1> QED BY <1>1, <1>2, <1>3 DEF Rest

LEMMA ExecuteKeeps ==
    ASSUME Inv, NEW s \in Slots, execute(s)
    PROVE  Rest'
<1> USE SchedulesAssumption DEF Inv, TypeOK, Terminal, Uncertain, recordVars, slotVars,
   attemptVars, tickVars, runVars
<1>1. Attempts'
  BY DEF Attempts, execute
<1>2. Held'
  BY DEF Held, execute
<1>3. Queue'
  BY DEF Queue, overlap, execute
<1> QED BY <1>1, <1>2, <1>3 DEF Rest

LEMMA ReturnedKeeps ==
    ASSUME Inv, NEW s \in Slots, NEW how \in Terminal, returned(s, how)
    PROVE  Rest'
<1> USE SchedulesAssumption DEF Inv, TypeOK, Terminal, Uncertain, recordVars, slotVars,
   attemptVars, tickVars, runVars
<1>1. Attempts'
  BY DEF Attempts, returned
<1>2. Held'
  BY DEF Held, returned
<1>3. Queue'
  BY DEF Queue, overlap, returned
<1> QED BY <1>1, <1>2, <1>3 DEF Rest

LEMMA SettleKeeps ==
    ASSUME Inv, NEW s \in Slots, settle(s)
    PROVE  Rest'
<1> USE SchedulesAssumption DEF Inv, TypeOK, Terminal, Uncertain, recordVars, slotVars,
   attemptVars, tickVars, runVars
<1>1. Attempts'
  BY DEF Attempts, settle, saveAttempt, settled, Holds, hold
<1>2. Held'
  BY DEF Held, settle, saveAttempt, settled, Holds, hold
<1>3. Queue'
  BY DEF Queue, overlap, settle, saveAttempt, settled, Holds, hold
<1> QED BY <1>1, <1>2, <1>3 DEF Rest

LEMMA CloseEndsKeeps ==
    ASSUME Inv, NEW h \in Hosts, closeEnds(h)
    PROVE  Rest'
<1> USE SchedulesAssumption DEF Inv, TypeOK, Terminal, Uncertain, recordVars, slotVars,
   attemptVars, tickVars, runVars
<1>1. Attempts'
  BY DEF Attempts, closeEnds, saveAttempt, settled, Holds, hold, Awaiting, active, Open
<1>2. Held'
  BY DEF Held, closeEnds, saveAttempt, settled, Holds, hold, Awaiting, active, Open
<1>3. Queue'
  BY DEF Queue, overlap, closeEnds, saveAttempt, settled, Holds, hold, Awaiting, active, Open
<1> QED BY <1>1, <1>2, <1>3 DEF Rest

LEMMA CrashKeeps ==
    ASSUME Inv, NEW h \in Hosts, crash(h)
    PROVE  Rest'
<1> USE SchedulesAssumption DEF Inv, TypeOK, Terminal, Uncertain, recordVars, slotVars,
   attemptVars, tickVars, runVars
<1>1. Attempts'
  BY DEF Attempts, crash
<1>2. Held'
  BY DEF Held, crash
<1>3. Queue'
  BY DEF Queue, overlap, crash
<1> QED BY <1>1, <1>2, <1>3 DEF Rest

LEMMA UserStep ==
    ASSUME Inv, UNCHANGED stops, User \/ \E s \in Slots : decide(s)
    PROVE  Inv'
<1>1. TypeOK'
  BY UserTyped DEF Inv
<1>2. Rest'
  BY QuietSteps, EnableKeeps, UpdateKeeps, DeleteKeeps, DecideKeeps DEF User, Inv, Rest
<1> QED BY <1>1, <1>2 DEF Inv, Rest

LEMMA TickKeeps ==
    ASSUME Inv, NEW h \in Hosts, TickStep(h), UNCHANGED stops
    PROVE  Inv'
<1> USE DEF Inv, Rest
<1>1. CASE tick(h) \/ leaveAdmit(h)
  BY <1>1, TickTyped, QuietSteps
<1>2. CASE retire(h)
  BY <1>2, HostTyped, RetireKeeps
<1>3. ASSUME NEW s \in Slots,
             \/ recoverOwned(h, s) \/ inspectUnavailable(h, s) \/ stillThere(h, s)
             \/ admit(h, s) \/ authorityChanged(h, s) \/ clearBlocker(h, s)
      PROVE  Inv'
  BY <1>3, TickTyped, QuietSteps
<1>4. ASSUME NEW s \in Slots, claim(h, s) \/ claimRefused(h, s)
      PROVE  Inv'
  <2>1. "settled" \in Terminal
    BY DEF Terminal
  <2> QED BY <1>4, <2>1, AttemptTyped, ClaimKeeps, ClaimRefusedKeeps
<1>5. ASSUME NEW s \in Slots, NEW how \in {"settled", "uncertain"}, reconciled(h, s, how)
      PROVE  Inv'
  <2>1. how \in Terminal
    BY DEF Terminal, Uncertain
  <2> QED BY <1>5, <2>1, AttemptTyped, ReconciledKeeps
<1> QED BY <1>1, <1>2, <1>3, <1>4, <1>5 DEF TickStep, inspected

LEMMA RunKeeps ==
    ASSUME Inv, NEW s \in Slots, NEW h \in Hosts, RunStep(s), UNCHANGED stops
    PROVE  Inv'
<1> USE DEF Inv, Rest
<1>1. "settled" \in Terminal
  BY DEF Terminal
<1>2. CASE execute(s) \/ settle(s)
  BY <1>1, <1>2, AttemptTyped, ExecuteKeeps, SettleKeeps
<1>3. ASSUME NEW how \in {"settled", "uncertain"}, returned(s, how) PROVE Inv'
  <2>1. how \in Terminal
    BY DEF Terminal, Uncertain
  <2> QED BY <1>3, <2>1, AttemptTyped, ReturnedKeeps
<1> QED BY <1>2, <1>3 DEF RunStep

LEMMA EndKeeps ==
    ASSUME Inv, NEW h \in Hosts,
           \/ (closeEnds(h) \/ start(h)) /\ UNCHANGED stops
           \/ (close(h) \/ crash(h)) /\ stops < MaxStops /\ stops' = stops + 1
    PROVE  Inv'
BY HostTyped, StopTyped, QuietSteps, CloseEndsKeeps, CrashKeeps DEF Inv, Rest

LEMMA StepKeeps ==
    ASSUME Inv, [Next]_vars
    PROVE  Inv'
<1>1. CASE UNCHANGED vars
  <2>1. TypeOK'
    BY <1>1 DEF Inv, TypeOK, vars, recordVars, slotVars, attemptVars, tickVars, runVars
  <2> QED BY <1>1, <2>1, QuietKeeps DEF Inv, Rest, vars, recordVars, slotVars, attemptVars,
     tickVars, runVars
<1>2. ASSUME NEW s \in Slots, RunStep(s), UNCHANGED stops PROVE Inv'
  <2>1. owner[s] \in Hosts
    BY <1>2 DEF RunStep, execute, settle, returned, Inv, TypeOK, Attempts
  <2> QED BY <1>2, <2>1, RunKeeps
<1> QED BY <1>1, <1>2, UserStep, TickKeeps, EndKeeps DEF Next

LEMMA InitHolds == Init => Inv
<1> SUFFICES ASSUME Init PROVE Inv
  OBVIOUS
<1> USE SchedulesAssumption DEF Init
<1>1. TypeOK
  <2>1. same \in [Hosts -> BOOLEAN]
    BY Zenon
  <2>2. stops \in 0 .. MaxStops /\ generation \in 1 .. MaxGeneration
    OBVIOUS
  <2>3. slotGen \in [Slots -> 0 .. MaxGeneration] /\ executions \in [Slots -> Nat]
    OBVIOUS
  <2> QED BY <2>1, <2>2, <2>3 DEF TypeOK
<1>2. Attempts
  BY DEF Attempts
<1>3. Held /\ Queue
  BY DEF Held, Queue
<1> QED BY <1>1, <1>2, <1>3 DEF Inv

(* The conjunction that every host, user and crash step of the schedule    *)
(* runtime keeps.                                                          *)
THEOREM Invariance == Spec => []Inv
<1>1. Init => Inv
  BY InitHolds
<1>2. Inv /\ [Next]_vars => Inv'
  BY StepKeeps
<1> QED BY <1>1, <1>2, PTL DEF Spec

------------------------------------------------------------------------------
(* The results                                                             *)

(* The durable record, the claims and every host's tick keep their types,  *)
(* for any number of hosts, slots and crashes.                             *)
THEOREM Typing == Spec => []TypeOK
BY Invariance, PTL DEF Inv

(* schedule-store.ts claim: competing hosts, crashes and recoveries never  *)
(* make a slot's effect start a second time, or without its admission.     *)
THEOREM StartsAtMostOnce == Spec => []AtMostOnce
<1>1. Inv => AtMostOnce
  BY DEF Inv, TypeOK, Attempts, AtMostOnce
<1> QED BY <1>1, Invariance, PTL

(* schedule-runtime.ts recover: no host settles what another one still     *)
(* executes.                                                               *)
THEOREM LivingIsKept == Spec => []LiveIsNotLost
<1>1. Inv => LiveIsNotLost
  BY DEF Inv, Attempts, LiveIsNotLost
<1> QED BY <1>1, Invariance, PTL

(* schedule-store.ts decide: two pending occurrences of the current        *)
(* definition never coexist under queue-latest.                            *)
THEOREM QueuesOne == Spec => []OneQueued
<1>1. Inv => OneQueued
  <2> SUFFICES ASSUME Inv, overlap = "queue-latest"
               PROVE  Cardinality({s \in Pending : slotGen[s] = generation}) <= 1
    BY DEF OneQueued
  <2> DEFINE Q == {s \in Pending : slotGen[s] = generation}
  <2>1. Q = {} \/ \E s \in Q : Q = {s}
    BY DEF Inv, Queue, Pending
  <2>2. CASE Q = {}
    BY <2>2, FS_EmptySet
  <2>3. ASSUME NEW s \in Q, Q = {s} PROVE Cardinality(Q) <= 1
    BY <2>3, FS_Singleton
  <2> QED BY <2>1, <2>2, <2>3
<1> QED BY <1>1, Invariance, PTL

(* What a step does to the verdict of an attempt and to the attempts that  *)
(* are admitted.                                                           *)
LEMMA AttemptMoves ==
    ASSUME Inv, [Next]_vars, NEW s \in Slots, attempt'[s] # attempt[s]
    PROVE  \/ attempt[s] = "open"
           \/ attempt[s] = "none" /\ attempt'[s] = "open" /\ state = "enabled"
<1> USE DEF Inv, TypeOK, Attempts
<1>1. ASSUME NEW h \in Hosts, NEW t \in Slots, claim(h, t)
      PROVE  attempt[s] = "none" /\ attempt'[s] = "open" /\ state = "enabled"
  BY <1>1 DEF claim, Claimable
<1>2. ASSUME NEW t \in Slots, settle(t) PROVE attempt[s] = "open"
  BY <1>2 DEF settle, saveAttempt, settled
<1>3. ASSUME NEW h \in Hosts, closeEnds(h) PROVE attempt[s] = "open"
  BY <1>3 DEF closeEnds, saveAttempt, settled, Open
<1>4. ASSUME NEW h \in Hosts, NEW t \in Slots, NEW how, reconciled(h, t, how)
      PROVE  attempt[s] = "open"
  BY <1>4 DEF reconciled, settled, Open
<1>5. ~ UNCHANGED attempt
  OBVIOUS
<1> QED
  BY <1>1, <1>2, <1>3, <1>4, <1>5
     DEF Next, User, TickStep, RunStep, inspected, enable, pause, update, delete, cancel,
        decide,
         execute, returned, tick, retire, leaveAdmit, recoverOwned, inspectUnavailable,
         stillThere, admit, authorityChanged, clearBlocker, claimRefused, close, crash, start,
         vars, recordVars, slotVars, attemptVars, tickVars, runVars

(* schedule-store.ts saveAttempt: between an uncertain end and the user's  *)
(* next enable or resume no claim succeeds, whatever the host had read.    *)
THEOREM HoldsUntilSeen == Spec => UncertainHolds
<1>1. Inv /\ [Next]_vars
        => [\A s \in Slots : attempt[s] = "none" /\ attempt'[s] = "open" => ~ unseen]_vars
  BY AttemptMoves DEF Inv, Held
<1> QED BY <1>1, Invariance, PTL DEF Spec, UncertainHolds

(* schedule-runtime.ts mutateAttempt, schedule-store.ts changeAttempt: no  *)
(* late completion, shutdown, recovery or cancellation rewrites a verdict. *)
THEOREM VerdictStays == Spec => VerdictIsFinal
<1>1. Inv /\ [Next]_vars
        => [\A s \in Slots : attempt[s] \in Terminal => attempt'[s] = attempt[s]]_vars
  BY AttemptMoves DEF Terminal, Uncertain
<1> QED BY <1>1, Invariance, PTL DEF Spec, VerdictIsFinal
==============================================================================
