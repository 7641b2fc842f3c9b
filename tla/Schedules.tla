------------------------------ MODULE Schedules -------------------------------
(***************************************************************************)
(* One durable schedule and the hosts that run it: claiming a due slot,    *)
(* executing it, cancelling, closing, crashing and recovering              *)
(* (application/orchestration/schedule-runtime.ts and schedule-actions.ts  *)
(* over data/orchestration/schedule-store.ts).                             *)
(*                                                                         *)
(* Hosts are operating-system processes that share only the store.  One    *)
(* store call is one transaction and one step; a host's step extends from  *)
(* one await to the next, except where two transactions follow each other  *)
(* and what another process does in between matters.  The revision of the  *)
(* schedule only serves to notice a change since it was read, so the model *)
(* keeps just that: `same'.  A slot has at most one attempt, so attempts   *)
(* are named by their slot.  Which slots fall due, and when, is left open. *)
(***************************************************************************)
EXTENDS Naturals, FiniteSets

CONSTANTS
    Hosts,
    Slots,           \* numbered in nominal order
    NoHost,          \* the process that claimed the attempt is gone, or there is none
    OverlapOf,       \* the overlap policy of each generation's definition
    Limit,           \* the limit of the parallel policy
    RetireBatch,     \* pending slots superseded in one transaction
    MaxGeneration,
    MaxStops         \* bound on closings and crashes

ASSUME SchedulesAssumption ==
    /\ NoHost \notin Hosts
    /\ Slots \subseteq Nat
    /\ OverlapOf \in [1 .. MaxGeneration -> {"skip", "queue-latest", "parallel"}]
    /\ Limit \in Nat \ {0} /\ RetireBatch \in Nat
    /\ MaxGeneration \in Nat \ {0} /\ MaxStops \in Nat

VARIABLES
    state, generation, blocker,            \* the schedule record
    slot, slotGen,                         \* disposition and generation of a slot
    attempt,                               \* its attempt: none, open, or how it ended
    owner,                                 \* the living process that claimed it, until settled
    cancelReq                              \* open attempts with cancelRequestedAt set

VARIABLES
    life,            \* per host
    pc, todo,        \* per host: where its tick is, the rows of its page still to visit
    same,            \* per host: the schedule is at the revision the tick read
    run,             \* per attempt: where its execution is
    stop,            \* executions aborted by a cancellation; closing aborts all of a host
    raced,           \* attempts changed between the read and the write of a settlement
    outcome,         \* what the execution that is being settled returned
    executions,      \* how often executor.execute was called for the slot
    stops,           \* closings and crashes so far
    unseen           \* an attempt ended uncertain since the user last enabled or resumed

recordVars  == <<state, generation, blocker>>
slotVars    == <<slot, slotGen>>
attemptVars == <<attempt, owner, cancelReq, unseen>>
tickVars    == <<pc, todo>>
runVars     == <<run, stop, raced, outcome, executions>>
vars == <<recordVars, slotVars, attemptVars, life, tickVars, same, runVars, stops>>

(* How an attempt ends: with a known effect; with one reported uncertain   *)
(* or lost with its process; or given up by its own host at shutdown.      *)
Uncertain == {"uncertain", "abandoned"}
Terminal  == {"settled"} \cup Uncertain

TypeOK ==
    /\ state \in {"disabled", "enabled", "paused", "deleted"}
    /\ generation \in 1 .. MaxGeneration
    /\ blocker \in {"none", "authority", "identity", "uncertain"}
    /\ slot \in [Slots -> {"none", "pending", "admitted", "skipped", "coalesced", "superseded"}]
    /\ slotGen \in [Slots -> 0 .. MaxGeneration]
    /\ attempt \in [Slots -> {"none", "open"} \cup Terminal]
    /\ owner \in [Slots -> Hosts \cup {NoHost}]
    /\ cancelReq \subseteq Slots
    /\ life \in [Hosts -> {"up", "closing", "closed", "down"}]
    /\ pc \in [Hosts -> {"idle", "recover", "admit", "validate", "claim"}]
    /\ todo \in [Hosts -> SUBSET Slots]
    /\ same \in [Hosts -> BOOLEAN]
    /\ run \in [Slots -> {"none", "validating", "executing", "settling"}]
    /\ stop \subseteq Slots /\ raced \subseteq Slots
    /\ outcome \in [Slots -> {"none"} \cup Terminal]
    /\ executions \in [Slots -> Nat]
    /\ unseen \in BOOLEAN
    /\ stops \in 0 .. MaxStops

Init ==
    /\ state = "disabled" /\ generation = 1 /\ blocker = "none"
    /\ slot = [s \in Slots |-> "none"] /\ slotGen = [s \in Slots |-> 0]
    /\ attempt = [s \in Slots |-> "none"] /\ owner = [s \in Slots |-> NoHost]
    /\ cancelReq = {} /\ unseen = FALSE
    /\ stops = 0
    /\ life = [h \in Hosts |-> "up"]
    /\ pc = [h \in Hosts |-> "idle"]
    /\ todo = [h \in Hosts |-> {}]
    /\ same = [h \in Hosts |-> FALSE]
    /\ run = [s \in Slots |-> "none"] /\ stop = {} /\ raced = {}
    /\ outcome = [s \in Slots |-> "none"]
    /\ executions = [s \in Slots |-> 0]

------------------------------------------------------------------------------
(* The store                                                               *)

Open      == {s \in Slots : attempt[s] = "open"}
Pending   == {s \in Slots : slot[s] = "pending"}
Runnable  == {s \in Pending : slotGen[s] = generation /\ state = "enabled"}
Stale     == {s \in Pending : slotGen[s] # generation \/ state = "deleted"}
overlap   == OverlapOf[generation]
MayRun    == IF overlap = "parallel" THEN Limit ELSE 1

(* A change of the record by `by' makes every other revision read stale.   *)
Revise(by) == same' = [h \in Hosts |-> h = by /\ same[h]]

(* saveAttempt with a terminal: an uncertain one pauses an enabled         *)
(* schedule in the same transaction.                                       *)
settled(S, how) ==
    /\ attempt' = [s \in Slots |-> IF s \in S THEN how ELSE attempt[s]]
    /\ cancelReq' = cancelReq \ S
    /\ unseen' = (unseen \/ (how \in Uncertain /\ S # {}))

HoldsReported(S, how) == how = "uncertain" /\ S # {} /\ state = "enabled"
Holds(S, how) == how \in Uncertain /\ S # {} /\ state = "enabled"
hold == state' = "paused" /\ blocker' = "uncertain" /\ Revise(NoHost)

saveAttempt(S, how) ==
    /\ settled(S, how)
    /\ IF Holds(S, how) THEN hold ELSE UNCHANGED <<state, blocker, same>>
    /\ UNCHANGED generation

superseded(S) == slot' = [s \in Slots |-> IF s \in S THEN "superseded" ELSE slot[s]]

Batch(S) == {B \in SUBSET S : Cardinality(B) =
                 (IF Cardinality(S) < RetireBatch THEN Cardinality(S) ELSE RetireBatch)}

(* decide(): a slot falls due, by a wake or by trigger-now, so not always  *)
(* in nominal order.  Under queue-latest only the latest of those queued,  *)
(* the new one among them, stays pending.                                  *)
queuedWith(s) == {t \in Pending : slotGen[t] = generation} \cup {s}

decideQueued(s) ==
    /\ state = "enabled" /\ slot[s] = "none"
    /\ slotGen' = [slotGen EXCEPT ![s] = generation]
    /\ slot' = [slot EXCEPT ![s] = "pending"]
    /\ UNCHANGED <<recordVars, attemptVars, life, tickVars, same, runVars>>
decide(s) ==
    /\ state = "enabled" /\ slot[s] = "none"
    /\ slotGen' = [slotGen EXCEPT ![s] = generation]
    /\ slot' = [t \in Slots |->
          IF /\ overlap = "queue-latest" /\ t \in queuedWith(s)
             /\ \E later \in queuedWith(s) : later > t
          THEN "coalesced"
          ELSE IF t = s THEN "pending" ELSE slot[t]]
    /\ UNCHANGED <<recordVars, attemptVars, life, tickVars, same, runVars>>

------------------------------------------------------------------------------
(* The user's commands.  Each is fenced by the revision the user saw and   *)
(* does nothing when that moved, so it is one step.                        *)

enable ==
    /\ state # "deleted"
    /\ state' = "enabled" /\ blocker' = "none"
    /\ unseen' = FALSE
    /\ Revise(NoHost)
    /\ UNCHANGED <<generation, slotVars, attempt, owner, cancelReq,
                   life, tickVars, runVars>>

pause ==
    /\ state = "enabled"
    /\ state' = "paused" /\ blocker' = "none"
    /\ Revise(NoHost)
    /\ UNCHANGED <<generation, slotVars, attemptVars, life, tickVars, runVars>>

update ==
    /\ state # "deleted" /\ generation < MaxGeneration
    /\ generation' = generation + 1
    /\ state' = "disabled" /\ blocker' = "none"
    /\ \E B \in Batch(Pending) : superseded(B)
    /\ Revise(NoHost)
    /\ UNCHANGED <<slotGen, attemptVars, life, tickVars, runVars>>

delete ==
    /\ state # "deleted"
    /\ state' = "deleted" /\ blocker' = "none"
    /\ \E B \in Batch(Pending) : superseded(B)
    /\ Revise(NoHost)
    /\ UNCHANGED <<generation, slotGen, attemptVars, life, tickVars, runVars>>

cancel(s) ==
    /\ attempt[s] = "open"
    /\ cancelReq' = cancelReq \cup {s}
    /\ raced' = IF run[s] = "settling" THEN raced \cup {s} ELSE raced
    /\ UNCHANGED <<recordVars, slotVars, attempt, owner, unseen, life,
                   tickVars, same, run, stop, outcome, executions>>

User == enable \/ pause \/ update \/ delete \/ \E s \in Slots : cancel(s)

------------------------------------------------------------------------------
(* A tick of host h                                                        *)

active(h) == {s \in Slots : owner[s] = h /\ run[s] # "none"}

(* No other code of the process runs between two transactions that follow  *)
(* each other without an await.                                            *)
Awaiting(h) ==
    /\ life[h] # "down"
    /\ pc[h] # "claim"
    /\ \A s \in active(h) : run[s] # "settling"

At(h, where) == Awaiting(h) /\ pc[h] = where

Go(h, where, page) ==
    /\ pc' = [pc EXCEPT ![h] = where]
    /\ todo' = [todo EXCEPT ![h] = page]

(* A page is visited in the order of its query.                            *)
At1st(h, s) == s \in todo[h] /\ \A t \in todo[h] : s <= t

Stay(h, where)       == Go(h, where, todo[h])
Visited(h, where, s) == Go(h, where, todo[h] \ {s})

tickOwn(h) ==
    /\ At(h, "idle") /\ life[h] = "up"
    /\ Go(h, "recover", Open \cap active(h))
    /\ UNCHANGED <<recordVars, slotVars, attemptVars, life, same, runVars>>
tick(h) ==
    /\ At(h, "idle") /\ life[h] = "up"
    /\ Go(h, "recover", Open)
    /\ UNCHANGED <<recordVars, slotVars, attemptVars, life, same, runVars>>

(* An attempt this runtime executes: pass a cancellation on.               *)
recoverOwnedIdle(h, s) ==
    /\ At(h, "recover") /\ At1st(h, s) /\ s \in active(h)
    /\ stop' = stop
    /\ Visited(h, "recover", s)
    /\ UNCHANGED <<recordVars, slotVars, attemptVars, life, same, run, raced, outcome,
                   executions>>
recoverOwned(h, s) ==
    /\ At(h, "recover") /\ At1st(h, s) /\ s \in active(h)
    /\ stop' = IF s \in cancelReq THEN stop \cup {s} ELSE stop
    /\ Visited(h, "recover", s)
    /\ UNCHANGED <<recordVars, slotVars, attemptVars, life, same, run, raced, outcome,
                   executions>>

(* Any other: is the process that claimed it still there?                  *)
inspectUnavailable(h, s) ==
    /\ At(h, "recover") /\ At1st(h, s) /\ s \notin active(h)
    /\ IF blocker # "identity" /\ state \in {"enabled", "paused"}
       THEN state' = "paused" /\ blocker' = "identity" /\ Revise(NoHost)
       ELSE UNCHANGED <<state, blocker, same>>
    /\ Visited(h, "recover", s)
    /\ UNCHANGED <<generation, slotVars, attemptVars, life, runVars>>

identityKnown ==
    IF blocker = "identity" /\ state # "deleted"
    THEN blocker' = "none" /\ Revise(NoHost)
    ELSE UNCHANGED <<blocker, same>>

stillThere(h, s) ==
    /\ At(h, "recover") /\ At1st(h, s) /\ s \notin active(h)
    /\ owner[s] \in Hosts
    /\ identityKnown
    /\ Visited(h, "recover", s)
    /\ UNCHANGED <<state, generation, slotVars, attemptVars, life, runVars>>

(* It is gone, and stays gone: what became of the attempt is reconciled    *)
(* and written.  The steps between are one here; a cancellation among them *)
(* only defers the settlement to the next tick.                            *)
reconciledUnchecked(h, s, how) ==
    /\ At(h, "recover") /\ At1st(h, s) /\ s \notin active(h)
    /\ settled({s} \cap Open, how)
    /\ IF Holds({s} \cap Open, how) THEN hold ELSE identityKnown /\ UNCHANGED state
    /\ Visited(h, "recover", s)
    /\ UNCHANGED <<generation, owner, slotVars, life, runVars>>
reconciled(h, s, how) ==
    /\ At(h, "recover") /\ At1st(h, s) /\ s \notin active(h)
    /\ owner[s] = NoHost
    /\ settled({s} \cap Open, how)
    /\ IF Holds({s} \cap Open, how) THEN hold ELSE identityKnown /\ UNCHANGED state
    /\ Visited(h, "recover", s)
    /\ UNCHANGED <<generation, owner, slotVars, life, runVars>>

inspected(h, s) ==
    stillThere(h, s) \/ reconciled(h, s, "settled") \/ reconciled(h, s, "uncertain")

(* After recover(): supersede what can no longer run, then, unless the     *)
(* host is closing, read the page of due slots.  The claim checks all of   *)
(* it again.                                                               *)
retire(h) ==
    /\ At(h, "recover") /\ todo[h] = {}
    /\ \E B \in Batch(Stale) : superseded(B)
    /\ IF life[h] = "up" THEN Go(h, "admit", Runnable) ELSE Go(h, "idle", {})
    /\ UNCHANGED <<recordVars, slotGen, attemptVars, life, same, runVars>>

(* The record is read; the authority is validated across an await.         *)
admit(h, s) ==
    /\ At(h, "admit") /\ life[h] = "up" /\ At1st(h, s)
    /\ IF blocker = "identity"
       THEN Visited(h, "admit", s) /\ UNCHANGED same
       ELSE Stay(h, "validate") /\ same' = [same EXCEPT ![h] = TRUE]
    /\ UNCHANGED <<recordVars, slotVars, attemptVars, life, runVars>>

authorityChanged(h, s) ==
    /\ At(h, "validate") /\ At1st(h, s)
    /\ IF same[h] /\ blocker # "authority" /\ state # "deleted"
       THEN blocker' = "authority" /\ Revise(NoHost)
       ELSE UNCHANGED blocker /\ same' = [same EXCEPT ![h] = FALSE]
    /\ Visited(h, "admit", s)
    /\ UNCHANGED <<state, generation, slotVars, attemptVars, life, runVars>>

(* Validated: clear an old blocker, at the revision read or not at all.    *)
clearBlocker(h, s) ==
    /\ At(h, "validate") /\ At1st(h, s) /\ life[h] = "up"
    /\ same[h] /\ blocker # "none" /\ state # "deleted"
    /\ blocker' = "none" /\ Revise(h)
    /\ Stay(h, "claim")
    /\ UNCHANGED <<state, generation, slotVars, attemptVars, life, runVars>>

(* At the call of store.claim.                                             *)
Claiming(h, s) ==
    /\ life[h] # "down" /\ At1st(h, s)
    /\ \/ pc[h] = "claim"
       \/ /\ At(h, "validate") /\ life[h] = "up"
          /\ same[h] => blocker = "none" \/ state = "deleted"

ClaimableTwice(h, s) ==
    /\ same[h] /\ state = "enabled" /\ slotGen[s] = generation
    /\ slot[s] \in {"pending", "admitted"}
Claimable(h, s) ==
    /\ same[h] /\ state = "enabled" /\ slotGen[s] = generation
    /\ slot[s] = "pending"

RoomToRun == Cardinality(Open) < MayRun

claim(h, s) ==
    /\ Claiming(h, s)
    /\ Claimable(h, s) /\ RoomToRun
    /\ slot' = [slot EXCEPT ![s] = "admitted"]
    /\ attempt' = [attempt EXCEPT ![s] = "open"]
    /\ owner' = [owner EXCEPT ![s] = h]
    /\ run' = [run EXCEPT ![s] = "validating"]
    /\ same' = [same EXCEPT ![h] = FALSE]
    /\ Visited(h, "admit", s)
    /\ UNCHANGED <<recordVars, slotGen, cancelReq, unseen, life, stop, raced,
                   outcome, executions>>

(* Fenced out, claimed by another host, or no room: the overlap policy     *)
(* decides what becomes of the slot.                                       *)
claimRefused(h, s) ==
    /\ Claiming(h, s)
    /\ ~ (Claimable(h, s) /\ RoomToRun)
    /\ slot' = IF ~ Claimable(h, s) THEN slot
               ELSE IF overlap = "skip" THEN [slot EXCEPT ![s] = "skipped"]
               ELSE IF overlap = "queue-latest" /\ \E t \in Pending : t > s
                    THEN [slot EXCEPT ![s] = "coalesced"] ELSE slot
    /\ same' = [same EXCEPT ![h] = FALSE]
    /\ Visited(h, "admit", s)
    /\ UNCHANGED <<recordVars, slotGen, attemptVars, life, runVars>>

(* The end of the page, or a return before it because the host is closing  *)
(* or executes 16 attempts already, those of other schedules included.     *)
(* The notices that end the tick are left out.                             *)
leaveAdmit(h) ==
    /\ \/ At(h, "admit")
       \/ At(h, "validate") /\ life[h] # "up"
    /\ Go(h, "idle", {})
    /\ same' = [same EXCEPT ![h] = FALSE]
    /\ UNCHANGED <<recordVars, slotVars, attemptVars, life, runVars>>

(* What the tick does without help; its awaits settle.                     *)
TickStep(h) ==
    \/ tick(h) \/ retire(h) \/ leaveAdmit(h)
    \/ \E s \in Slots :
          \/ recoverOwned(h, s) \/ inspectUnavailable(h, s) \/ inspected(h, s)
          \/ admit(h, s) \/ authorityChanged(h, s) \/ clearBlocker(h, s)
          \/ claim(h, s) \/ claimRefused(h, s)

------------------------------------------------------------------------------
(* The execution of a claimed slot                                         *)

execute(s) ==
    /\ run[s] = "validating" /\ Awaiting(owner[s])
    /\ run' = [run EXCEPT ![s] = "executing"]
    /\ executions' = [executions EXCEPT ![s] = @ + 1]
    /\ UNCHANGED <<recordVars, slotVars, attemptVars, life, tickVars, same, stop, raced, outcome>>

(* Refused, answered or thrown, whether by the validation or by the        *)
(* execution.  mutateAttempt, first half: an attempt that is already       *)
(* terminal is left as it is.                                              *)
returnedUnchecked(s, how) ==
    /\ run[s] \in {"validating", "executing"} /\ Awaiting(owner[s])
    /\ run' = [run EXCEPT ![s] = "settling"] /\ outcome' = [outcome EXCEPT ![s] = how]
    /\ stop' = stop \ {s}
    /\ UNCHANGED <<recordVars, slotVars, attemptVars, life, tickVars, same, raced, executions>>
returned(s, how) ==
    /\ run[s] \in {"validating", "executing"} /\ Awaiting(owner[s])
    /\ IF attempt[s] = "open"
       THEN run' = [run EXCEPT ![s] = "settling"] /\ outcome' = [outcome EXCEPT ![s] = how]
       ELSE run' = [run EXCEPT ![s] = "none"] /\ UNCHANGED outcome
    /\ stop' = stop \ {s}
    /\ UNCHANGED <<recordVars, slotVars, attemptVars, life, tickVars, same, raced, executions>>

(* Second half: written only at the revision read.  A settlement that      *)
(* loses to a cancellation is not tried again.                             *)
settle(s) ==
    /\ run[s] = "settling"
    /\ saveAttempt({s} \ raced, outcome[s])
    /\ owner' = IF s \in raced THEN owner ELSE [owner EXCEPT ![s] = NoHost]
    /\ run' = [run EXCEPT ![s] = "none"]
    /\ raced' = raced \ {s}
    /\ outcome' = [outcome EXCEPT ![s] = "none"]
    /\ UNCHANGED <<slotVars, life, tickVars, stop, executions>>

------------------------------------------------------------------------------
(* Closing, crashing and starting a host                                   *)

close(h) ==
    /\ Awaiting(h) /\ life[h] = "up"
    /\ life' = [life EXCEPT ![h] = "closing"]
    /\ UNCHANGED <<recordVars, slotVars, attemptVars, tickVars, same, runVars>>

(* One second later, or when all settled: what still runs is given up,     *)
(* except where a cancellation came between the read and the write of      *)
(* mutateAttempt, which is not tried again.                                *)
closeEnds(h) ==
    /\ Awaiting(h) /\ life[h] = "closing"
    /\ life' = [life EXCEPT ![h] = "closed"]
    /\ \E lost \in SUBSET (active(h) \cap cancelReq) :
          saveAttempt((active(h) \cap Open) \ lost, "abandoned")
    /\ UNCHANGED <<owner, slotVars, tickVars, runVars>>

(* The process ends, at any point.                                         *)
crash(h) ==
    /\ life[h] # "down"
    /\ life' = [life EXCEPT ![h] = "down"]
    /\ owner' = [s \in Slots |-> IF owner[s] = h THEN NoHost ELSE owner[s]]
    /\ run' = [s \in Slots |-> IF owner[s] = h THEN "none" ELSE run[s]]
    /\ raced' = {s \in raced : owner[s] # h}
    /\ stop' = {s \in stop : owner[s] # h}
    /\ outcome' = [s \in Slots |-> IF owner[s] = h THEN "none" ELSE outcome[s]]
    /\ Go(h, "idle", {})
    /\ same' = [same EXCEPT ![h] = FALSE]
    /\ UNCHANGED <<recordVars, slotVars, attempt, cancelReq, unseen,
                   executions>>

start(h) ==
    /\ life[h] = "down"
    /\ life' = [life EXCEPT ![h] = "up"]
    /\ UNCHANGED <<recordVars, slotVars, attemptVars, tickVars, same, runVars>>

RunStep(s) ==
    execute(s) \/ settle(s) \/ \E how \in {"settled", "uncertain"} : returned(s, how)

Next ==
    \/ /\ \E h \in Hosts : close(h) \/ crash(h)
       /\ stops < MaxStops /\ stops' = stops + 1
    \/ /\ \/ User
          \/ \E s \in Slots : decide(s) \/ RunStep(s)
          \/ \E h \in Hosts : TickStep(h) \/ closeEnds(h) \/ start(h)
       /\ UNCHANGED stops

Spec == Init /\ [][Next]_vars

(* A timer wakes a host that is up, its awaits settle, and a lookup of a   *)
(* process that keeps being tried succeeds in the end.                     *)
(* Executions may hang, and nobody has to stay up.                         *)
Fairness ==
    \A h \in Hosts :
        /\ WF_vars(TickStep(h) /\ UNCHANGED stops)
        /\ \A s \in Slots : SF_vars(inspected(h, s) /\ UNCHANGED stops)

FairSpec == Spec /\ Fairness

------------------------------------------------------------------------------
(* Properties                                                              *)

(* Whatever crashes, however many hosts compete and whoever recovers: the  *)
(* effect of a slot is started at most once, and only for the attempt that *)
(* was admitted for it.                                                    *)
AtMostOnce ==
    \A s \in Slots : executions[s] <= 1 /\ (executions[s] = 1 => slot[s] = "admitted")

(* "Deadline or an old row is not evidence that another executor           *)
(* vanished": while an execution lives, its attempt is open or its own     *)
(* host gave it up as uncertain; no other host ever settled it.            *)
LiveIsNotLost ==
    \A s \in Slots : run[s] # "none" => attempt[s] \in {"open", "abandoned"}

(* After an uncertain attempt nothing is admitted until the user has       *)
(* enabled or resumed the schedule, whichever host saw it, and whatever    *)
(* the other hosts had read before.                                        *)
UncertainHolds ==
    [][\A s \in Slots : attempt[s] = "none" /\ attempt'[s] = "open" => ~ unseen]_vars

(* A settled attempt keeps its verdict: a late completion, a shutdown, a   *)
(* recovery and a cancellation that come after it change nothing.          *)
VerdictIsFinal ==
    [][\A s \in Slots : attempt[s] \in Terminal => attempt'[s] = attempt[s]]_vars

(* "Competing hosts never observe two queued occurrences for               *)
(* queue-latest."                                                          *)
OneQueued ==
    overlap = "queue-latest" => Cardinality({s \in Pending : slotGen[s] = generation}) <= 1

(* An attempt whose process died is settled as long as some host stays up. *)
DeadIsSettled ==
    (\E h \in Hosts : <>[](life[h] = "up")) =>
        \A s \in Slots : (attempt[s] = "open" /\ owner[s] = NoHost) ~> (attempt[s] # "open")

(* A cancellation reaches the execution, by a tick or by the closing of    *)
(* its host, although the tick waits for other things and the execution    *)
(* itself may hang.                                                        *)
CancelReaches ==
    \A s \in Slots :
        (s \in cancelReq /\ run[s] = "executing")
            ~> (run[s] # "executing" \/ s \in stop \/ life[owner[s]] # "up")
==============================================================================
