# A TLA+ model of Falryn's orchestration runtime

Falryn is a local, terminal-first coding agent written in TypeScript. Whatever it does
(model attempts, tool calls, child agents, background tasks, shutdown) runs as units of work
that a scheduler admits, inside cancellation scopes that a scope tree stops and settles. That
orchestration runtime is single threaded but thoroughly concurrent: every `await` is a point
where another generation, an abort, a deadline or a late runner gets in. Two of its parts go
beyond one process: the durable schedules, which several hosts run from one store, and the
event journal of a turn, to which several journals append. This directory models these parts
in TLA+, checks them with TLC and proves their safety properties with TLAPS.

Paths below are relative to `src/src/`.

## Inventory

| Part | State it keeps | Operations | Talks to | What is hard |
|---|---|---|---|---|
| **Scheduler** `application/orchestration/scheduler.ts` | held keys, running count, waiting list, arrival order, capacity waiters, one entry per unit | `schedule`, `submit`, and inside them passes, `start`, `finish`, park and resume | budget ledger, scope tree, clock, `admit()` and `capacityChanges` of the resource ledger, runners | generations share everything; wake-ups; races between answer, abort and deadline |
| **Scope tree** `application/orchestration/scope-tree.ts` | nodes, retention window, tombstones, live count, boundaries | `derive`, `cancel`, `cancellationBoundary`, `recordEffect`, `recordLateEffect`, `complete`, `fail`, `acknowledge`, `expireDeadlines`, `forceSettleUnacknowledged` | scheduler, delegation (boundaries), shutdown, invocation scope (deadlines) | any settling order, eviction, reused identifiers, effects that arrive late |
| **Effects and outcomes** `domain/orchestration/{scope,outcome}.ts` | none | `worstEffect`, `cancellationOutcomeFor`, `timeoutOutcomeFor`, `requiresInspection` | both of the above | certainty must never be invented |
| **Shutdown coordinator** `application/runtime/{shutdown-coordinator,interruption,runtime-lifecycle}.ts` | level, participants, interrupts counted, running report | `register`, `shutdown`, `escalate`, `interrupt` | scope tree (cancel root, forced settlement), clock | escalation races the phase deadline; participants and scopes that never settle; scopes opened while it runs |
| **Budget ledger** `application/orchestration/budget-ledger.ts` | nodes, reservations | `createRoot`, `createChild`, `reserve`, `consume`, `release` | scheduler | a debit along a chain, double release, overflow |
| **Resource ledger** `application/orchestration/resource-ledger.ts`, `product-resources.ts`, `child-admission.ts` | buckets, aliases, records | `reserve`, `settle`, `joinAliases`, `narrow`, `closeTask` | scheduler (`admit`, `capacityChanges`) | aliases joined under open reservations, poisoned buckets |
| **Bounded queue** `application/orchestration/bounded-queue.ts` | items, waiters, bytes | `enqueue` (reject, coalesce, spill, wait), `dequeue`, `drain` | event consumers | a released waiter re-tests after its await |
| **Schedule runtime** `application/orchestration/{schedule-runtime,schedule-actions}.ts`, `data/orchestration/schedule-store.ts` | schedule record with its revision, slots, attempts, the processes that claimed them | `decide`, `claim`, `execute`, settle, `cancel`, recover, retire, `close` | SQLite (one transaction per call), process lookup, executor | hosts share only the store; a host dies between the claim and the settlement; what was read is stale when it is written |
| **Turn event journal and event store** `application/runtime/turn-event-journal.ts`, `data/sessions/event-store.ts` | stored stream, cached append cursor, queue of calls, listeners | `persist`, `compareAndPersist`, `append`, `quiesce` | SQLite, session history, compaction (checkpoints) | a batch that fails halfway, a lost reply, a cursor overtaken by another journal |
| **Delegation, joins, mailbox, work queues, process tasks, workflows** `application/orchestration/*`, `data/orchestration/*` | durable records, leases, joins | claim, deliver, acknowledge, recover | SQLite, scheduler, scope tree | several processes, crashes, leases |
| **Turn runtime** `application/runtime/*` | turn state, attempts | attempt policy, tool-call loop, mid-turn input | providers, scheduler, event journal | retries of work that may have happened |
| **Lifecycle data** `data/lifecycle/*`, `data/artifacts/*`, `data/sessions/*` | files and tables | append, replay, GC, retention, recovery | SQLite, file system | crash between two writes |
| TUI, CLI, presentation, providers, configuration, extensions, context, compression, memory, workspace, language and debug adapters, authentication | | | | I/O, rendering, conversion and heuristics; not modelled |

The properties that make the parts correct:

* scheduler: shared counters exact, caps and reserved slots respected, dependencies first, the
  effect that is reported is the one that happened, the waiting list honest and bounded, results
  final, no stop lost on a running unit or a sleeping loop, every wait ends, an abort always
  returns, nobody misses a wake-up;
* scope tree: no orphan, exact retention, nobody escapes a stop, no accepted effect is lost,
  settled scopes frozen, deadlines only narrow, reports agree with outcomes;
* shutdown: it ends whoever hangs, grace never extended, every participant called and the report
  honest, from the cancellation on nothing active but what is sheltered, nothing live at the end;
* ledgers: no node above its limit, no capacity created by renaming, release exactly once;
* bounded queue: bounds hold, no accepted item is lost or delivered twice, waiters are answered;
* schedules: a slot runs at most once, a living execution is not written off, an uncertain one
  holds the schedule until the user has seen it, dead attempts are settled, cancellations arrive;
* journal: no duplicate, no gap, honest receipts, batches in order, listeners told once, no
  cursor ahead of the stream;
* other stores: recovery reaches a state the program could have been in.

`PROJECT.json` lists every component, every hazard at the line where it bites, and for each
hazard the properties that would catch it.

## Modules

| Module | Models |
|---|---|
| `Effects` | effect severities and terminal outcomes |
| `Scheduler` | `scheduler.ts`, and the parts of the budget ledger, the clock, `admit()` and the scope signals it uses |
| `WorkAdmission` | abstract specification of what the scheduler promises its callers |
| `SchedulerProofs` | inductive invariant and theorems of `Scheduler`, and that it implements `WorkAdmission` |
| `MCScheduler`, `MCSchedulerLive`, `MCSchedulerHang`, `MCSchedulerWake` | TLC instances |
| `ScopeTree` | `scope-tree.ts` |
| `ScopeTreeProofs` | inductive invariant and theorems of `ScopeTree` |
| `MCScopeTree` | TLC instance, for both scope runs |
| `Shutdown` | the coordinator and the interruption ladder, composed with `ScopeTree` (`INSTANCE`) |
| `ShutdownProofs`, `MCShutdown` | inductive invariant and theorems, that it implements `ScopeTree`, and with that the tree's theorems for the composition; TLC instance |
| `Schedules` | hosts, users and the store around one durable schedule |
| `SchedulesProofs`, `MCSchedules`, `MCSchedulesLive` | inductive invariant and theorems; TLC instances |
| `EventJournal` | journals over the event store, for one stream |
| `EventStream` | abstract specification of what the journals promise their callers |
| `EventJournalProofs`, `MCEventJournal` | inductive invariant and theorems, and that `EventJournal` implements `EventStream`; TLC instance |
| `BoundedQueue` | `bounded-queue.ts` |
| `BoundedQueueProofs`, `MCBoundedQueue` | inductive invariant and theorems; TLC instance |

In the component modules some definitions have a neighbour that no specification uses
(`raiseOnce` beside `raiseLevel`, `resumeUnchecked` beside `resume`): it is the definition with a plausible
mistake in it, kept to show that a property notices. `PROJECT.json` lists them as mutants.

### Scheduler

One `schedule()` call is a *generation* (`submit()` is a generation of one unit). JavaScript
runs a generation's code to its next `await` without interruption, so the variable `active`
names the generation that is running and every other event (a runner settles, a caller aborts,
a scope stops, capacity changes, another await resolves) needs `active = None`. A pass is

    BeginPass -> one Skip/AdmitWait/AdmitRefused/Start per ready unit -> Park | RefuseLate | ReturnAfterPass

exactly in the code's order: expire units, promote or refuse blocked units, sort once (`rankAt`
freezes the sort keys), visit with the *current* rank and the *shared* waiting list, sync the
waiting list, refuse what is past its lock deadline, leave the loop or park. `Resume` is the
resolution of the await, by `notifyCapacityChanged`, by an own unit or by the lock timer. The
clock may advance between any two steps, as each reads it afresh.

The promotion sweep goes over the list once. A refusal is seen by the entries behind it and
not by those before it: `DependencyFailed` characterises the set of refused units with the list
position, instead of iterating.

`finish` is the whole of the code's `finish()`: release keys and slot, consume or release the
budget, tell the scope, settle, wake the others. Its four callers are the outcomes of the race.
`UnitAbandoned` needs an aborted controller, and the runner's own answer may still win.

State correspondence: `state`, `result`, `effect`, `passedOver`, `capacityBlocked`, `arrival`
and `queuedAt` are fields of `Entry`; `held`, `running`, `waitingUnits`, `nextArrival` are the
closure's variables; `woken` and `pc` stand for `capacityWaiters`, `inflight` and the program
counter; `stopping` for aborted controllers; `budgetLeft` for the ledger node's remainder;
`scopeEffect` for what the scope was told; `ran` is a history variable.

Abstractions: the byte dimension of the queue limit and the budget, counters, diagnostics,
partial results and the texts of errors are left out; conflict keys are sets (a key named twice
by one unit counts once); a unit without a deadline has one beyond the clock bound; each
generation is submitted once. Resolved awaits are delivered in any order, where the engine
delivers them first in, first out: the safety results hold for more schedules than can happen.
A runner that throws before it returns a promise is not modelled (see the hazards).

`WorkAdmission` says what a caller relies on and nothing of how it is brought about: a unit waits,
begins when its dependencies completed, a slot is free and its keys are not used up, ends once,
or is given up without having run. `Scheduler!ImplementsWorkAdmission` maps the states of an
entry to these phases and its result to the verdict; the passes, parking, aging, aborts and
wake-ups are stutters.

### ScopeTree

Every call is synchronous and atomic, except that the two loops that evict or settle scopes one
by one (`trimRetained`, `forceSettleUnacknowledged`) are stepped by `trim` and `forcing`, during
which no other call starts. `evict` resets everything a node held, so a scope that reuses the
identifier starts as `derive` makes it. A tombstone carries the ancestor identifiers captured
at eviction, as in the code. `reason` is set exactly when the scope's abort signal fires;
reasons a caller may give that are treated alike are one value. `known` is a history variable: the
worst effect the tree *accepted* for a scope or below it.

Abstractions: an identifier is always derived under the same parent, generated identifiers
(`nextChildOrdinal`) are ordinary ones, and the event log with its listeners is left out because no
code in the program reads it back. The branch of `trimRetained` for a retained identifier
without a node is unreachable: that is the theorem `RetentionStays`.

### Shutdown

The phases of `run()` are the values `1 .. Last` of `phase`, then `Sweep` (the forced settlement)
and `Done`. `enterPhase` is `runPhase` up to its await: arm the deadline, call the participants.
`left` is the time to the deadline; `endPhase` fires when all participants settled or it is 0,
records what each was seen to do and opens the next phase with `builtInWork` first, as the
code does: `cancelRoot` in its phase. A rise of the level aborts the wait; the code's loop arms it
again at once on the shorter grace, a step of its own here (`rearm`, `Rearm`) during which no
other event comes in. `firstInterrupt` and `laterInterrupt` are the ladder of `interruption.ts`
as `runtime-lifecycle.ts` wires it, `requestShutdown` every other caller of `shutdown()`. The policy
counts every interrupt; the first three change the level, the others nothing. The level of the policy
and that of the coordinator are two states that move apart when somebody other than a signal began or
raised the shutdown: `InterruptsHeard` says the coordinator's wait is never behind. `cancelRoot`
does nothing when the root was evicted, as the code does not look at the answer of `cancel`.

The tree is the `ScopeTree` module itself. While the coordinator waits, the rest of the program
opens, shelters and settles scopes (`TreeCall`); an acknowledgement stands for any way in which
a scope settles by itself, since no property of this module tells them apart. The tree's
deadlines and reported effects are not used here (they are in `scope_tree`). A participant
settles in its phase, later, or never. Left out: a participant that throws before it returns a
promise, the texts of the report, and the process exit that follows it.

### Schedules

Hosts are processes that share only the store. A store call is one transaction and one step; a
host's step goes from one await to the next, split where two transactions follow each other and
another process may come between (`returned` and `settle`; `clearBlocker` and `claim`). A tick is

    tick -> recoverOwned | inspectUnavailable | inspected, per open attempt
         -> retire -> admit -> authorityChanged | [clearBlocker] claim | claimRefused, per due slot

and an execution is `claim -> execute -> returned -> settle`. `close` and `closeEnds` are `close()`
and its one-second limit, `crash` may happen at any point, in the middle of a tick, a claim or a
settlement included. The users' commands are one step each, being fenced by the revision seen.
A slot falls due in any order (a slot started by hand may be later than a periodic one, so the new
one may itself be the one that is coalesced); the visit of due slots may end at any slot, as it does
when sixteen executions run or the host closes; retiring goes on while a host closes; an execution whose
validation throws returns uncertain like one that threw itself; and `closeEnds` may lose any of its
writes to a cancellation that came in between.

`state`, `generation` and `blocker` are the record; the record's revision is only ever compared,
so the model keeps for each host whether it moved since the tick read it (`same`), and for an
attempt whether it moved between the read and the write of its settlement (`raced`). A slot has at
most one attempt, which is named by it. `owner` is the *living* process that claimed the attempt: what
`inspect` finds out. It is forgotten once the attempt is settled, as nobody asks again.
`executions`, `unseen` and `stops` are history.

Abstractions: one schedule (schedules share no row); which slots fall due and when is left open,
so the calendar, time zones, misfires and catch-up are not modelled; terminal outcomes are
"known" or "uncertain". Left out: notices, quarantine of unreadable rows, import, paging beyond
one page, and the artifacts of an execution.

### EventJournal

A step is what runs between two awaits of `persistFacts`, so another journal's append, a crash,
a cancellation or the quiescing of the store comes between any two facts of a batch. `tail` is
`appendTail`, the promise chain that runs the calls of one journal one after another; `next` is the
cached cursor; `resolveAppend` is the decision the store takes under its write lock: a known key
is a receipt or a conflict, a new one must carry the next sequence. `appendUncertain` is a COMMIT
whose reply was lost, `listenerThrows` a subscriber that fails after the event was stored.
`compareAndPersist` comes with any head its caller may have inspected, however long ago, also for a
checkpoint that is stored already.

A fact is its identity (`factIdentity`), whether it is a history record, and a body; two facts of one
key differ only in the body, as when session history retries a record with its content marked
unavailable. `KeyAssumption` says what the callers do: a fact that follows another in its batch
is handed over only as part of that batch. `persisted` and `seen` are history. Left out: the paging by which a journal
finds its cursor over a store without `head()` (the durable store has it), replay, the codec and its
migrations, artifact pinning, retention and projections.

`EventStream` is what the callers rely on, without journals, cursors, queues or faults: one stream that
takes a fact once and after the facts its batch has before it, and a receipt only for a batch whose
facts are in the stream in their order. `EventJournal!ImplementsEventStream` maps the log to the facts in
it and `persisted` to the receipts. A transaction that stores a new fact is a `Store`, its reply
lost or not; the return of a call that was fully stored is an `Acknowledge`; everything else
(conflicts, duplicates, gaps, retries, rewinds of the cursor, crashes) is a stutter.

### BoundedQueue

`enqueue()` up to its first await is one step per outcome (`accept`, `reject`, `coalesce`, `spill`,
`wait`, `abortedEarly`); what follows the await is another (`resume`, `spilled`, `abort`), and
anything may run in between. Every entry point expires overdue items first, so every action does.
The clock ages the items; an age stops counting once it is beyond the limit. The model's clock never
steps back. The code's does not promise that: production hands in `createSystemClock`, which is
`Date.now()` (`domain/foundation/clock.ts`), and `elapsedBetween` takes a negative age for zero. After a
step back a later item may look older than the one before it, so that `expire()` stops early at the
younger head; `OldestFirst` is about clocks without such a step. Each request is
offered once. Left out: the artifact that is written by a spill, `snapshot()` and the counters.

## What is checked

| Run | Instance | Checks | Result |
|---|---|---|---|
| `scheduler_safety` | two generations, four units: a chain of two mutations in a scope (one takes the global key), an interactive unit with a deadline whose `admit()` may say wait or refuse, and an observation; 2 slots with 1 reserved, 3 queue places, budget 3, starvation threshold 1, clock 0..2 | `Accounting`, `CapsRespected`, `DependencyOrder`, `EffectHonest`, `QueueHonest`, `StopIsHeard`, `SettledIsFinal`, and the refinement `ImplementsWorkAdmission` | holds, 1.6 million states |
| `scheduler_live` | a chain of two units, the second with a deadline, and a unit of another generation that needs the same key and may wait for a resource; 1 slot, 2 queue places (so a full queue refuses a generation), clock 0..2 | `WaitIsBounded`, `AbortReturns` without any assumption on runners; `OrderedGenerationReturns` when runners settle | holds, 78 thousand states |
| `scheduler_hang` | a chain of three with budget for one operation | `EveryUnitSettles` | violated: finding 1 |
| `scheduler_wake` | three generations of one unit with overlapping keys | `NoMissedWakeUp` | violated: finding 2 |
| `scheduler_scope` | as `scheduler_safety` | `StoppedScopeStartsNothing` | violated: finding 3 |
| `scope_tree` | a chain of four scopes (the last beyond the depth limit) with room for one tombstone and for no settled scope that nothing holds, one deadline earlier than its parent's, effects that are uncertain | `ChainIntact`, `RetentionExact`, `NoEscape`, `EffectNeverLost`, `SettledIsFrozen` | holds, 0.7 million states |
| `scope_report` | as `scope_tree` | `ReportAgrees` | violated: finding 4 |
| `shutdown` | three phases with the cancellation in the middle, a participant in the first and one in the last, grace 3, 2 and 1, the root and two scopes below it of which one is open at a time, one retained scope and one tombstone, five interrupts | `NothingSurvives`, `ActiveIsSheltered`, `ReportHonest`, `GraceHonoured`, `InterruptsHeard`, `GraceOnlyShrinks`, `ShutdownEnds` | holds, 436 thousand states |
| `schedules` | two hosts, two slots, two generations (queue-latest, then skip), one slot superseded at a time, one closing or crash | `AtMostOnce`, `LiveIsNotLost`, `OneQueued`, `UncertainHolds`, `VerdictIsFinal` | holds, 2.5 million states |
| `schedules_live` | two hosts, one slot, the parallel policy, two closings or crashes | `DeadIsSettled`, `CancelReaches` | holds, 124 thousand states |
| `event_journal` | two journals; a batch of two lifecycle facts, a history record with the variant its author retries with, a checkpoint; four calls, one fault | `LogSound`, `PersistedIsStored`, `PrefixStored`, `NotifiedOnce`, `NeverAhead`, and the refinement `ImplementsEventStream` | holds, 4.3 million states |
| `bounded_queue` | five requests of sizes 1, 1, 2, 3 and 4 (one that never fits), 2 items, 3 bytes, age 1, every overflow policy | `Bounded`, `NothingLost`, `OldestFirst`, `WaitEnds` | holds, 106 thousand states |

The type invariants are proved and not run.

The bounds are the smallest at which each mechanism is used against another: a queue that
fills, no retained scope and one tombstone so that eviction, displacement and reuse of an
identifier all happen, a threshold of one so that units age, a budget that runs out; a graceful
grace long enough that a rise of the level can shorten it or come too late to; a host that dies and
one that recovers, with a slot waiting behind the open attempt and an edit that leaves an old
slot pending; a batch that fails halfway and is retried while the other journal appends; a
released producer whose room was taken. For safety the proofs remove the
bounds. Bounds that exist only in the models: `MaxTime` on the clock,
the condition of `CanSubmit` (a generation arrives while its lock deadline still fits the
clock), `MaxInterrupts` in `Shutdown`, `MaxGeneration` and `MaxStops` in `Schedules`, `MaxCalls` and
`MaxFaults` in `EventJournal`,
and the finite sets of units, scopes, slots and requests.

`CHECK_DEADLOCK FALSE` where the system really may stop: all generations returned and the clock at
its bound, a shutdown that has ended, all calls of the journals settled, a deleted schedule with
nothing left open. Identical hosts and identical journals are symmetric in the safety runs, never
in a run that checks liveness.

### Fairness

`FairSpec` assumes what the JavaScript event loop gives: a pass that has begun runs to its await
(weak fairness on the steps of a pass), every resolved await is delivered (strong fairness per
generation, because another generation may be running whenever it is tried, and promise jobs
are first in, first out), aborts and deadlines of running units are delivered, and time passes.
It assumes nothing of runners. `RunnersSettle`, that runners eventually resolve or reject,
is a premise of `OrderedGenerationReturns` and part of `FairRunnersSpec`, the specification of
`scheduler_hang`: there the hang is not any runner's fault.

`Shutdown`: the coordinator's continuation is delivered and time passes, both under strong fairness
because the rest of the program may call the tree whenever they are tried; the synchronous loops
of the tree run to their end. No participant and no scope has to settle, and no interrupt has
to come.

`Schedules`: the timer of a host that is up wakes it and the awaits of its tick settle (weak fairness
per host), and looking up a process that is tried again and again succeeds in the end (strong
fairness per attempt). Executions may hang, and hosts may stop; `DeadIsSettled` has as its
premise that one of them stays up.

`BoundedQueue`: a settled await is resumed and the consumer keeps taking items. Nobody has to abort,
drain or offer anything.

### Findings

1. **A refusal inside a pass strands its dependents.** The sweep that refuses dependents runs
   before `start()`, which may refuse synchronously (admission or budget). The dependents stay
   blocked, nothing is in flight, no lock timer is armed, and the generation parks for ever unless
   some other generation happens to finish work. `OrderedGenerationReturns` shows the
   hang needs such a refusal or a list out of dependency order.
2. **A start does not wake those who yielded to it.** A parked generation whose unit yielded
   to a higher-ranked waiter is not told when that waiter has started, although a slot and its
   keys are free; it waits for somebody to finish, or for its own lock deadline to refuse it.
3. **Cancelling a scope does not cancel its queued units**, as the option's documentation
   says; they are started later, with a signal that is already aborted.
4. **A forced settlement is uncertain in the outcome and not in the report.** Recovery that
   reads `requiresInspection` is told that nothing needs inspection. The theorem
   `ReportAgreesUnforced` shows that this is the only way in which the two part.

### Observations

What the models show about the code besides the findings; no run states these as violations.

Against lines of the repository:

* **The bounded queue strands waiting producers.** `bounded-queue.ts:37-38` says of the wait policy
  that "the call resolves once there is room or `signal` aborts". It does not when the room was made by
  expiry: with one slot and age 1, an item is accepted, a second producer waits, the item expires, and
  nobody is told. The producer waits in front of an empty queue, however often the consumer calls
  `dequeue()`, which releases nobody when it finds nothing, until somebody drains the queue or another
  producer's item is taken from it. And a
  released producer whose item can never fit is refused without passing its release on. `WaitEnds` has
  the absence of these cases as its premise: it says what the code keeps of the promise.
* **A merge may exceed `maxBytes`.** The module's comment says there is no path that "grows memory
  because the consumer is slow" (`bounded-queue.ts:5-6`). A merge under the coalesce policy, the one that
  `provider-stream-consumer.ts` uses by default, asks for no room: with `maxBytes` 3, a display-only item of
  size 1 is accepted and one of size 4 under the same key, which an empty queue would refuse, replaces it.
  Growth stays bounded, so whether this contradicts the comment can be argued. `Bounded` leaves the
  byte limit out for that policy; the theorems give its exact reach: nothing but such a merge takes
  the bytes above the limit (`OnlyMergesExceed`), and they never exceed `maxItems` times the
  largest size offered (`LimitsHold`).

Where no line promises otherwise:

* A settlement that loses its compare-and-set to a cancellation is not retried by its own host
  (`Schedules!settle`, and `closeEnds` for the attempts a closing host gives up): the attempt stays open
  until its process ends and another host recovers it. `VerdictIsFinal` and `DeadIsSettled` hold
  regardless.
* The blocker `uncertain` of a paused schedule is cleared by a later validation or by the recovery of
  an identity; the schedule stays paused, which is what `UncertainHolds` rests on.
* A journal whose cursor another one overtook is refused by the store until it retries the missing
  fact or is restarted, and the duplicate receipt of a `compareAndPersist` may rewind the cursor.
  Both err on the safe side: `NeverAhead`.

## What is proved

For every set of units, dependency graph, tree, limit and schedule of events, and from nothing
but the named assumptions on the constants (their types, and what is said of `KeyAssumption`,
`ScopesAssumption` and `ShutdownAssumption` below):

* `SchedulerProofs`: `Typing`, `CountersExact`, `CapsHold`, `DependenciesFirst`,
  `EffectsHonest`, `QueueIsHonest`, `StopsAreHeard`, the action property `SettledStays`, and `Refinement`, that
  `Scheduler` implements `WorkAdmission`;
* `ScopeTreeProofs`: `Typing`, `ChainStays`, `RetentionStays`, `NoneEscapes`,
  `EffectsSurvive`, `DeadlinesOnlyNarrow`, the action property `SettledStays`, and
  `ReportAgreesUnforced`, the property of finding 4 for behaviours without a forced settlement;
* `ShutdownProofs`: `Typing`, `StopReachesAll`, `NoneSurvives`, `ReportIsHonest`, `GraceIsHonoured`,
  `InterruptsAreHeard`, the action property `GraceShrinks`, `TreeRefinement`, that the composition
  implements `ScopeTree`, and
  from it `TreeStaysSound` and the action property `OutcomesStay`;
* `SchedulesProofs`: `Typing`, `StartsAtMostOnce`, `LivingIsKept`, `QueuesOne`, and the action
  properties `HoldsUntilSeen` and `VerdictStays`;
* `EventJournalProofs`: `Typing`, `StreamStaysSound`, `ReceiptsAreHonest`, `PrefixesStay`,
  `HeardAtMostOnce`, `CursorsStayBehind`, and `Refinement`, that `EventJournal` implements
  `EventStream`;
* `BoundedQueueProofs`: `Typing`, `WaitersExact`, `LimitsHold` (`Bounded`, and the bytes within
  `maxItems` times the largest size), `NoneIsLost`, `AgeOrder`, and the action properties
  `OnlyMergesExceed`, that a step beyond `maxBytes` is a merge with a larger item, and `AnswersAreFinal`,
  that an answer is never revised and no item comes back.

**Scheduler.** None of the properties is inductive. `IInv` adds `Control` (a generation not yet
submitted has idle units only, a pass visits only ready units of the active generation, and the
waiting list holds nothing but waiting units, units of the active generation and units of draining
ones) and `LifeCycle` (how `state`, `result` and `ran` go together; a unit that is ready or beyond
has completed dependencies, because a completed unit stays completed). `NextShapes` sorts the
actions by what they do to units: `Start` and `finish` change the counters, all others only move
units between the queue and settled (`UnitMoves`), so that the cardinality arguments (`StartCounts`,
`FinishCounts`, `MovesCount`) are made once. The reserved slots need one more idea: aging only
lowers a rank, so a start that finds room among the slots that are not reserved cannot be
invalidated by the units that age meanwhile. The refinement uses the same invariant: a start is a
`Begin` because dependencies of a ready unit completed and because the counters, being exact, say
what the abstract cardinalities say; the sweeps of a pass are one `GiveUp` of all units they refuse.
`StopIsHeard` needs `Heard`: no pass runs in an aborted generation (`PassesUnaborted`, since a pass
is not interrupted and begins only if nobody aborted), so no unit is started under an
abort that fired before it listened, and `start` takes over a scope that has stopped; later signals
reach every running unit; and a parked loop that was aborted has
its wake-up pending, a draining one has too or still has a unit whose `finish` will wake it.

**Scope tree.** `IInv` adds `Placed` (a scope out of memory knows nothing, an active one was not
asked to stop, the forced sweep has only live scopes left), `TombstonesWhole` (a tombstone names all
its scope's ancestors), and `Folded`: what the tree accepted for a scope is recorded on it, folded
into it, or still held by a *live* scope below it. `EffectNeverLost` itself is not inductive, since
evicting a settled descendant removes it from the walk; `Folded` survives because a scope folds what
it holds before it can be evicted. `NoEscape` is inductive together with `ChainIntact`, which makes
every path in memory complete; `DeadlinesNest` uses the same fact, and that what is evicted is
nobody's ancestor, so that an identifier derived again is compared with whoever is above it then.
`OutcomeGrounded` (an outcome that needs inspection recorded an effect that does) is kept by three
of the four ways to settle, and these are the only steps that make a scope terminal (`WhoSettles`).

**Shutdown.** The coordinator's part of the invariant says which participants were called so far
(`CalledSoFar`), that the report of a closed phase is what had been observed (`Observed`) and what
the verdict was drawn from (`Concluded`). `Heard` says that the coordinator's level is not below
the policy's once an interrupt came; with `GraceHonoured` and `ShutdownAssumption`, that a higher level
has no longer grace (as in `graceForLevel`), this is `InterruptsHeard`. The tree's part (`TreeInv`)
is small: the ancestors of a scope
in memory are in memory, from the cancellation on an active scope is sheltered, and from the sweep
on every scope is terminal or still to be swept. It needs that every other scope is below
the root (`ScopesAssumption`): a scope opened during the later phases inherits the stop of the root
unless a boundary lies between, and a root that is terminal opens nothing, which is why
nothing survives. `ScopesAssumption` includes the tree's own assumptions; as every step of the
composition is one call of the tree or none (`TreeRefinement`), the tree's theorems hold in it as
proved, through the instance `TP` of their module, and are not proved a second time.

**Schedules.** `Attempts` ties a slot, its attempt and its execution together: only an admitted
slot has an attempt, only an owned one an execution, and who is to execute has not executed yet.
`Held` says that while the user has not seen an uncertain attempt the schedule is not enabled, so
that a claim, which looks at the record as it is *now*, fails whatever its host had read.
`Queue` says that no slot is of a generation ahead of the definition's and, under queue-latest, that
two pending slots of the present generation are the same.

**Event journal.** `Progress` follows a running call: the facts before the present one are in the
stream (`Under`), a receipt in flight names the stored event (`Honest`), and the head a fenced call
was given is not ahead of the stream (`Fences`). `Told` says that listeners heard only of stored
events, and that an append whose receipt is in flight has been told to nobody. `KeyAssumption` is
used for `PrefixStored` alone. The refinement adds no invariant: the store takes a fact only if its
key is new, and the facts before it are in by then (`Under`); when a call returns, its facts are in
the stream (`PersistedIsStored`), and since a key is there once (`LogSound`) and never before the
facts its batch has first (`PrefixStored`), in their order.

**Bounded queue.** None of the properties is inductive alone: the fates in `NothingLost` describe
exactly the queued items only if no request is queued twice, which in turn needs that who waits, was
released or spills has no fate yet; that a released producer is not also in the list of waiters is
`Parked` (the list holds each parked producer once and nobody else); and the byte limit of `Bounded`
is kept by expiry only because the counter is the sum of what is queued. `WellKept` states what a
queue and the fates of the requests owe each other for any two such values, so that expiry,
insertion, removal and replacement are each argued once and combined per action. The byte counter is
the running sum of the sizes; that it only falls when items leave and grows by one size when one
comes is an induction over the length. The library's induction theorems take an operator as a
parameter and cannot be instantiated here; the induction is made with the least counterexample, from
`WFMin`, for a set of naturals.

Only model-checked:
* the liveness properties, as the prover has neither fairness nor `ENABLED`;
* being violated, the four properties of the findings.

## Not modelled, and the plan

Not modelled because they are I/O, rendering, conversion or heuristics: the last row of the
inventory, by far the greater part of the repository's lines. Their state changes, where they
have any, go through the parts above. The rest, in this order:

1. **BudgetLedger** and **ResourceLedger**: chains, aliases joined under open reservations, poisoned
   buckets, release once; no node above its limit, to be proved.
2. **Scheduler with ScopeTree**: `recordOnScope` against a tree that evicts; runners and participants that
   throw before they return a promise.
3. **Turn attempt policy and tool-call loop**: no retry of work that may have happened, over the
   journal as it is modelled.
4. **Mailbox leases, delegation and agent joins, work queues, process tasks**: leases and joins over crashes,
   along the lines of `Schedules`.
5. **Lifecycle data** (collection of artifacts against late references), **workflows**.
6. **An abstract occurrence** (due, begun at most once, one verdict, uncertain until seen) that `Schedules`
   implements, as `WorkAdmission` and `EventStream` are for theirs.
