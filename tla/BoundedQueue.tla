--------------------------- MODULE BoundedQueue ---------------------------
(***************************************************************************)
(* The bounded queue (application/orchestration/bounded-queue.ts): its     *)
(* producers, its consumer, the clock that ages its items and the signals  *)
(* that cancel a wait.  A step is what runs between two awaits: a producer *)
(* parked by the wait policy, or spilling, resumes in a later step, and    *)
(* anything may run in between.  Each request is offered once.             *)
(*                                                                         *)
(* The clock is assumed never to step back.  In production it is           *)
(* createSystemClock, which reads Date.now(): when the wall clock is set   *)
(* back, items admitted later look older than those before them, and       *)
(* expire() may stop early until the clock has caught up.                  *)
(***************************************************************************)
EXTENDS Integers, Sequences, SequencesExt

CONSTANTS Requests,             \* the identifiers of the items offered
          Size,                 \* byteLength of each request
          Coalescable,          \* the display-only requests
          MergeKey,             \* merge key of each request; NoKey is null
          NoKey,
          maxItems, maxBytes,
          maxItemAge,           \* in clock ticks
          Policies              \* the overflow policies to consider

ASSUME LimitAssumption ==
  /\ maxItems \in Nat \ {0} /\ maxBytes \in Nat \ {0} /\ maxItemAge \in Nat
  /\ Size \in [Requests -> Nat] /\ Coalescable \subseteq Requests
  /\ Policies \subseteq {"reject", "wait", "spill", "coalesce"}

VARIABLES overflow,  \* limits.overflow of this queue
          items,     \* the queued items with their age
          bytes,
          waiters,   \* the producers parked by the wait policy, oldest first
          phase,     \* per request: where its enqueue() stands, or its outcome
          fate       \* per request: what became of the item once admitted

vars == <<overflow, items, bytes, waiters, phase, fate>>

Outcomes == {"accepted", "waited", "coalesced", "spilled", "rejected", "cancelled",
             "failed"}

Item == [id : Requests, age : 0 .. maxItemAge + 1]

TypeOK ==
  /\ overflow \in Policies
  /\ items \in Seq(Item)
  /\ bytes \in Nat
  /\ waiters \in Seq(Requests)
  /\ phase \in [Requests -> {"new", "waiting", "released", "spilling"} \cup Outcomes]
  /\ fate \in [Requests -> {"none", "queued", "expired", "taken", "replaced"}]

Init ==
  /\ overflow \in Policies
  /\ items = <<>> /\ bytes = 0 /\ waiters = <<>>
  /\ phase = [r \in Requests |-> "new"]
  /\ fate = [r \in Requests |-> "none"]

---------------------------------------------------------------------------
BytesOf(s) ==
  LET sum[i \in 0 .. Len(s)] == IF i = 0 THEN 0 ELSE sum[i - 1] + Size[s[i].id]
  IN  sum[Len(s)]
IdsOf(s) == {s[i].id : i \in DOMAIN s}

Overdue(item) == item.age > maxItemAge

(* expire(): overdue items are dropped from the front, up to the first     *)
(* that is not.                                                            *)
FrontOverdue ==
  CHOOSE n \in 0 .. Len(items) :
    /\ \A i \in 1 .. n : Overdue(items[i])
    /\ n < Len(items) => ~ Overdue(items[n + 1])
Dropped == SubSeq(items, 1, FrontOverdue)
Kept == SubSeq(items, FrontOverdue + 1, Len(items))
KeptBytes == bytes - BytesOf(Dropped)
expired == [r \in Requests |-> IF r \in IdsOf(Dropped) THEN "expired" ELSE fate[r]]

(* Asked after expire().                                                   *)
hasRoomFor(r) ==
  /\ Len(Kept) + 1 <= maxItems
  /\ KeptBytes + Size[r] <= maxBytes

admit(r) ==
  /\ items' = Append(Kept, [id |-> r, age |-> 0])
  /\ bytes' = KeptBytes + Size[r]
  /\ fate' = [expired EXCEPT ![r] = "queued"]

onlyExpire == items' = Kept /\ bytes' = KeptBytes /\ fate' = expired

becomes(r, outcome) == phase' = [phase EXCEPT ![r] = outcome]

(* The first queued item that a coalescing request may replace.            *)
MergeableAny(r) ==
  IF MergeKey[r] = NoKey THEN {}
  ELSE {i \in DOMAIN Kept : MergeKey[Kept[i].id] = MergeKey[r]}
Mergeable(r) ==
  IF r \notin Coalescable \/ MergeKey[r] = NoKey THEN {}
  ELSE {i \in DOMAIN Kept : /\ Kept[i].id \in Coalescable
                            /\ MergeKey[Kept[i].id] = MergeKey[r]}
First(I) == CHOOSE i \in I : \A k \in I : i <= k

replaceInPlace(r) ==
  LET i == First(Mergeable(r))
  IN /\ items' = [Kept EXCEPT ![i] = [id |-> r, age |-> 0]]
     /\ bytes' = KeptBytes - Size[Kept[i].id] + Size[r]
     /\ fate' = [expired EXCEPT ![Kept[i].id] = "replaced", ![r] = "queued"]
(* The new item goes to the end; no room is asked for.                     *)
replace(r) ==
  LET i == First(Mergeable(r))
  IN /\ items' = Append(RemoveAt(Kept, i), [id |-> r, age |-> 0])
     /\ bytes' = KeptBytes - Size[Kept[i].id] + Size[r]
     /\ fate' = [expired EXCEPT ![Kept[i].id] = "replaced", ![r] = "queued"]

---------------------------------------------------------------------------
(* enqueue(), up to its first await.                                       *)

accept(r) ==
  /\ phase[r] = "new" /\ hasRoomFor(r)
  /\ admit(r) /\ becomes(r, "accepted")
  /\ UNCHANGED <<overflow, waiters>>

full(r) == phase[r] = "new" /\ ~ hasRoomFor(r) /\ UNCHANGED overflow

(* The reject policy, and the two others that fall back to it: nothing to  *)
(* merge with, or no spill port.                                           *)
reject(r) ==
  /\ full(r)
  /\ \/ overflow \in {"reject", "spill"}
     \/ overflow = "coalesce" /\ Mergeable(r) = {}
  /\ onlyExpire /\ becomes(r, "rejected")
  /\ UNCHANGED waiters

coalesce(r) ==
  /\ full(r) /\ overflow = "coalesce" /\ Mergeable(r) # {}
  /\ replace(r) /\ becomes(r, "coalesced")
  /\ UNCHANGED waiters

spill(r) ==
  /\ full(r) /\ overflow = "spill"
  /\ onlyExpire /\ becomes(r, "spilling")
  /\ UNCHANGED waiters

wait(r) ==
  /\ full(r) /\ overflow = "wait"
  /\ onlyExpire /\ becomes(r, "waiting")
  /\ waiters' = Append(waiters, r)

(* The signal had already fired.                                           *)
abortedEarly(r) ==
  /\ full(r) /\ overflow = "wait"
  /\ onlyExpire /\ becomes(r, "cancelled")
  /\ UNCHANGED waiters

---------------------------------------------------------------------------
(* enqueue(), after its await.                                             *)

(* The artifact is written, or the port fails and enqueue() rejects.       *)
spilled(r) ==
  /\ phase[r] = "spilling"
  /\ becomes(r, "spilled") \/ becomes(r, "failed")
  /\ UNCHANGED <<overflow, items, bytes, waiters, fate>>

abort(r) ==
  /\ phase[r] = "waiting" /\ becomes(r, "cancelled")
  /\ \E i \in DOMAIN waiters : waiters[i] = r /\ waiters' = RemoveAt(waiters, i)
  /\ UNCHANGED <<overflow, items, bytes, fate>>

resumeUnchecked(r) ==
  /\ phase[r] = "released"
  /\ admit(r) /\ becomes(r, "waited")
  /\ UNCHANGED <<overflow, waiters>>
(* A released producer tests for room again and does not wait twice.       *)
resume(r) ==
  /\ phase[r] = "released"
  /\ IF hasRoomFor(r) THEN admit(r) /\ becomes(r, "waited")
                      ELSE onlyExpire /\ becomes(r, "rejected")
  /\ UNCHANGED <<overflow, waiters>>

---------------------------------------------------------------------------
(* The consumer, the owner and the clock.                                  *)

take ==
  /\ items' = Tail(Kept)
  /\ bytes' = KeptBytes - Size[Head(Kept).id]
  /\ fate' = [expired EXCEPT ![Head(Kept).id] = "taken"]

dequeueSilent ==
  /\ Kept # <<>> /\ take
  /\ UNCHANGED <<overflow, waiters, phase>>
(* An item leaves and the oldest waiter is released.                       *)
dequeue ==
  /\ Kept # <<>> /\ take
  /\ IF waiters = <<>> THEN UNCHANGED <<waiters, phase>>
     ELSE waiters' = Tail(waiters) /\ becomes(Head(waiters), "released")
  /\ UNCHANGED overflow

(* peek(), and dequeue() on a queue that is empty after expiry: nobody is  *)
(* released.                                                               *)
peek ==
  /\ onlyExpire
  /\ UNCHANGED <<overflow, waiters, phase>>

drain ==
  /\ waiters # <<>> /\ waiters' = <<>>
  /\ phase' = [r \in Requests |-> IF r \in Range(waiters) THEN "released" ELSE phase[r]]
  /\ UNCHANGED <<overflow, items, bytes, fate>>

(* Time passes; by assumption never backwards.                             *)
tick ==
  /\ items' = [i \in DOMAIN items |->
       [items[i] EXCEPT !.age = IF Overdue(items[i]) THEN @ ELSE @ + 1]]
  /\ UNCHANGED <<overflow, bytes, waiters, phase, fate>>

Enqueue(r) ==
  \/ accept(r) \/ reject(r) \/ coalesce(r) \/ spill(r) \/ wait(r) \/ abortedEarly(r)

Next ==
  \/ \E r \in Requests : Enqueue(r) \/ spilled(r) \/ abort(r) \/ resume(r)
  \/ dequeue \/ peek \/ drain \/ tick

Spec == Init /\ [][Next]_vars

(* The event loop resumes a settled await, and the consumer keeps taking   *)
(* items.  Nobody has to abort, drain or offer anything.                   *)
Fairness ==
  /\ WF_vars(dequeue)
  /\ \A r \in Requests : WF_vars(resume(r))

FairSpec == Spec /\ Fairness

---------------------------------------------------------------------------
(* Properties.                                                             *)

(* "A queue that cannot grow without bound": whoever resumes, expires or   *)
(* overflows, the byte counter is exact and the item limit holds, and so   *)
(* does the byte limit under the policies that never merge. A merge asks   *)
(* for no room, so under coalesce, the policy of provider streams, the     *)
(* byte limit is left out.                                                 *)
Bounded ==
  /\ bytes = BytesOf(items)
  /\ Len(items) <= maxItems
  /\ overflow # "coalesce" => bytes <= maxBytes

(* "No path that silently drops an item and reports success": an item      *)
(* whose producer was told it is in is queued once, or was taken, expired  *)
(* or, if it is display-only, replaced; and no other item is in the queue. *)
NothingLost ==
  \A r \in Requests :
    /\ phase[r] \in {"accepted", "waited", "coalesced"} <=> fate[r] # "none"
    /\ fate[r] = "queued" <=> r \in IdsOf(items)
    /\ fate[r] = "replaced" => r \in Coalescable
    /\ \A i, k \in DOMAIN items : items[i].id = items[k].id => i = k

(* The queue is in order of age, waited and merged items included: expire  *)
(* stops at the first item that is young enough, so an old item behind a   *)
(* young one would stay and hold its bytes past the age limit. It rests on *)
(* a clock that never steps back.                                          *)
OldestFirst ==
  \A i, k \in DOMAIN items : i < k => items[i].age >= items[k].age

(* A parked producer is answered as long as the consumer takes items: no   *)
(* release is lost to a producer that took the room first, aborted or was  *)
(* turned away. Left out, because there the code does strand a producer:   *)
(* items that expire release nobody, and neither does a released producer  *)
(* whose item could never fit.                                             *)
WaitEnds ==
  [](/\ \A i \in DOMAIN items : ~ Overdue(items[i])
     /\ \A r \in Requests : phase[r] = "waiting" => Size[r] <= maxBytes)
    => \A r \in Requests : phase[r] = "waiting" ~> phase[r] # "waiting"
============================================================================
