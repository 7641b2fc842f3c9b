--------------------------- MODULE EventJournal ---------------------------
(***************************************************************************)
(* The turn event journal (application/runtime/turn-event-journal.ts) over *)
(* the durable event store (data/sessions/event-store.ts), for one stream. *)
(* Several journals, each in a process of its own or several in one, write *)
(* the same stream.  A journal runs its calls one after another and keeps  *)
(* a cached append cursor; the store decides every append in one immediate *)
(* transaction.  A step is what runs between two awaits, so another        *)
(* journal's appends come between any two facts of a batch.                *)
(***************************************************************************)
EXTENDS Integers, Sequences

CONSTANTS Journals,    \* the journals open on the stream
          Batches,     \* the fact sequences callers hand to persist
          Checkpoints, \* the facts callers hand to compareAndPersist
          MaxCalls,    \* bound: calls made in a behaviour
          MaxFaults    \* bound: crashes, lost replies, throwing listeners

FactsOf(batch) == {batch[i] : i \in DOMAIN batch}
Facts == (UNION {FactsOf(b) : b \in Batches}) \cup Checkpoints
Handed == Batches \cup {<<c>> : c \in Checkpoints}

ASSUME BatchAssumption ==
  /\ \A b \in Batches : b \in Seq(FactsOf(b)) /\ b # <<>>
  /\ \A f \in Facts : DOMAIN f = {"key", "history", "body"} /\ f.history \in BOOLEAN
(* A fact that follows another in its batch is handed over by no other     *)
(* call, so it is never stored without that batch's earlier facts.         *)
ASSUME KeyAssumption ==
  \A b \in Batches, c \in Handed :
    \A k \in DOMAIN b, m \in DOMAIN c : k > 1 /\ c[m].key = b[k].key => c = b /\ m = k
ASSUME BoundAssumption == MaxCalls \in Nat /\ MaxFaults \in Nat

VARIABLES log,       \* the stored events of the stream
          next,      \* per journal: the cached cursor, 0 before discovery
          accepting, \* per journal: its store handle is not quiesced
          tail,      \* per journal: the calls of appendTail, the first runs
          at,        \* per journal: where the running call stands
          pos,       \* per journal: index of the fact being appended
          sequence,  \* per journal: the sequence given to that fact
          reply,     \* per journal: what the store answered
          persisted, \* history: the fact sequences reported persisted
          seen,      \* history: per journal, what its listeners were told
          calls, faults

vars == <<log, next, accepting, tail, at, pos, sequence, reply, persisted,
          seen, calls, faults>>
running == <<at, pos, sequence, reply>>

(* A call is a persist, or a compareAndPersist fenced by an inspected head. *)
Call == [facts : Handed, head : Nat \cup {-1}]

Answer(kind, n) == [kind |-> kind, sequence |-> n]
Answers == [kind : {"none", "appended", "duplicate", "error"}, sequence : Nat]
Event == [sequence : Nat, fact : Facts]

TypeOK ==
  /\ log \in Seq(Event)
  /\ next \in [Journals -> Nat]
  /\ accepting \in [Journals -> BOOLEAN]
  /\ tail \in [Journals -> Seq(Call)]
  /\ at \in [Journals -> {"idle", "append", "reply"}]
  /\ pos \in [Journals -> Nat]
  /\ sequence \in [Journals -> Nat]
  /\ reply \in [Journals -> Answers]
  /\ persisted \subseteq Handed
  /\ seen \in [Journals -> Seq(Nat)]
  /\ calls \in Nat /\ faults \in Nat

Init ==
  /\ log = <<>>
  /\ next = [j \in Journals |-> 0]
  /\ accepting = [j \in Journals |-> TRUE]
  /\ tail = [j \in Journals |-> <<>>]
  /\ at = [j \in Journals |-> "idle"]
  /\ pos = [j \in Journals |-> 0]
  /\ sequence = [j \in Journals |-> 0]
  /\ reply = [j \in Journals |-> Answer("none", 0)]
  /\ persisted = {}
  /\ seen = [j \in Journals |-> <<>>]
  /\ calls = 0 /\ faults = 0

---------------------------------------------------------------------------
(* The store.                                                              *)

head == Len(log)

(* A recorded row answers for an event of the same key; the payload is     *)
(* compared as well as soon as one of the two is a history record.         *)
SameEvent(e, f) ==
  /\ e.fact.key = f.key
  /\ e.fact.history \/ f.history =>
       e.fact.history = f.history /\ e.fact.body = f.body

Recorded(f) == {i \in DOMAIN log : log[i].fact.key = f.key}

resolveAppendKeyOnly(f, n) ==
  IF Recorded(f) # {} THEN Answer("duplicate", CHOOSE i \in Recorded(f) : TRUE)
  ELSE IF n # head + 1 THEN Answer("error", 0)
  ELSE Answer("appended", n)
resolveAppendUnfenced(f, n) ==
  IF Recorded(f) # {}
  THEN LET i == CHOOSE i \in Recorded(f) : TRUE
       IN IF SameEvent(log[i], f) THEN Answer("duplicate", log[i].sequence)
                                  ELSE Answer("error", 0)
  ELSE IF n > head + 1 THEN Answer("error", 0)
  ELSE Answer("appended", n)

(* Decided under the write lock: a known key is a receipt or a conflict, a *)
(* new one must carry exactly the sequence after the last stored.          *)
resolveAppend(f, n) ==
  IF Recorded(f) # {}
  THEN LET i == CHOOSE i \in Recorded(f) : TRUE
       IN IF SameEvent(log[i], f) THEN Answer("duplicate", log[i].sequence)
                                  ELSE Answer("error", 0)
  ELSE IF n # head + 1 THEN Answer("error", 0)
  ELSE Answer("appended", n)

commit(f, answer) ==
  log' = IF answer.kind = "appended"
         THEN Append(log, [sequence |-> answer.sequence, fact |-> f])
         ELSE log

---------------------------------------------------------------------------
(* The journal.                                                            *)

call(j) == Head(tail[j])
fact(j) == call(j).facts[pos[j]]
fenced(j) == call(j).head >= 0

enqueue(j, c) ==
  /\ calls < MaxCalls
  /\ calls' = calls + 1
  /\ tail' = [tail EXCEPT ![j] = Append(@, c)]
  /\ UNCHANGED <<log, next, accepting, running, persisted, seen, faults>>

persist(j) == \E b \in Batches : enqueue(j, [facts |-> b, head |-> -1])

(* A checkpoint is published against a head its author read some time      *)
(* before, whether or not the checkpoint is in the stream by now.          *)
compareAndPersist(j) ==
  \E c \in Checkpoints, inspected \in 0 .. head :
    enqueue(j, [facts |-> <<c>>, head |-> inspected])

(* The running call settles and appendTail hands over to the next one,     *)
(* whether it resolved or rejected.                                        *)
settle(j) ==
  /\ tail' = [tail EXCEPT ![j] = Tail(@)]
  /\ at' = [at EXCEPT ![j] = "idle"]
  /\ pos' = [pos EXCEPT ![j] = 0]
  /\ sequence' = [sequence EXCEPT ![j] = 0]
  /\ reply' = [reply EXCEPT ![j] = Answer("none", 0)]

(* Stale (current() says no), cancelled before discovery, or an unreadable *)
(* head.                                                                   *)
refuse(j) ==
  /\ tail[j] # <<>> /\ at[j] = "idle"
  /\ settle(j)
  /\ UNCHANGED <<log, next, accepting, persisted, seen, calls, faults>>

(* discoverNextSequence: the cached cursor, else one read of the head,     *)
(* which the durable store always offers. A fenced call takes the head it  *)
(* was given and leaves the cursor alone.                                  *)
discoverNextSequence(j) ==
  /\ tail[j] # <<>> /\ at[j] = "idle"
  /\ LET n == IF next[j] # 0 THEN next[j] ELSE head + 1
     IN /\ next' = IF fenced(j) THEN next ELSE [next EXCEPT ![j] = n]
        /\ sequence' = [sequence EXCEPT
             ![j] = IF fenced(j) THEN call(j).head + 1 ELSE n]
  /\ pos' = [pos EXCEPT ![j] = 1]
  /\ at' = [at EXCEPT ![j] = "append"]
  /\ UNCHANGED <<log, accepting, tail, reply, persisted, seen, calls, faults>>

(* The signal fired before this fact: the appended prefix stays.           *)
cancelled(j) ==
  /\ at[j] = "append"
  /\ settle(j)
  /\ UNCHANGED <<log, next, accepting, persisted, seen, calls, faults>>

answered(j, answer) ==
  /\ reply' = [reply EXCEPT ![j] = answer]
  /\ at' = [at EXCEPT ![j] = "reply"]
  /\ UNCHANGED <<next, accepting, tail, pos, sequence, persisted, seen, calls>>

append(j) ==
  /\ at[j] = "append" /\ accepting[j]
  /\ LET answer == resolveAppend(fact(j), sequence[j])
     IN commit(fact(j), answer) /\ answered(j, answer)
  /\ UNCHANGED faults

(* Quiesced, closed, busy, aborted before BEGIN, or a reference to an      *)
(* artifact that is gone: nothing was written.                             *)
appendRefused(j) ==
  /\ at[j] = "append"
  /\ answered(j, Answer("error", 0))
  /\ UNCHANGED <<log, faults>>

(* COMMIT reported an I/O failure although the row is durable.             *)
appendUncertain(j) ==
  /\ at[j] = "append" /\ accepting[j] /\ faults < MaxFaults
  /\ faults' = faults + 1
  /\ commit(fact(j), resolveAppend(fact(j), sequence[j]))
  /\ answered(j, Answer("error", 0))

storeErrorSkips(j) ==
  /\ at[j] = "reply" /\ reply[j].kind = "error"
  /\ IF pos[j] = Len(call(j).facts) THEN settle(j)
     ELSE /\ pos' = [pos EXCEPT ![j] = @ + 1]
          /\ at' = [at EXCEPT ![j] = "append"]
          /\ UNCHANGED <<tail, sequence, reply>>
  /\ UNCHANGED <<log, next, accepting, persisted, seen, calls, faults>>

(* A store error ends the call with the prefix it appended.                *)
storeError(j) ==
  /\ at[j] = "reply" /\ reply[j].kind = "error"
  /\ settle(j)
  /\ UNCHANGED <<log, next, accepting, persisted, seen, calls, faults>>

advancedAlike(j) == sequence[j] + 1

(* The cursor after a receipt; an old receipt does not rewind it.          *)
advanced(j) ==
  IF reply[j].kind = "appended" \/ sequence[j] <= reply[j].sequence
  THEN reply[j].sequence + 1
  ELSE sequence[j]

notifiedAlways(j) == TRUE

(* Listeners are told of an event only when this append stored it.         *)
notified(j) == reply[j].kind = "appended"

received(j) ==
  /\ at[j] = "reply" /\ reply[j].kind \in {"appended", "duplicate"}
  /\ next' = [next EXCEPT ![j] = advanced(j)]
  /\ seen' = IF notified(j) THEN [seen EXCEPT ![j] = Append(@, reply[j].sequence)]
                            ELSE seen

(* The loop goes on with the next fact of the batch.                       *)
nextFact(j) ==
  /\ received(j)
  /\ pos[j] < Len(call(j).facts)
  /\ pos' = [pos EXCEPT ![j] = @ + 1]
  /\ sequence' = [sequence EXCEPT ![j] = advanced(j)]
  /\ at' = [at EXCEPT ![j] = "append"]
  /\ reply' = [reply EXCEPT ![j] = Answer("none", 0)]
  /\ UNCHANGED <<log, accepting, tail, persisted, calls, faults>>

allPersisted(j) ==
  /\ received(j)
  /\ pos[j] = Len(call(j).facts)
  /\ persisted' = persisted \cup {call(j).facts}
  /\ settle(j)
  /\ UNCHANGED <<log, accepting, calls, faults>>

(* A listener throws: the call rejects after its event was stored.         *)
listenerThrows(j) ==
  /\ received(j) /\ notified(j) /\ faults < MaxFaults
  /\ faults' = faults + 1
  /\ settle(j)
  /\ UNCHANGED <<log, accepting, persisted, calls>>

(* The shutdown participant: later appends of this process are refused.    *)
quiesce(j) ==
  /\ accepting[j]
  /\ accepting' = [accepting EXCEPT ![j] = FALSE]
  /\ UNCHANGED <<log, next, tail, running, persisted, seen, calls, faults>>

(* The process dies and is started again with a new journal.               *)
crash(j) ==
  /\ faults < MaxFaults
  /\ faults' = faults + 1
  /\ next' = [next EXCEPT ![j] = 0]
  /\ accepting' = [accepting EXCEPT ![j] = TRUE]
  /\ tail' = [tail EXCEPT ![j] = <<>>]
  /\ at' = [at EXCEPT ![j] = "idle"]
  /\ pos' = [pos EXCEPT ![j] = 0]
  /\ sequence' = [sequence EXCEPT ![j] = 0]
  /\ reply' = [reply EXCEPT ![j] = Answer("none", 0)]
  /\ UNCHANGED <<log, persisted, seen, calls>>

Step(j) ==
  \/ persist(j) \/ compareAndPersist(j)
  \/ refuse(j) \/ discoverNextSequence(j) \/ cancelled(j)
  \/ append(j) \/ appendRefused(j) \/ appendUncertain(j)
  \/ storeError(j) \/ nextFact(j) \/ allPersisted(j) \/ listenerThrows(j)
  \/ quiesce(j) \/ crash(j)

Next == \E j \in Journals : Step(j)
Spec == Init /\ [][Next]_vars

---------------------------------------------------------------------------
(* Properties.                                                             *)

(* However many journals append, retry after a lost reply or restart, the  *)
(* stream has no gap, no two events of one sequence and no fact twice      *)
(* (event-store.ts resolveAppend, turn-events.ts factIdentity).            *)
LogSound ==
  /\ \A i \in DOMAIN log : log[i].sequence = i
  /\ \A i, k \in DOMAIN log : log[i].fact.key = log[k].fact.key => i = k

(* A batch reported "persisted" is in the stream as it was handed over: a  *)
(* receipt earned by an earlier attempt, perhaps another process's, stands *)
(* for the same record (turn-event-journal.ts persistFacts).               *)
PersistedIsStored ==
  \A facts \in persisted : \A i \in DOMAIN facts :
    \E k \in DOMAIN log : SameEvent(log[k], facts[i])

(* A batch that failed half-way leaves a prefix, and its retries complete  *)
(* it in order: no later fact is stored without, or before, an earlier one.*)
PrefixStored ==
  \A b \in Batches : \A i, k \in DOMAIN b : \A p \in Recorded(b[k]) :
    i < k => \E q \in Recorded(b[i]) : q < p

(* Listeners of all journals together hear of a stored event at most once, *)
(* each journal's in stream order, through retries and restarts.           *)
NotifiedOnce ==
  /\ \A j \in Journals : \A i, k \in DOMAIN seen[j] : i < k => seen[j][i] < seen[j][k]
  /\ \A j, l \in Journals : \A i \in DOMAIN seen[j] : \A k \in DOMAIN seen[l] :
       seen[j][i] = seen[l][k] => j = l

(* A failed append has not consumed a sequence: no cursor runs ahead of    *)
(* the stream, which would make the store refuse every later append of     *)
(* this journal as a gap (session-history.ts relies on it when it retries).*)
NeverAhead ==
  \A j \in Journals : next[j] <= head + 1 /\ sequence[j] <= head + 1

(* The stream as its readers see it.                                       *)
ES == INSTANCE EventStream WITH
  Offered  <- Handed,
  stream   <- [i \in DOMAIN log |-> log[i].fact],
  receipts <- persisted

(* The journals and the store together implement one idempotent stream: no *)
(* race, retry, crash or lost reply stores a fact twice or before the      *)
(* facts its batch has first, takes an event back, or lets a batch be      *)
(* reported persisted that is not in the stream in its order.              *)
ImplementsEventStream == ES!Spec
============================================================================
