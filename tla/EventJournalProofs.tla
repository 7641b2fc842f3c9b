------------------------ MODULE EventJournalProofs ------------------------
(***************************************************************************)
(* Proofs about EventJournal for every number of journals, every set of    *)
(* batches and any number of crashes and lost replies.                     *)
(*                                                                         *)
(* The properties speak of the stream and of what was reported; what makes *)
(* them inductive is where each running call stands: the facts before its  *)
(* position are stored, a receipt in flight names the stored event, a      *)
(* fence is never ahead of the stream (Progress), and an append whose      *)
(* receipt is still in flight has been told to nobody (Told).              *)
(***************************************************************************)
EXTENDS EventJournal, TLAPS

Stored(f) == \E k \in DOMAIN log : SameEvent(log[k], f)

Receipt(j) == at[j] = "reply" /\ reply[j].kind \in {"appended", "duplicate"}

Under(j) ==
  at[j] # "idle" =>
    /\ tail[j] # <<>> /\ pos[j] \in DOMAIN call(j).facts
    /\ \A i \in 1 .. (pos[j] - 1) : Stored(call(j).facts[i])

Honest(j) ==
  Receipt(j) =>
    /\ reply[j].sequence \in DOMAIN log
    /\ SameEvent(log[reply[j].sequence], fact(j))

Fences(j) == \A i \in DOMAIN tail[j] : tail[j][i].head <= Len(log)

Progress == \A j \in Journals : Under(j) /\ Honest(j) /\ Fences(j)

Untold(j) == at[j] = "reply" /\ reply[j].kind = "appended"

Told ==
  /\ \A j \in Journals : \A i \in DOMAIN seen[j] : seen[j][i] <= Len(log)
  /\ \A j, l \in Journals : Untold(j) =>
       /\ \A i \in DOMAIN seen[l] : seen[l][i] # reply[j].sequence
       /\ Untold(l) /\ reply[l].sequence = reply[j].sequence => l = j
  /\ \A j \in Journals : Untold(j) =>
       \A i \in DOMAIN seen[j] : seen[j][i] < reply[j].sequence

Inv ==
  /\ TypeOK /\ Progress /\ Told
  /\ LogSound /\ PersistedIsStored /\ PrefixStored /\ NotifiedOnce /\ NeverAhead

---------------------------------------------------------------------------
(* The shape of calls                                                      *)

LEMMA CallFacts ==
  ASSUME NEW c \in Call
  PROVE  /\ c.facts \in Seq(Facts) /\ c.facts # <<>>
         /\ c.head \in Nat \cup {-1}
         /\ c.facts \in Handed
<1>1. \A b \in Batches : FactsOf(b) \subseteq Facts
  BY DEF Facts
<1>2. \A b \in Batches : b \in Seq(Facts)
  <2> TAKE b \in Batches
  <2>1. b \in Seq(FactsOf(b))
    BY BatchAssumption
  <2> QED BY <1>1, <2>1
<1>3. \A f \in Checkpoints : <<f>> \in Seq(Facts) /\ <<f>> # <<>>
  <2>1. Checkpoints \subseteq Facts
    BY DEF Facts
  <2>2. ASSUME NEW f \in Facts PROVE <<f>> \in Seq(Facts) /\ <<f>> # <<>>
    OBVIOUS
  <2> QED BY <2>1, <2>2
<1> QED BY <1>2, <1>3, BatchAssumption DEF Call, Handed

LEMMA CallAt ==
  ASSUME TypeOK, NEW j \in Journals, tail[j] # <<>>
  PROVE  /\ call(j) \in Call /\ tail[j][1] = call(j)
         /\ Tail(tail[j]) \in Seq(Call)
         /\ Len(Tail(tail[j])) = Len(tail[j]) - 1
         /\ \A i \in DOMAIN Tail(tail[j]) : Tail(tail[j])[i] = tail[j][i + 1]
BY DEF TypeOK, call

(* What one transaction of the store does.                                 *)
LEMMA Resolved ==
  ASSUME TypeOK, LogSound, NEW f \in Facts, NEW n \in Nat,
         NEW a, a = resolveAppend(f, n), commit(f, a)
  PROVE  /\ a \in Answers /\ a.kind # "none"
         /\ log' \in Seq(Event) /\ LogSound'
         /\ \A i \in DOMAIN log : i \in DOMAIN log' /\ log'[i] = log[i]
         /\ Len(log) <= Len(log')
         /\ a.kind \in {"appended", "duplicate"} =>
              a.sequence \in DOMAIN log' /\ SameEvent(log'[a.sequence], f)
         /\ IF a.kind = "appended"
            THEN a.sequence = Len(log) + 1 /\ Recorded(f) = {}
                 /\ Len(log') = Len(log) + 1 /\ log'[Len(log) + 1].fact = f
            ELSE log' = log
<1> DEFINE r == CHOOSE i \in Recorded(f) : TRUE
<1>0. log \in Seq(Event) /\ Len(log) \in Nat
  BY DEF TypeOK
<1>1. CASE Recorded(f) # {} /\ SameEvent(log[r], f)
  <2>1. r \in DOMAIN log
    BY <1>1 DEF Recorded
  <2>2. a = Answer("duplicate", log[r].sequence) /\ log[r].sequence = r
    BY <1>1, <2>1 DEF resolveAppend, LogSound
  <2>3. log' = log
    BY <2>2 DEF commit, Answer
  <2>4. a \in Answers /\ a.kind = "duplicate" /\ a.sequence = r
    BY <2>1, <2>2, <1>0 DEF Answer, Answers
  <2>5. LogSound'
    BY <2>3 DEF LogSound
  <2> QED BY <1>0, <1>1, <2>1, <2>3, <2>4, <2>5
<1>2. CASE \/ Recorded(f) # {} /\ ~ SameEvent(log[r], f)
           \/ Recorded(f) = {} /\ n # head + 1
  <2>1. a = Answer("error", 0)
    BY <1>2 DEF resolveAppend
  <2>2. log' = log
    BY <2>1 DEF commit, Answer
  <2>3. LogSound'
    BY <2>2 DEF LogSound
  <2> QED BY <1>0, <2>1, <2>2, <2>3 DEF Answer, Answers
<1>3. CASE Recorded(f) = {} /\ n = head + 1
  <2>1. a = Answer("appended", n)
    BY <1>3 DEF resolveAppend
  <2> DEFINE e == [sequence |-> n, fact |-> f]
  <2>2. log' = Append(log, e) /\ e \in Event
    BY <2>1 DEF commit, Answer, Event
  <2>3. /\ log' \in Seq(Event) /\ Len(log') = Len(log) + 1
        /\ \A i \in DOMAIN log : log'[i] = log[i]
        /\ log'[Len(log) + 1] = e
    BY <2>2, <1>0
  <2>4. \A i \in DOMAIN log : log[i].fact.key # f.key
    BY <1>3 DEF Recorded
  <2>5. DOMAIN log' = DOMAIN log \cup {Len(log) + 1}
    BY <2>3, <1>0
  <2>6. LogSound'
    BY <1>0, <1>3, <2>3, <2>4, <2>5 DEF LogSound, head
  <2>7. SameEvent(log'[Len(log) + 1], f)
    BY <2>3 DEF SameEvent
  <2>8. a \in Answers /\ a.kind = "appended" /\ a.sequence = Len(log) + 1
    BY <2>1, <1>3 DEF Answer, Answers, head
  <2>9. \A i \in DOMAIN log : i \in DOMAIN log' /\ log'[i] = log[i]
    BY <2>3, <2>5
  <2>10. a.sequence \in DOMAIN log'
    BY <2>5, <2>8
  <2>11. log'[Len(log) + 1].fact = f
    BY <2>3
  <2> QED BY <1>0, <1>3, <2>3, <2>6, <2>7, <2>8, <2>9, <2>10, <2>11
<1> QED BY <1>1, <1>2, <1>3
---------------------------------------------------------------------------
(* Frames: what a step leaves alone stays true of the longer stream.       *)

LogGrows ==
  /\ log' \in Seq(Event) /\ Len(log) <= Len(log')
  /\ \A i \in DOMAIN log : i \in DOMAIN log' /\ log'[i] = log[i]

LEMMA ProgressKept ==
  ASSUME TypeOK, Progress, LogGrows, NEW l \in Journals,
         at'[l] = at[l], tail'[l] = tail[l], pos'[l] = pos[l], reply'[l] = reply[l]
  PROVE  Under(l)' /\ Honest(l)' /\ Fences(l)'
<1>0. Under(l) /\ Honest(l) /\ Fences(l)
  BY DEF Progress
<1>1. call(l)' = call(l) /\ fact(l)' = fact(l)
  BY DEF call, fact
<1>2. Under(l)'
  <2> SUFFICES ASSUME at[l] # "idle"
               PROVE  /\ tail[l] # <<>> /\ pos[l] \in DOMAIN call(l).facts
                      /\ \A i \in 1 .. (pos[l] - 1) : Stored(call(l).facts[i])'
    BY <1>1 DEF Under
  <2>1. /\ tail[l] # <<>> /\ pos[l] \in DOMAIN call(l).facts
        /\ \A i \in 1 .. (pos[l] - 1) : Stored(call(l).facts[i])
    BY <1>0 DEF Under
  <2>2. ASSUME NEW i \in 1 .. (pos[l] - 1) PROVE Stored(call(l).facts[i])'
    <3>1. \E k \in DOMAIN log' : SameEvent(log'[k], call(l).facts[i])
      BY <2>1 DEF Stored, LogGrows
    <3> QED BY <3>1, <1>1 DEF Stored
  <2> QED BY <2>1, <2>2
<1>3. Honest(l)'
  BY <1>0, <1>1 DEF Honest, Receipt, LogGrows, SameEvent
<1>4. Fences(l)'
  <2>0. \A i \in DOMAIN tail[l] : tail[l][i] \in Call
    BY DEF TypeOK
  <2>1. \A i \in DOMAIN tail[l] : tail[l][i].head <= Len(log) /\ tail[l][i].head \in Int
    BY <1>0, <2>0 DEF Fences, Call
  <2>2. Len(log) \in Int /\ Len(log') \in Int
    BY DEF TypeOK, LogGrows
  <2> QED BY <2>1, <2>2 DEF Fences, LogGrows
<1> QED BY <1>2, <1>3, <1>4

(* Nothing is stored, reported or told: journal j moves, the rest stays.   *)
Others(j) ==
  \A l \in Journals \ {j} :
    /\ at'[l] = at[l] /\ tail'[l] = tail[l] /\ pos'[l] = pos[l]
    /\ reply'[l] = reply[l] /\ next'[l] = next[l] /\ sequence'[l] = sequence[l]

LEMMA PropertiesKept ==
  ASSUME Inv, UNCHANGED <<log, persisted, seen>>
  PROVE  LogSound' /\ PersistedIsStored' /\ PrefixStored' /\ NotifiedOnce' /\ LogGrows
<1>1. LogSound'
  BY DEF Inv, LogSound
<1>2. PersistedIsStored'
  BY DEF Inv, PersistedIsStored
<1>3. PrefixStored'
  BY DEF Inv, PrefixStored, Recorded
<1>4. NotifiedOnce'
  BY DEF Inv, NotifiedOnce
<1>5. LogGrows
  BY DEF Inv, TypeOK, LogGrows
<1> QED BY <1>1, <1>2, <1>3, <1>4, <1>5

(* A step after which j has no untold receipt and everybody else is as     *)
(* before keeps Told.                                                      *)
LEMMA ToldKept ==
  ASSUME Inv, UNCHANGED <<log, seen>>, NEW j \in Journals, Others(j),
         ~ Untold(j)' \/ UNCHANGED <<at, reply>>
  PROVE  Told'
<1>1. \A l \in Journals : Untold(l)' => Untold(l) /\ reply'[l] = reply[l]
  BY DEF Untold, Others
<1> QED BY <1>1 DEF Inv, Told

LEMMA AheadKept ==
  ASSUME Inv, LogGrows, NEW j \in Journals, Others(j),
         next'[j] <= Len(log') + 1, sequence'[j] <= Len(log') + 1
  PROVE  NeverAhead'
<1>1. \A l \in Journals : next[l] \in Nat /\ sequence[l] \in Nat
  BY DEF Inv, TypeOK
<1>2. Len(log) \in Nat /\ Len(log') \in Nat
  BY DEF Inv, TypeOK, LogGrows
<1> QED BY <1>1, <1>2 DEF Inv, NeverAhead, Others, LogGrows, head

LEMMA ProgressMoves ==
  ASSUME Inv, LogGrows, NEW j \in Journals, Others(j), Under(j)', Honest(j)', Fences(j)'
  PROVE  Progress'
<1>1. \A l \in Journals \ {j} : Under(l)' /\ Honest(l)' /\ Fences(l)'
  BY ProgressKept DEF Inv, Others
<1> QED BY <1>1 DEF Progress

---------------------------------------------------------------------------
(* The steps                                                               *)

(* A journal that drops its running call, and perhaps the ones behind it.  *)
LEMMA IdleStep ==
  ASSUME Inv, NEW j \in Journals, UNCHANGED <<log, persisted, seen>>, Others(j), TypeOK',
         at'[j] = "idle", sequence'[j] = 0, next'[j] \in {next[j], 0},
         tail'[j] = <<>> \/ (tail[j] # <<>> /\ tail'[j] = Tail(tail[j]))
  PROVE  Inv'
<1>1. LogSound' /\ PersistedIsStored' /\ PrefixStored' /\ NotifiedOnce' /\ LogGrows
  BY PropertiesKept
<1>2. Told'
  BY ToldKept DEF Untold
<1>3. NeverAhead'
  <2>1. Len(log') = Len(log) /\ Len(log) \in Nat /\ next[j] <= Len(log) + 1
    BY DEF Inv, TypeOK, NeverAhead, head
  <2> QED BY <2>1, <1>1, AheadKept
<1>4. Under(j)' /\ Honest(j)'
  BY DEF Under, Honest, Receipt
<1>5. Fences(j)'
  <2>1. Fences(j)
    BY DEF Inv, Progress
  <2>2. CASE tail'[j] = <<>>
    <3>1. \A i \in DOMAIN <<>> : FALSE
      OBVIOUS
    <3> QED BY <2>2, <3>1 DEF Fences
  <2>3. CASE tail[j] # <<>> /\ tail'[j] = Tail(tail[j])
    <3>1. tail[j] \in Seq(Call)
      BY DEF Inv, TypeOK
    <3>2. \A i \in DOMAIN Tail(tail[j]) :
            i + 1 \in DOMAIN tail[j] /\ Tail(tail[j])[i] = tail[j][i + 1]
      BY <3>1, <2>3
    <3> QED BY <2>1, <2>3, <3>2 DEF Fences
  <2> QED BY <2>2, <2>3
<1>6. Progress'
  BY <1>1, <1>4, <1>5, ProgressMoves
<1> QED BY <1>1, <1>2, <1>3, <1>6 DEF Inv

LEMMA Settled ==
  ASSUME TypeOK, NEW j \in Journals, tail[j] # <<>>, settle(j)
  PROVE  /\ tail' \in [Journals -> Seq(Call)]
         /\ at' \in [Journals -> {"idle", "append", "reply"}]
         /\ pos' \in [Journals -> Nat] /\ sequence' \in [Journals -> Nat]
         /\ reply' \in [Journals -> Answers]
         /\ at'[j] = "idle" /\ sequence'[j] = 0 /\ tail'[j] = Tail(tail[j])
         /\ \A l \in Journals \ {j} :
              /\ at'[l] = at[l] /\ tail'[l] = tail[l] /\ pos'[l] = pos[l]
              /\ reply'[l] = reply[l] /\ sequence'[l] = sequence[l]
<1>1. Tail(tail[j]) \in Seq(Call)
  BY CallAt
<1>2. Answer("none", 0) \in Answers
  BY DEF Answer, Answers
<1> QED BY <1>1, <1>2 DEF TypeOK, settle

LEMMA DropStep ==
  ASSUME Inv, NEW j \in Journals, refuse(j) \/ cancelled(j) \/ storeError(j)
  PROVE  Inv'
<1>1. settle(j) /\ UNCHANGED <<log, next, accepting, persisted, seen, calls, faults>>
  BY DEF refuse, cancelled, storeError
<1>2. tail[j] # <<>>
  BY DEF refuse, cancelled, storeError, Inv, Progress, Under
<1>3. TypeOK'
  BY <1>1, <1>2, Settled DEF Inv, TypeOK
<1>4. /\ at'[j] = "idle" /\ sequence'[j] = 0 /\ tail'[j] = Tail(tail[j])
      /\ Others(j)
  BY <1>1, <1>2, Settled DEF Inv, Others
<1> QED BY <1>1, <1>2, <1>3, <1>4, IdleStep

LEMMA CrashStep ==
  ASSUME Inv, NEW j \in Journals, crash(j)
  PROVE  Inv'
<1>1. Answer("none", 0) \in Answers /\ <<>> \in Seq(Call)
  BY DEF Answer, Answers
<1>2. accepting' \in [Journals -> BOOLEAN]
  BY Zenon DEF Inv, TypeOK, crash
<1>3. TypeOK'
  BY <1>1, <1>2 DEF Inv, TypeOK, crash
<1>4. /\ at'[j] = "idle" /\ sequence'[j] = 0 /\ tail'[j] = <<>> /\ next'[j] = 0
      /\ UNCHANGED <<log, persisted, seen>>
  BY DEF Inv, TypeOK, crash
<1>5. Others(j)
  BY DEF Inv, TypeOK, crash, Others
<1>6. next'[j] \in {next[j], 0}
  BY <1>4
<1> QED BY <1>3, <1>4, <1>5, <1>6, IdleStep

LEMMA QuiesceStep ==
  ASSUME Inv, NEW j \in Journals, quiesce(j)
  PROVE  Inv'
<1>1. UNCHANGED <<log, next, tail, at, pos, sequence, reply, persisted, seen, calls, faults>>
  BY DEF quiesce, running
<1>2. accepting' \in [Journals -> BOOLEAN]
  BY Zenon DEF Inv, TypeOK, quiesce
<1>3. TypeOK'
  BY <1>1, <1>2 DEF Inv, TypeOK
<1>4. Others(j)
  BY <1>1 DEF Others
<1>5. LogSound' /\ PersistedIsStored' /\ PrefixStored' /\ NotifiedOnce' /\ LogGrows
  BY <1>1, PropertiesKept
<1>6. Told'
  BY <1>1, <1>4, ToldKept
<1>7. NeverAhead'
  BY <1>1 DEF Inv, NeverAhead, head
<1>8. Progress'
  BY <1>1, <1>5, ProgressKept DEF Inv, Progress
<1> QED BY <1>3, <1>5, <1>6, <1>7, <1>8 DEF Inv

LEMMA EnqueueStep ==
  ASSUME Inv, NEW j \in Journals, NEW c \in Call, c.head <= Len(log), enqueue(j, c)
  PROVE  Inv'
<1>1. /\ UNCHANGED <<log, next, accepting, at, pos, sequence, reply, persisted, seen, faults>>
      /\ calls' = calls + 1 /\ tail' = [tail EXCEPT ![j] = Append(@, c)]
  BY DEF enqueue, running
<1>2. tail \in [Journals -> Seq(Call)] /\ tail[j] \in Seq(Call)
  BY DEF Inv, TypeOK
<1>3. tail'[j] = Append(tail[j], c) /\ tail' \in [Journals -> Seq(Call)]
  BY <1>1, <1>2
<1>4. TypeOK'
  BY <1>1, <1>3 DEF Inv, TypeOK
<1>5. Others(j)
  BY <1>1, <1>2 DEF Others
<1>6. LogSound' /\ PersistedIsStored' /\ PrefixStored' /\ NotifiedOnce' /\ LogGrows
  BY <1>1, PropertiesKept
<1>7. Told'
  BY <1>1, <1>5, ToldKept
<1>8. NeverAhead'
  BY <1>1 DEF Inv, NeverAhead, head
<1>9. tail[j] # <<>> => tail'[j] # <<>> /\ call(j)' = call(j)
  BY <1>2, <1>3 DEF call
<1>10. Under(j) /\ Honest(j) /\ Fences(j)
  BY DEF Inv, Progress
<1>11. Under(j)'
  BY <1>1, <1>9, <1>10 DEF Under, Stored, SameEvent
<1>12. Honest(j)'
  <2> SUFFICES ASSUME Receipt(j)' PROVE Honest(j)'
    BY DEF Honest
  <2>1. Receipt(j) /\ tail[j] # <<>>
    BY <1>1, <1>10 DEF Receipt, Under
  <2>2. fact(j)' = fact(j)
    BY <1>1, <1>9, <2>1 DEF fact
  <2> QED BY <1>1, <1>10, <2>1, <2>2 DEF Honest
<1>13. Fences(j)'
  BY <1>1, <1>2, <1>3, <1>10 DEF Fences
<1>14. Progress'
  BY <1>5, <1>6, <1>11, <1>12, <1>13, ProgressMoves
<1> QED BY <1>4, <1>6, <1>7, <1>8, <1>14 DEF Inv

LEMMA DiscoverStep ==
  ASSUME Inv, NEW j \in Journals, discoverNextSequence(j)
  PROVE  Inv'
<1> DEFINE n == IF next[j] # 0 THEN next[j] ELSE head + 1
           s == IF fenced(j) THEN call(j).head + 1 ELSE n
<1>1. /\ UNCHANGED <<log, accepting, tail, reply, persisted, seen, calls, faults>>
      /\ tail[j] # <<>> /\ at[j] = "idle"
      /\ next' = IF fenced(j) THEN next ELSE [next EXCEPT ![j] = n]
      /\ sequence' = [sequence EXCEPT ![j] = s]
      /\ pos' = [pos EXCEPT ![j] = 1] /\ at' = [at EXCEPT ![j] = "append"]
  BY DEF discoverNextSequence
<1>2. /\ call(j) \in Call /\ call(j).facts \in Seq(Facts) /\ call(j).facts # <<>>
      /\ call(j).head \in Nat \cup {-1} /\ tail[j][1] = call(j)
  BY <1>1, CallAt, CallFacts DEF Inv
<1>3. call(j).head <= Len(log)
  <2>1. 1 \in DOMAIN tail[j]
    BY <1>1 DEF Inv, TypeOK
  <2> QED BY <1>2, <2>1 DEF Inv, Progress, Fences
<1>4. next[j] \in Nat /\ next[j] <= Len(log) + 1 /\ Len(log) \in Nat
  BY DEF Inv, TypeOK, NeverAhead, head
<1>5. n \in Nat /\ n <= Len(log) + 1 /\ s \in Nat /\ s <= Len(log) + 1
  BY <1>2, <1>3, <1>4 DEF fenced, head
<1>6. TypeOK'
  <2>1. next' \in [Journals -> Nat] /\ sequence' \in [Journals -> Nat]
    BY <1>1, <1>5 DEF Inv, TypeOK
  <2>2. at' \in [Journals -> {"idle", "append", "reply"}] /\ pos' \in [Journals -> Nat]
    BY <1>1 DEF Inv, TypeOK
  <2> QED BY <1>1, <2>1, <2>2 DEF Inv, TypeOK
<1>7. Others(j)
  BY <1>1 DEF Inv, TypeOK, Others
<1>8. next'[j] <= Len(log') + 1 /\ sequence'[j] <= Len(log') + 1
  BY <1>1, <1>4, <1>5 DEF Inv, TypeOK
<1>9. at'[j] = "append" /\ pos'[j] = 1
  BY <1>1 DEF Inv, TypeOK
<1>10. LogSound' /\ PersistedIsStored' /\ PrefixStored' /\ NotifiedOnce' /\ LogGrows
  BY <1>1, PropertiesKept
<1>11. Told'
  BY <1>1, <1>7, <1>9, ToldKept DEF Untold
<1>12. NeverAhead'
  BY <1>7, <1>8, <1>10, AheadKept
<1>13. Under(j)'
  <2>1. call(j)' = call(j) /\ 1 \in DOMAIN call(j).facts
    BY <1>1, <1>2 DEF call
  <2>2. \A i \in 1 .. (1 - 1) : FALSE
    OBVIOUS
  <2> QED BY <1>1, <1>9, <2>1, <2>2 DEF Under
<1>14. Honest(j)' /\ Fences(j)'
  BY <1>1, <1>9 DEF Honest, Receipt, Fences, Inv, Progress
<1>15. Progress'
  BY <1>7, <1>10, <1>13, <1>14, ProgressMoves
<1> QED BY <1>6, <1>10, <1>11, <1>12, <1>15 DEF Inv

(* The store stored nothing new or one event, and j holds the answer.      *)
LEMMA AnsweredStep ==
  ASSUME Inv, NEW j \in Journals, at[j] = "append", NEW r, NEW a,
         r = resolveAppend(fact(j), sequence[j]), commit(fact(j), r) \/ log' = log,
         answered(j, a), faults' \in Nat,
         a = Answer("error", 0) \/ (a = r /\ commit(fact(j), r))
  PROVE  Inv'
<1>0. /\ UNCHANGED <<next, accepting, tail, pos, sequence, persisted, seen, calls>>
      /\ reply' = [reply EXCEPT ![j] = a] /\ at' = [at EXCEPT ![j] = "reply"]
  BY DEF answered
<1>1. /\ tail[j] # <<>> /\ pos[j] \in DOMAIN call(j).facts
      /\ \A i \in 1 .. (pos[j] - 1) : Stored(call(j).facts[i])
  BY DEF Inv, Progress, Under
<1>2. call(j) \in Call /\ call(j).facts \in Seq(Facts) /\ call(j).facts \in Handed
  BY <1>1, CallAt, CallFacts DEF Inv
<1>3. fact(j) \in Facts /\ sequence[j] \in Nat
  BY <1>1, <1>2 DEF fact, Inv, TypeOK
<1>4. a \in Answers /\ log' \in Seq(Event) /\ LogGrows /\ LogSound'
  <2>1. CASE commit(fact(j), r)
    BY <2>1, <1>3, Resolved DEF Inv, LogGrows, Answer, Answers
  <2>2. CASE log' = log
    BY <2>2, <1>3, Resolved DEF Inv, TypeOK, LogGrows, Answer, Answers, LogSound
  <2> QED BY <2>1, <2>2
<1>5. \/ log' = log
      \/ /\ Len(log') = Len(log) + 1 /\ log'[Len(log) + 1].fact = fact(j)
         /\ Recorded(fact(j)) = {}
  BY <1>3, Resolved DEF Inv
<1>6. a.kind \in {"appended", "duplicate"} =>
        a.sequence \in DOMAIN log' /\ SameEvent(log'[a.sequence], fact(j))
  BY <1>3, Resolved DEF Inv, Answer
<1>7. a.kind = "appended" => a.sequence = Len(log) + 1 /\ Len(log') = Len(log) + 1
  BY <1>3, Resolved DEF Inv, Answer
<1>8. at'[j] = "reply" /\ reply'[j] = a /\ call(j)' = call(j) /\ fact(j)' = fact(j)
  BY <1>0 DEF Inv, TypeOK, call, fact
<1>9. Others(j)
  BY <1>0 DEF Inv, TypeOK, Others
<1>10. TypeOK'
  <2>1. reply' \in [Journals -> Answers] /\ at' \in [Journals -> {"idle", "append", "reply"}]
    BY <1>0, <1>4 DEF Inv, TypeOK
  <2> QED BY <1>0, <1>4, <2>1 DEF Inv, TypeOK
<1>11. PersistedIsStored'
  BY <1>0, <1>4 DEF Inv, PersistedIsStored, LogGrows
<1>12. NeverAhead'
  <2>1. next[j] <= Len(log) + 1 /\ sequence[j] <= Len(log) + 1 /\ next[j] \in Nat
        /\ sequence[j] \in Nat /\ Len(log) \in Nat /\ Len(log') \in Nat
    BY <1>4 DEF Inv, NeverAhead, head, TypeOK
  <2>2. next'[j] <= Len(log') + 1 /\ sequence'[j] <= Len(log') + 1
    BY <1>0, <1>4, <2>1 DEF LogGrows
  <2> QED BY <2>2, <1>4, <1>9, AheadKept
<1>13. Progress'
  <2>1. ASSUME NEW i \in 1 .. (pos[j] - 1) PROVE Stored(call(j).facts[i])'
    <3>1. \E k \in DOMAIN log' : SameEvent(log'[k], call(j).facts[i])
      BY <1>1, <1>4 DEF Stored, LogGrows
    <3> QED BY <3>1, <1>8 DEF Stored
  <2>2. Under(j)'
    BY <2>1, <1>0, <1>1, <1>8 DEF Under
  <2>3. Honest(j)'
    BY <1>6, <1>8 DEF Honest, Receipt
  <2>4. Fences(j)'
    <3>1. \A i \in DOMAIN tail[j] : tail[j][i] \in Call
      BY DEF Inv, TypeOK
    <3>2. \A i \in DOMAIN tail[j] : tail[j][i].head <= Len(log) /\ tail[j][i].head \in Int
      BY <3>1 DEF Inv, Progress, Fences, Call
    <3>3. Len(log) \in Int /\ Len(log') \in Int
      BY <1>4 DEF Inv, TypeOK
    <3> QED BY <3>2, <3>3, <1>0, <1>4 DEF Fences, LogGrows
  <2> QED BY <2>2, <2>3, <2>4, <1>4, <1>9, ProgressMoves
<1>14. PrefixStored'
  <2> SUFFICES ASSUME NEW b \in Batches, NEW i \in DOMAIN b, NEW k \in DOMAIN b, i < k,
                      NEW p \in DOMAIN log', log'[p].fact.key = b[k].key
               PROVE  \E q \in DOMAIN log' : log'[q].fact.key = b[i].key /\ q < p
    BY DEF PrefixStored, Recorded
  <2>1. CASE p \in DOMAIN log
    <3>1. p \in Recorded(b[k])
      BY <2>1, <1>4 DEF Recorded, LogGrows
    <3>2. PICK q \in Recorded(b[i]) : q < p
      BY <3>1 DEF Inv, PrefixStored
    <3> QED BY <3>2, <1>4 DEF Recorded, LogGrows
  <2>2. CASE p \notin DOMAIN log
    <3>1. Len(log) \in Nat /\ Len(log') \in Nat /\ log \in Seq(Event) /\ log' \in Seq(Event)
      BY <1>4 DEF Inv, TypeOK
    <3>2. p = Len(log) + 1 /\ log'[p].fact = fact(j)
      BY <2>2, <1>5, <3>1
    <3>3. b \in Seq(FactsOf(b)) /\ i \in Nat /\ k \in Nat /\ i > 0 /\ k > 1
      BY BatchAssumption
    <3>4. call(j).facts = b /\ pos[j] = k
      BY <3>2, <3>3, <1>1, <1>2, KeyAssumption DEF fact
    <3>5. i \in 1 .. (pos[j] - 1)
      BY <3>3, <3>4
    <3>6. PICK q \in DOMAIN log : SameEvent(log[q], b[i])
      BY <3>4, <3>5, <1>1 DEF Stored
    <3>7. q \in DOMAIN log' /\ log'[q].fact.key = b[i].key /\ q < p
      BY <3>1, <3>2, <3>6, <1>4 DEF SameEvent, LogGrows
    <3> QED BY <3>7
  <2> QED BY <2>1, <2>2
<1>15. NotifiedOnce'
  BY <1>0 DEF Inv, NotifiedOnce
<1>16. Told'
  <2>0. Len(log) \in Nat /\ Len(log') \in Nat /\ Len(log) <= Len(log')
        /\ \A l \in Journals : seen[l] \in Seq(Nat) /\ reply[l].sequence \in Nat
    BY <1>4 DEF Inv, TypeOK, LogGrows, Answers
  <2>1. \A l \in Journals : \A i \in DOMAIN seen[l] :
          seen[l][i] <= Len(log) /\ seen[l][i] \in Nat
    BY <2>0 DEF Inv, Told
  <2>2. \A l \in Journals \ {j} :
          /\ Untold(l)' <=> Untold(l)
          /\ reply'[l] = reply[l] /\ (Untold(l) => reply[l].sequence <= Len(log))
    <3> TAKE l \in Journals \ {j}
    <3>1. Untold(l) => reply[l].sequence \in DOMAIN log
      BY DEF Inv, Progress, Honest, Receipt, Untold
    <3>2. \A i \in DOMAIN log : i <= Len(log)
      BY DEF Inv, TypeOK
    <3> QED BY <3>1, <3>2, <1>9 DEF Others, Untold
  <2>3. Untold(j)' => reply'[j].sequence = Len(log) + 1 /\ Len(log') = Len(log) + 1
    BY <1>7, <1>8 DEF Untold
  <2>4. \A l \in Journals : \A i \in DOMAIN seen'[l] : seen'[l][i] <= Len(log')
    BY <2>0, <2>1, <1>0
  <2>5. \A g \in Journals : Untold(g)' =>
          \A l \in Journals : \A i \in DOMAIN seen'[l] : seen'[l][i] # reply'[g].sequence
    BY <2>0, <2>1, <2>2, <2>3, <1>0 DEF Inv, Told
  <2>6. \A g, l \in Journals :
          Untold(g)' /\ Untold(l)' /\ reply'[l].sequence = reply'[g].sequence => l = g
    BY <2>0, <2>2, <2>3 DEF Inv, Told
  <2>7. \A g \in Journals : Untold(g)' =>
          \A i \in DOMAIN seen'[g] : seen'[g][i] < reply'[g].sequence
    BY <2>0, <2>1, <2>2, <2>3, <1>0 DEF Inv, Told
  <2> QED BY <2>4, <2>5, <2>6, <2>7 DEF Told
<1> QED BY <1>4, <1>10, <1>11, <1>12, <1>13, <1>14, <1>15, <1>16 DEF Inv

LEMMA AppendStep ==
  ASSUME Inv, NEW j \in Journals, append(j) \/ appendRefused(j) \/ appendUncertain(j)
  PROVE  Inv'
<1>1. faults \in Nat
  BY DEF Inv, TypeOK
<1>2. CASE append(j)
  BY <1>1, <1>2, AnsweredStep DEF append
<1>3. CASE appendRefused(j)
  <2>1. at[j] = "append" /\ answered(j, Answer("error", 0)) /\ log' = log /\ faults' = faults
    BY <1>3 DEF appendRefused
  <2> QED BY <1>1, <2>1, AnsweredStep
<1>4. CASE appendUncertain(j)
  BY <1>1, <1>4, AnsweredStep DEF appendUncertain
<1> QED BY <1>2, <1>3, <1>4

(* A receipt is taken: the cursor moves past it, listeners hear of it.     *)
LEMMA ReceiptStep ==
  ASSUME Inv, NEW j \in Journals, received(j), UNCHANGED <<log, accepting, calls>>,
         Others(j), at'[j] # "reply", faults' \in Nat
  PROVE  /\ next' \in [Journals -> Nat] /\ seen' \in [Journals -> Seq(Nat)]
         /\ advanced(j) \in Nat /\ advanced(j) <= Len(log) + 1
         /\ next'[j] = advanced(j)
         /\ LogSound' /\ PrefixStored' /\ LogGrows /\ NotifiedOnce' /\ Told'
<1>1. /\ at[j] = "reply" /\ reply[j].kind \in {"appended", "duplicate"}
      /\ next' = [next EXCEPT ![j] = advanced(j)]
      /\ seen' = IF notified(j) THEN [seen EXCEPT ![j] = Append(@, reply[j].sequence)]
                                ELSE seen
  BY DEF received
<1>2. reply[j].sequence \in DOMAIN log
  BY <1>1 DEF Inv, Progress, Honest, Receipt
<1>3. /\ reply[j].sequence \in Nat /\ reply[j].sequence <= Len(log)
      /\ sequence[j] \in Nat /\ sequence[j] <= Len(log) + 1 /\ Len(log) \in Nat
  BY <1>2 DEF Inv, TypeOK, NeverAhead, head
<1>4. advanced(j) \in Nat /\ advanced(j) <= Len(log) + 1
  BY <1>3 DEF advanced
<1>5. next' \in [Journals -> Nat] /\ next'[j] = advanced(j)
  BY <1>1, <1>4 DEF Inv, TypeOK
<1>6. LogSound' /\ PrefixStored' /\ LogGrows
  BY DEF Inv, TypeOK, LogGrows, LogSound, PrefixStored, Recorded
<1> DEFINE s == reply[j].sequence
<1>7. seen \in [Journals -> Seq(Nat)]
  BY DEF Inv, TypeOK
<1>8. \A l \in Journals : Untold(l)' => l # j /\ Untold(l) /\ reply'[l] = reply[l]
  BY DEF Others, Untold
<1>9. CASE ~ notified(j)
  <2>1. seen' = seen
    BY <1>1, <1>9
  <2>2. NotifiedOnce'
    BY <2>1 DEF Inv, NotifiedOnce
  <2>3. Told'
    BY <2>1, <1>8 DEF Inv, Told
  <2> QED BY <1>4, <1>5, <1>6, <1>7, <2>1, <2>2, <2>3
<1>10. CASE notified(j)
  <2>1. Untold(j)
    BY <1>1, <1>10 DEF notified, Untold
  <2>2. seen' \in [Journals -> Seq(Nat)] /\ seen'[j] = Append(seen[j], s)
        /\ \A l \in Journals \ {j} : seen'[l] = seen[l]
    BY <1>1, <1>3, <1>7, <1>10
  <2>3. \A i \in DOMAIN seen'[j] :
          \/ i \in DOMAIN seen[j] /\ seen'[j][i] = seen[j][i] /\ i <= Len(seen[j])
          \/ i = Len(seen[j]) + 1 /\ seen'[j][i] = s
    BY <1>3, <1>7, <2>2
  <2>4. \A l \in Journals : \A i \in DOMAIN seen[l] :
          seen[l][i] # s /\ seen[l][i] <= Len(log) /\ seen[l][i] \in Nat
    BY <1>7, <2>1 DEF Inv, Told
  <2>5. \A i \in DOMAIN seen[j] : seen[j][i] < s
    BY <2>1 DEF Inv, Told
  <2>6. NotifiedOnce'
    <3>1. ASSUME NEW l \in Journals, NEW i \in DOMAIN seen'[l], NEW k \in DOMAIN seen'[l], i < k
          PROVE  seen'[l][i] < seen'[l][k]
      <4>1. CASE l # j
        BY <3>1, <4>1, <2>2 DEF Inv, NotifiedOnce
      <4>2. CASE l = j
        <5>1. Len(seen[j]) \in Nat /\ i \in Nat /\ k \in Nat
          BY <4>2, <1>7, <2>2
        <5>2. i \in DOMAIN seen[j] /\ seen'[j][i] = seen[j][i]
          BY <3>1, <4>2, <5>1, <2>3
        <5>3. CASE k \in DOMAIN seen[j] /\ seen'[j][k] = seen[j][k]
          BY <3>1, <4>2, <5>2, <5>3 DEF Inv, NotifiedOnce
        <5>4. CASE seen'[j][k] = s
          BY <4>2, <5>2, <5>4, <2>5
        <5> QED BY <4>2, <5>3, <5>4, <2>3
      <4> QED BY <4>1, <4>2
    <3>2. ASSUME NEW g \in Journals, NEW l \in Journals, NEW i \in DOMAIN seen'[g],
                 NEW k \in DOMAIN seen'[l], seen'[g][i] = seen'[l][k]
          PROVE  g = l
      <4>0. \A m, n \in Journals : \A x \in DOMAIN seen[m], y \in DOMAIN seen[n] :
              seen[m][x] = seen[n][y] => m = n
        BY DEF Inv, NotifiedOnce
      <4>1. CASE g # j /\ l # j
        <5>1. seen'[g] = seen[g] /\ seen'[l] = seen[l]
          BY <4>1, <2>2
        <5>2. i \in DOMAIN seen[g] /\ k \in DOMAIN seen[l] /\ seen[g][i] = seen[l][k]
          BY <3>2, <5>1
        <5> QED BY <4>0, <5>2
      <4>2. CASE g = j /\ l # j
        <5>1. i \in DOMAIN seen'[j] /\ k \in DOMAIN seen[l] /\ seen'[j][i] = seen[l][k]
          BY <3>2, <4>2, <2>2
        <5> QED BY <4>0, <4>2, <5>1, <2>3, <2>4
      <4>3. CASE g # j /\ l = j
        <5>1. i \in DOMAIN seen[g] /\ k \in DOMAIN seen'[j] /\ seen[g][i] = seen'[j][k]
          BY <3>2, <4>3, <2>2
        <5> QED BY <4>0, <4>3, <5>1, <2>3, <2>4
      <4> QED BY <4>1, <4>2, <4>3
    <3> QED BY <3>1, <3>2 DEF NotifiedOnce
  <2>7. Told'
    <3>1. \A l \in Journals : \A i \in DOMAIN seen'[l] : seen'[l][i] <= Len(log')
      BY <1>3, <2>2, <2>3, <2>4
    <3>2. \A g \in Journals : Untold(g)' =>
            \A l \in Journals : \A i \in DOMAIN seen'[l] : seen'[l][i] # reply'[g].sequence
      <4> SUFFICES ASSUME NEW g \in Journals, Untold(g)', NEW l \in Journals,
                          NEW i \in DOMAIN seen'[l]
                   PROVE  seen'[l][i] # reply'[g].sequence
        OBVIOUS
      <4>1. g # j /\ Untold(g) /\ reply'[g] = reply[g]
        BY <1>8
      <4>2. reply[g].sequence # s
        BY <4>1, <2>1 DEF Inv, Told
      <4>3. \A k \in DOMAIN seen[l] : seen[l][k] # reply[g].sequence
        BY <4>1 DEF Inv, Told
      <4> QED BY <4>1, <4>2, <4>3, <2>2, <2>3
    <3>3. \A g, l \in Journals :
            Untold(g)' /\ Untold(l)' /\ reply'[l].sequence = reply'[g].sequence => l = g
      BY <1>8 DEF Inv, Told
    <3>4. \A g \in Journals : Untold(g)' =>
            \A i \in DOMAIN seen'[g] : seen'[g][i] < reply'[g].sequence
      BY <1>8, <2>2 DEF Inv, Told
    <3> QED BY <3>1, <3>2, <3>3, <3>4 DEF Told
  <2> QED BY <1>4, <1>5, <1>6, <2>2, <2>6, <2>7
<1> QED BY <1>9, <1>10

(* The running call's fact is stored once its receipt is here.             *)
LEMMA ReceiptStored ==
  ASSUME Inv, NEW j \in Journals, Receipt(j)
  PROVE  /\ tail[j] # <<>> /\ pos[j] \in DOMAIN call(j).facts
         /\ call(j) \in Call /\ call(j).facts \in Seq(Facts) /\ call(j).facts \in Handed
         /\ \A i \in 1 .. pos[j] : Stored(call(j).facts[i])
<1>1. /\ tail[j] # <<>> /\ pos[j] \in DOMAIN call(j).facts
      /\ \A i \in 1 .. (pos[j] - 1) : Stored(call(j).facts[i])
  BY DEF Inv, Progress, Under, Receipt
<1>2. call(j) \in Call /\ call(j).facts \in Seq(Facts) /\ call(j).facts \in Handed
  BY <1>1, CallAt, CallFacts DEF Inv
<1>3. Stored(call(j).facts[pos[j]])
  BY DEF Inv, Progress, Honest, Stored, fact
<1>4. \A i \in 1 .. pos[j] : i = pos[j] \/ i \in 1 .. (pos[j] - 1)
  BY DEF Inv, TypeOK
<1> QED BY <1>1, <1>2, <1>3, <1>4

LEMMA NextFactStep ==
  ASSUME Inv, NEW j \in Journals, nextFact(j)
  PROVE  Inv'
<1>1. /\ received(j) /\ pos[j] < Len(call(j).facts)
      /\ pos' = [pos EXCEPT ![j] = @ + 1]
      /\ sequence' = [sequence EXCEPT ![j] = advanced(j)]
      /\ at' = [at EXCEPT ![j] = "append"]
      /\ reply' = [reply EXCEPT ![j] = Answer("none", 0)]
      /\ UNCHANGED <<log, accepting, tail, persisted, calls, faults>>
  BY DEF nextFact
<1>2. /\ tail[j] # <<>> /\ pos[j] \in DOMAIN call(j).facts /\ call(j).facts \in Seq(Facts)
      /\ \A i \in 1 .. pos[j] : Stored(call(j).facts[i])
  BY <1>1, ReceiptStored DEF received, Receipt
<1>3. Others(j)
  BY <1>1 DEF Inv, TypeOK, Others, received
<1>4. /\ next' \in [Journals -> Nat] /\ seen' \in [Journals -> Seq(Nat)]
      /\ advanced(j) \in Nat /\ advanced(j) <= Len(log) + 1 /\ next'[j] = advanced(j)
      /\ LogSound' /\ PrefixStored' /\ LogGrows /\ NotifiedOnce' /\ Told'
  <2>1. at'[j] # "reply" /\ faults' \in Nat
    BY <1>1 DEF Inv, TypeOK
  <2> QED BY <1>1, <1>3, <2>1, ReceiptStep
<1>5. /\ at'[j] = "append" /\ pos'[j] = pos[j] + 1 /\ sequence'[j] = advanced(j)
      /\ pos[j] \in Nat
  BY <1>1 DEF Inv, TypeOK
<1>6. TypeOK'
  <2>1. Answer("none", 0) \in Answers
    BY DEF Answer, Answers
  <2>2. /\ pos' \in [Journals -> Nat] /\ sequence' \in [Journals -> Nat]
        /\ at' \in [Journals -> {"idle", "append", "reply"}]
        /\ reply' \in [Journals -> Answers]
    BY <1>1, <1>4, <2>1 DEF Inv, TypeOK
  <2> QED BY <1>1, <1>4, <2>2 DEF Inv, TypeOK
<1>7. PersistedIsStored'
  BY <1>1 DEF Inv, PersistedIsStored
<1>8. NeverAhead'
  BY <1>1, <1>3, <1>4, <1>5, AheadKept
<1>9. Under(j)'
  <2>1. call(j)' = call(j)
    BY <1>1 DEF call
  <2>2. pos[j] + 1 \in DOMAIN call(j).facts
    BY <1>1, <1>2, <1>5
  <2>3. \A i \in 1 .. (pos'[j] - 1) : i \in 1 .. pos[j]
    BY <1>5
  <2> QED BY <1>1, <1>2, <1>5, <2>1, <2>2, <2>3 DEF Under, Stored, SameEvent
<1>10. Honest(j)' /\ Fences(j)'
  BY <1>1, <1>5 DEF Honest, Receipt, Fences, Inv, Progress
<1>11. Progress'
  BY <1>3, <1>4, <1>9, <1>10, ProgressMoves
<1> QED BY <1>4, <1>6, <1>7, <1>8, <1>11 DEF Inv

LEMMA LastFactStep ==
  ASSUME Inv, NEW j \in Journals, allPersisted(j) \/ listenerThrows(j)
  PROVE  Inv'
<1>1. received(j) /\ settle(j) /\ UNCHANGED <<log, accepting, calls>>
  BY DEF allPersisted, listenerThrows
<1>2. /\ tail[j] # <<>> /\ pos[j] \in DOMAIN call(j).facts
      /\ call(j).facts \in Seq(Facts) /\ call(j).facts \in Handed
      /\ \A i \in 1 .. pos[j] : Stored(call(j).facts[i])
  BY <1>1, ReceiptStored DEF received, Receipt
<1>3. /\ tail' \in [Journals -> Seq(Call)]
      /\ at' \in [Journals -> {"idle", "append", "reply"}]
      /\ pos' \in [Journals -> Nat] /\ sequence' \in [Journals -> Nat]
      /\ reply' \in [Journals -> Answers]
      /\ at'[j] = "idle" /\ sequence'[j] = 0 /\ tail'[j] = Tail(tail[j])
      /\ \A l \in Journals \ {j} :
           /\ at'[l] = at[l] /\ tail'[l] = tail[l] /\ pos'[l] = pos[l]
           /\ reply'[l] = reply[l] /\ sequence'[l] = sequence[l]
  BY <1>1, <1>2, Settled DEF Inv
<1>4. Others(j)
  BY <1>1, <1>3 DEF Inv, TypeOK, Others, received
<1>5. faults' \in Nat
  BY DEF Inv, TypeOK, allPersisted, listenerThrows
<1>6. /\ next' \in [Journals -> Nat] /\ seen' \in [Journals -> Seq(Nat)]
      /\ advanced(j) \in Nat /\ advanced(j) <= Len(log) + 1 /\ next'[j] = advanced(j)
      /\ LogSound' /\ PrefixStored' /\ LogGrows /\ NotifiedOnce' /\ Told'
  BY <1>1, <1>3, <1>4, <1>5, ReceiptStep
<1>7. \/ persisted' = persisted
      \/ persisted' = persisted \cup {call(j).facts} /\ pos[j] = Len(call(j).facts)
  BY DEF allPersisted, listenerThrows
<1>8. TypeOK'
  BY <1>1, <1>2, <1>3, <1>5, <1>6, <1>7 DEF Inv, TypeOK
<1>9. PersistedIsStored'
  <2>1. \A facts \in persisted : \A i \in DOMAIN facts : Stored(facts[i])
    BY DEF Inv, PersistedIsStored, Stored
  <2>2. pos[j] = Len(call(j).facts) => DOMAIN call(j).facts = 1 .. pos[j]
    BY <1>2
  <2>3. \A facts \in persisted' : \A i \in DOMAIN facts : Stored(facts[i])
    BY <1>2, <1>7, <2>1, <2>2
  <2> QED BY <1>1, <2>3 DEF PersistedIsStored, Stored
<1>10. NeverAhead'
  <2>1. Len(log') = Len(log) /\ Len(log) \in Nat
    BY <1>1 DEF Inv, TypeOK
  <2> QED BY <1>3, <1>4, <1>6, <2>1, AheadKept
<1>11. Under(j)' /\ Honest(j)'
  BY <1>3 DEF Under, Honest, Receipt
<1>12. Fences(j)'
  <2>1. tail[j] \in Seq(Call) /\ Fences(j)
    BY DEF Inv, TypeOK, Progress
  <2>2. \A i \in DOMAIN Tail(tail[j]) :
            i + 1 \in DOMAIN tail[j] /\ Tail(tail[j])[i] = tail[j][i + 1]
    BY <1>2, <2>1
  <2> QED BY <1>1, <1>3, <2>1, <2>2 DEF Fences
<1>13. Progress'
  BY <1>4, <1>6, <1>11, <1>12, ProgressMoves
<1> QED BY <1>6, <1>8, <1>9, <1>10, <1>13 DEF Inv

LEMMA InitInv == Init => Inv
<1> SUFFICES ASSUME Init PROVE Inv
  OBVIOUS
<1> USE DEF Init
<1>0. \A i \in DOMAIN <<>> : FALSE
  OBVIOUS
<1>1. TypeOK
  <2>1. accepting \in [Journals -> BOOLEAN]
    BY Zenon
  <2> QED BY <2>1 DEF TypeOK, Answer, Answers
<1>2. Progress
  BY <1>0 DEF Progress, Under, Honest, Receipt, Fences
<1>3. Told
  BY <1>0 DEF Told, Untold
<1>4. LogSound /\ PersistedIsStored /\ PrefixStored
  BY <1>0 DEF LogSound, PersistedIsStored, PrefixStored, Recorded
<1>5. NotifiedOnce
  BY <1>0 DEF NotifiedOnce
<1>6. NeverAhead
  <2>1. Len(log) = 0
    OBVIOUS
  <2>2. \A j \in Journals : next[j] = 0 /\ sequence[j] = 0
    OBVIOUS
  <2>3. 0 <= 0 + 1
    OBVIOUS
  <2> HIDE DEF Init
  <2> QED BY <2>1, <2>2, <2>3 DEF NeverAhead, head
<1> QED BY <1>1, <1>2, <1>3, <1>4, <1>5, <1>6 DEF Inv

LEMMA StutterInv == Inv /\ UNCHANGED vars => Inv'
BY DEF Inv, vars, TypeOK, Progress, Under, Honest, Fences, Receipt, Stored, SameEvent, call,
       fact, Told, Untold, LogSound, PersistedIsStored, PrefixStored, Recorded, NotifiedOnce,
       NeverAhead, head

LEMMA NextInv == Inv /\ Next => Inv'
<1> SUFFICES ASSUME Inv, NEW j \in Journals, Step(j) PROVE Inv'
  BY DEF Next
<1>1. CASE persist(j)
  <2>1. PICK b \in Batches : enqueue(j, [facts |-> b, head |-> -1])
    BY <1>1 DEF persist
  <2>2. [facts |-> b, head |-> -1] \in Call
    BY DEF Call, Handed
  <2>3. -1 <= Len(log)
    BY DEF Inv, TypeOK
  <2> QED BY <2>1, <2>2, <2>3, EnqueueStep
<1>2. CASE compareAndPersist(j)
  <2>1. PICK c \in Checkpoints, n \in 0 .. head : enqueue(j, [facts |-> <<c>>, head |-> n])
    BY <1>2 DEF compareAndPersist
  <2>2. n \in Nat /\ n <= Len(log)
    BY DEF Inv, TypeOK, head
  <2>3. [facts |-> <<c>>, head |-> n] \in Call
    BY <2>2 DEF Call, Handed
  <2> QED BY <2>1, <2>2, <2>3, EnqueueStep
<1>3. CASE refuse(j) \/ cancelled(j) \/ storeError(j)
  BY <1>3, DropStep
<1>4. CASE discoverNextSequence(j)
  BY <1>4, DiscoverStep
<1>5. CASE append(j) \/ appendRefused(j) \/ appendUncertain(j)
  BY <1>5, AppendStep
<1>6. CASE nextFact(j)
  BY <1>6, NextFactStep
<1>7. CASE allPersisted(j) \/ listenerThrows(j)
  BY <1>7, LastFactStep
<1>8. CASE quiesce(j)
  BY <1>8, QuiesceStep
<1>9. CASE crash(j)
  BY <1>9, CrashStep
<1> QED BY <1>1, <1>2, <1>3, <1>4, <1>5, <1>6, <1>7, <1>8, <1>9 DEF Step

---------------------------------------------------------------------------
(* The theorems                                                            *)

(* The invariant of the journals and the store: where every running call   *)
(* stands (persistFacts), what its receipt names (resolveAppend) and whom  *)
(* it has been told to.                                                    *)
THEOREM Invariance == Spec => []Inv
<1>1. Inv /\ [Next]_vars => Inv'
  BY NextInv, StutterInv
<1> QED BY InitInv, <1>1, PTL DEF Spec

(* Whatever journals, batches, crashes and lost replies there are, the     *)
(* variables keep their types; a cursor or a sequence is never negative.   *)
THEOREM Typing == Spec => []TypeOK
<1>1. Inv => TypeOK
  BY DEF Inv
<1> QED BY Invariance, <1>1, PTL

(* resolveAppend keeps the stream gapless and free of duplicates however   *)
(* many journals race, retry and restart.                                  *)
THEOREM StreamStaysSound == Spec => []LogSound
<1>1. Inv => LogSound
  BY DEF Inv
<1> QED BY Invariance, <1>1, PTL

(* persistFacts never reports "persisted" of a batch whose facts are not   *)
(* all in the stream, even when a receipt was earned by somebody else.     *)
THEOREM ReceiptsAreHonest == Spec => []PersistedIsStored
<1>1. Inv => PersistedIsStored
  BY DEF Inv
<1> QED BY Invariance, <1>1, PTL

(* The early return of persistFacts on a store error keeps every batch a   *)
(* prefix in order, through any number of retries by any journal.          *)
THEOREM PrefixesStay == Spec => []PrefixStored
<1>1. Inv => PrefixStored
  BY DEF Inv
<1> QED BY Invariance, <1>1, PTL

(* The test on the receipt's status before persistFacts tells listeners    *)
(* suffices: all journals together tell of an event at most once.          *)
THEOREM HeardAtMostOnce == Spec => []NotifiedOnce
<1>1. Inv => NotifiedOnce
  BY DEF Inv
<1> QED BY Invariance, <1>1, PTL

(* The cursor that persistFacts caches, and the sequence it gives to a     *)
(* fact, never run ahead of the stream.                                    *)
THEOREM CursorsStayBehind == Spec => []NeverAhead
<1>1. Inv => NeverAhead
  BY DEF Inv
<1> QED BY Invariance, <1>1, PTL

---------------------------------------------------------------------------
(* The refinement                                                          *)

View == [i \in DOMAIN log |-> log[i].fact]

(* The stream as its readers see it is a sequence, as long as the log.     *)
LEMMA ViewOf ==
  ASSUME log \in Seq(Event)
  PROVE  /\ View \in Seq(Facts) /\ Len(View) = Len(log) /\ DOMAIN View = DOMAIN log
         /\ DOMAIN log = 1 .. Len(log) /\ Len(log) \in Nat
         /\ \A i \in DOMAIN log : View[i] = log[i].fact /\ log[i].fact \in Facts
<1>1. Len(log) \in Nat /\ DOMAIN log = 1 .. Len(log)
  OBVIOUS
<1>2. \A i \in DOMAIN log : log[i].fact \in Facts
  <2>1. \A i \in DOMAIN log : log[i] \in Event
    OBVIOUS
  <2> QED BY <2>1 DEF Event
<1>3. View \in [1 .. Len(log) -> Facts]
  BY <1>1, <1>2 DEF View
<1>4. View \in Seq(Facts) /\ Len(View) = Len(log)
  BY <1>1, <1>3
<1> QED BY <1>1, <1>2, <1>4 DEF View

(* Whatever the store's answer is, the transaction is one step of the      *)
(* stream or none.                                                         *)
LEMMA CommitRefines ==
  ASSUME Inv, NEW j \in Journals, at[j] = "append", UNCHANGED persisted,
         commit(fact(j), resolveAppend(fact(j), sequence[j]))
  PROVE  ES!Next \/ UNCHANGED ES!streamVars
<1> DEFINE a == resolveAppend(fact(j), sequence[j])
<1>0. PICK facts, k : facts = call(j).facts /\ k = pos[j]
  OBVIOUS
<1>1. /\ log \in Seq(Event) /\ sequence[j] \in Nat /\ tail[j] # <<>>
      /\ k \in DOMAIN facts /\ \A i \in 1 .. (k - 1) : Stored(facts[i])
  BY <1>0 DEF Inv, TypeOK, Progress, Under
<1>2. facts \in Handed /\ facts \in Seq(Facts)
  BY <1>0, <1>1, CallAt, CallFacts DEF Inv
<1>3. facts[k] \in Facts /\ facts[k] = fact(j)
  BY <1>0, <1>1, <1>2 DEF fact
<1>4. IF a.kind = "appended"
      THEN /\ Recorded(facts[k]) = {} /\ Len(log') = Len(log) + 1
           /\ log'[Len(log) + 1].fact = facts[k]
      ELSE log' = log
  BY <1>1, <1>3, Resolved DEF Inv
<1>5. /\ log' \in Seq(Event) /\ \A i \in DOMAIN log : i \in DOMAIN log' /\ log'[i] = log[i]
  BY <1>1, <1>3, Resolved DEF Inv
<1>6. CASE log' = log
  BY <1>6 DEF ES!streamVars
<1>7. CASE a.kind = "appended"
  <2>1. View' = Append(View, facts[k])
    <3>1. /\ View \in Seq(Facts) /\ Len(View) = Len(log) /\ Len(log) \in Nat
          /\ \A i \in 1 .. Len(log) : View[i] = log[i].fact
      BY <1>1, ViewOf
    <3>2. /\ DOMAIN log' = 1 .. Len(log) + 1
          /\ \A i \in 1 .. Len(log) : log'[i] = log[i]
      BY <1>1, <1>4, <1>5, <1>7, <3>1
    <3>3. View' = [i \in 1 .. Len(log) + 1 |-> log'[i].fact]
      BY <3>2 DEF View
    <3>4. \A i \in 1 .. Len(log) + 1 :
            log'[i].fact = IF i = Len(log) + 1 THEN facts[k] ELSE View[i]
      BY <1>4, <1>7, <3>1, <3>2
    <3> DEFINE x == facts[k]
               v == View
               w == View'
    <3>5. /\ v \in Seq(Facts) /\ x \in Facts /\ w \in Seq(Facts) /\ Len(w) = Len(v) + 1
          /\ \A i \in 1 .. Len(v) + 1 : w[i] = IF i = Len(v) + 1 THEN x ELSE v[i]
      <4>1. \A i \in 1 .. Len(log) + 1 : log'[i].fact \in Facts
        BY <1>3, <3>1, <3>4
      <4>2. View' \in Seq(Facts) /\ Len(View') = Len(log) + 1
        BY <3>1, <3>3, <4>1
      <4> QED BY <1>3, <3>1, <3>3, <3>4, <4>2
    <3> HIDE DEF x, v, w
    <3>6. w = Append(v, x)
      BY <3>5
    <3> QED BY <3>6 DEF x, v, w
  <2>2. \A f \in Facts : ES!Holds(f) <=> Recorded(f) # {}
    BY DEF ES!Holds, Recorded
  <2>3. ~ ES!Holds(facts[k])
    BY <1>3, <1>4, <1>7, <2>2
  <2>4. \A i \in 1 .. k - 1 : ES!Holds(facts[i])
    BY <1>1, <1>2 DEF Stored, SameEvent, ES!Holds
  <2>5. ES!Store(facts, k)
    BY <2>1, <2>3, <2>4 DEF ES!Store, View
  <2> QED BY <1>1, <1>2, <2>5 DEF ES!Next
<1> QED BY <1>4, <1>6, <1>7

(* A call that settles as persisted has its facts in the stream, in order. *)
LEMMA ReceiptRefines ==
  ASSUME Inv, Inv', NEW j \in Journals, allPersisted(j)
  PROVE  ES!Next \/ UNCHANGED ES!streamVars
<1> DEFINE facts == call(j).facts
<1>1. /\ log' = log /\ persisted' = persisted \cup {facts} /\ log \in Seq(Event)
      /\ tail[j] # <<>>
  BY DEF allPersisted, received, Inv, TypeOK, Progress, Under
<1>2. facts \in Handed /\ facts \in Seq(Facts)
  BY <1>1, CallAt, CallFacts DEF Inv
<1>3. \A i \in DOMAIN facts : \E k \in DOMAIN log : SameEvent(log[k], facts[i])
  <2>1. PersistedIsStored'
    BY DEF Inv
  <2> HIDE DEF facts
  <2> QED BY <1>1, <2>1 DEF PersistedIsStored, SameEvent
<1> DEFINE place == [i \in DOMAIN facts |-> CHOOSE k \in DOMAIN log : SameEvent(log[k], facts[i])]
<1>4. place \in [DOMAIN facts -> DOMAIN log]
      /\ \A i \in DOMAIN facts : SameEvent(log[place[i]], facts[i])
  <2> HIDE DEF facts
  <2> QED BY <1>3
<1> HIDE DEF place
<1>5. \A i, k \in DOMAIN facts : i < k => place[i] < place[k]
  <2> SUFFICES ASSUME NEW i \in DOMAIN facts, NEW k \in DOMAIN facts, i < k
               PROVE  place[i] < place[k]
    OBVIOUS
  <2>1. CASE facts \in Batches
    <3>1. place[k] \in Recorded(facts[k]) /\ place[i] \in Recorded(facts[i])
      BY <1>4 DEF Recorded, SameEvent
    <3>2. PICK q \in Recorded(facts[i]) : q < place[k]
      BY <2>1, <3>1 DEF Inv, PrefixStored
    <3>3. q = place[i]
      BY <3>1, <3>2 DEF Inv, LogSound, Recorded
    <3> QED BY <3>2, <3>3
  <2>2. CASE facts \notin Batches
    <3>1. PICK c \in Checkpoints : facts = <<c>>
      BY <1>2, <2>2 DEF Handed
    <3>2. DOMAIN facts = {1}
      BY <3>1
    <3> QED BY <3>2
  <2> QED BY <2>1, <2>2
<1>6. DOMAIN View = DOMAIN log /\ \A i \in DOMAIN log : View[i] = log[i].fact
  BY DEF View
<1>7. \A i \in DOMAIN facts : ES!Same(View[place[i]], facts[i])
  BY <1>4, <1>6 DEF SameEvent, ES!Same
<1>8. CASE facts \in persisted
  <2> HIDE DEF facts
  <2> QED BY <1>1, <1>8 DEF ES!streamVars
<1>9. CASE facts \notin persisted
  <2>1. place \in [DOMAIN facts -> DOMAIN View]
    BY <1>4, <1>6
  <2>2. View' = View
    BY <1>1 DEF View
  <2> HIDE DEF facts
  <2>3. ES!Acknowledge(facts)
    BY <1>1, <1>5, <1>7, <1>9, <2>1, <2>2 DEF ES!Acknowledge, View
  <2> QED BY <1>2, <2>3 DEF ES!Next
<1> QED BY <1>8, <1>9

(* The journals, their caches, retries, crashes and lost replies implement *)
(* the stream that EventStream describes.                                  *)
THEOREM Refinement == Spec => ImplementsEventStream
<1>1. Init => ES!Init
  BY DEF Init, ES!Init
<1>2. Inv /\ Inv' /\ [Next]_vars => [ES!Next]_(ES!streamVars)
  <2> SUFFICES ASSUME Inv, Inv', [Next]_vars PROVE ES!Next \/ UNCHANGED ES!streamVars
    OBVIOUS
  <2>1. ASSUME UNCHANGED <<log, persisted>> PROVE UNCHANGED ES!streamVars
    BY <2>1 DEF ES!streamVars
  <2>2. CASE UNCHANGED vars
    BY <2>1, <2>2 DEF vars
  <2>3. ASSUME NEW j \in Journals, Step(j) PROVE ES!Next \/ UNCHANGED ES!streamVars
    <3>1. CASE append(j)
      BY <3>1, CommitRefines DEF append, answered
    <3>2. CASE appendUncertain(j)
      BY <3>2, CommitRefines DEF appendUncertain, answered
    <3>3. CASE allPersisted(j)
      BY <3>3, ReceiptRefines
    <3>4. CASE ~ append(j) /\ ~ appendUncertain(j) /\ ~ allPersisted(j)
      <4>1. UNCHANGED <<log, persisted>>
        BY <2>3, <3>4 DEF Step, persist, compareAndPersist, enqueue, refuse,
           discoverNextSequence, cancelled, appendRefused, answered, storeError, nextFact,
           listenerThrows, quiesce, crash
      <4> QED BY <2>1, <4>1
    <3> QED BY <3>1, <3>2, <3>3, <3>4
  <2> QED BY <2>2, <2>3 DEF Next
<1> QED BY <1>1, <1>2, Invariance, PTL DEF Spec, ImplementsEventStream, ES!Spec
============================================================================
