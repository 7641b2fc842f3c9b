---------------------------- MODULE EventStream ----------------------------
(***************************************************************************)
(* What the callers of the journals rely on, however many journals write   *)
(* the stream, race, retry, restart or lose a reply: one stream that only  *)
(* grows, fact by fact, holds no fact twice and takes a fact of a batch    *)
(* only after the facts before it; and a receipt for a batch is given only *)
(* when its facts are in the stream, in their order.                       *)
(***************************************************************************)
EXTENDS Naturals, Sequences

CONSTANT Offered   \* the sequences of facts callers hand over

VARIABLES stream,    \* the facts stored so far
          receipts   \* the sequences reported persisted

streamVars == <<stream, receipts>>

(* A history record is only answered for by itself, any other fact by its  *)
(* key.                                                                    *)
Same(e, f) ==
  /\ e.key = f.key
  /\ e.history \/ f.history => e.history = f.history /\ e.body = f.body

Holds(f) == \E i \in DOMAIN stream : stream[i].key = f.key

Init == stream = <<>> /\ receipts = {}

(* The k-th fact of an offer is stored.                                    *)
Store(facts, k) ==
  /\ stream' = Append(stream, facts[k])
  /\ ~ Holds(facts[k])
  /\ \A i \in 1 .. k - 1 : Holds(facts[i])
  /\ UNCHANGED receipts

(* The caller is told that its facts are persisted.                        *)
Acknowledge(facts) ==
  /\ facts \notin receipts
  /\ receipts' = receipts \cup {facts}
  /\ \E place \in [DOMAIN facts -> DOMAIN stream] :
       /\ \A i \in DOMAIN facts : Same(stream[place[i]], facts[i])
       /\ \A i, k \in DOMAIN facts : i < k => place[i] < place[k]
  /\ UNCHANGED stream

Next ==
  \E facts \in Offered :
    \/ \E k \in DOMAIN facts : Store(facts, k)
    \/ Acknowledge(facts)

Spec == Init /\ [][Next]_streamVars
============================================================================
