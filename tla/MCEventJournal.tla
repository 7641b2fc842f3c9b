-------------------------- MODULE MCEventJournal --------------------------
(* Two journals on one stream: a batch of two lifecycle facts, a history   *)
(* record and the variant its author retries with, and one checkpoint.     *)
EXTENDS EventJournal, TLC

Lifecycle(k) == [key |-> k, history |-> FALSE, body |-> "exact"]
History(b) == [key |-> "record", history |-> TRUE, body |-> b]

MCBatches ==
  {<<Lifecycle("started"), Lifecycle("completed")>>,
   <<History("retained")>>, <<History("unavailable")>>}
MCCheckpoints == {[key |-> "checkpoint", history |-> TRUE, body |-> "exact"]}

JournalSymmetry == Permutations(Journals)
============================================================================
