----------------------------- MODULE MCScheduler -----------------------------
(***************************************************************************)
(* The instance on which the safety properties are checked.                *)
(*   g1: a (mutation of k in scope s), then b after a (an undeclared       *)
(*       mutation, so it takes the global key);                            *)
(*   g2: d (interactive mutation of k with a deadline, whose admit() may   *)
(*       answer wait or refused) and o (observation).                      *)
(* The budget and the queue both run full; one slot is kept for d.         *)
(***************************************************************************)
EXTENDS Scheduler, TLC

CONSTANTS a, b, d, o, g1, g2, k, global, s

MCUnits        == {a, b, d, o}
MCGens         == {g1, g2}
MCGenOf        == a :> g1 @@ b :> g1 @@ d :> g2 @@ o :> g2
MCIndex        == a :> 0 @@ b :> 1 @@ d :> 0 @@ o :> 1
MCId           == a :> 1 @@ b :> 2 @@ d :> 1 @@ o :> 2
MCDepIds       == a :> {} @@ b :> {1} @@ d :> {} @@ o :> {}
MCKeys         == {k, global}
MCConflictKeys == a :> {k} @@ b :> {} @@ d :> {k} @@ o :> {}
MCObservations == {o}
MCPriority     == a :> 1 @@ b :> 1 @@ d :> 0 @@ o :> 2
MCScopeOf      == a :> s @@ b :> s @@ d :> None @@ o :> None
MCDeadlineOf   == a :> 9 @@ b :> 9 @@ d :> 1 @@ o :> 9
MCAdmission    == a :> {"ready"} @@ b :> {"ready"}
                  @@ d :> {"ready", "wait", "refused"} @@ o :> {"ready"}
==============================================================================
