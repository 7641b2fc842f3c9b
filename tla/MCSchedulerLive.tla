--------------------------- MODULE MCSchedulerLive ---------------------------
(***************************************************************************)
(* The instance on which liveness is checked: g1 runs a and, after it, b,  *)
(* which has a deadline; g2 runs d, which needs a's key and may be told to *)
(* wait for a resource.  The queue holds two: g1 is refused while d waits. *)
(***************************************************************************)
EXTENDS Scheduler, TLC

CONSTANTS a, b, d, g1, g2, k, global

MCUnits        == {a, b, d}
MCGens         == {g1, g2}
MCGenOf        == a :> g1 @@ b :> g1 @@ d :> g2
MCIndex        == a :> 0 @@ b :> 1 @@ d :> 0
MCId           == a :> 1 @@ b :> 2 @@ d :> 1
MCDepIds       == a :> {} @@ b :> {1} @@ d :> {}
MCKeys         == {k, global}
MCConflictKeys == a :> {k} @@ b :> {} @@ d :> {k}
MCPriority     == a :> 1 @@ b :> 1 @@ d :> 3
MCScopeOf      == [u \in MCUnits |-> None]
MCDeadlineOf   == a :> 9 @@ b :> 2 @@ d :> 9
MCAdmission    == a :> {"ready"} @@ b :> {"ready"} @@ d :> {"ready", "wait"}
==============================================================================
