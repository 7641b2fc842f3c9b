--------------------------- MODULE MCSchedulerHang ---------------------------
(***************************************************************************)
(* A chain a, x, y with budget for one operation: once a has spent it, x   *)
(* is refused inside the pass that would start it, with nothing in flight. *)
(***************************************************************************)
EXTENDS Scheduler, TLC

CONSTANTS a, x, y, g, global

MCUnits   == {a, x, y}
MCGenOf   == [u \in MCUnits |-> g]
MCIndex   == a :> 0 @@ x :> 1 @@ y :> 2
MCId      == MCIndex
MCDepIds  == a :> {} @@ x :> {0} @@ y :> {1}
MCNoKeys  == [u \in MCUnits |-> {}]
MCSame    == [u \in MCUnits |-> 1]
MCNoScope == [u \in MCUnits |-> None]
MCForever == [u \in MCUnits |-> 9]
MCReady   == [u \in MCUnits |-> {"ready"}]
==============================================================================
