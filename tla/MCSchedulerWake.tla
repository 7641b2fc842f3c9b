--------------------------- MODULE MCSchedulerWake ---------------------------
(***************************************************************************)
(* Three single-unit generations: h writes both files, y (maintenance)     *)
(* wants the first and x (active turn) the second.                         *)
(***************************************************************************)
EXTENDS Scheduler, TLC

CONSTANTS h, x, y, gh, gx, gy, k1, k2, global

MCUnits        == {h, x, y}
MCGenOf        == h :> gh @@ x :> gx @@ y :> gy
MCZero         == [u \in MCUnits |-> 0]
MCConflictKeys == h :> {k1, k2} @@ y :> {k1} @@ x :> {k2}
MCPriority     == h :> 1 @@ x :> 1 @@ y :> 3
MCNoDeps       == [u \in MCUnits |-> {}]
MCNoScope      == [u \in MCUnits |-> None]
MCForever      == [u \in MCUnits |-> 9]
MCReady        == [u \in MCUnits |-> {"ready"}]
==============================================================================
