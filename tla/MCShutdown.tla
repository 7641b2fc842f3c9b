----------------------------- MODULE MCShutdown ------------------------------
(***************************************************************************)
(* Three phases with the cancellation in the middle, a participant in the  *)
(* first and one in the last, and two scopes below the root, of which one  *)
(* at a time is open, sheltered, settled, evicted and opened again.  The   *)
(* graceful grace is long enough that a rise of the level can shorten it,  *)
(* or come too late to, and there are more interrupts than the ladder has   *)
(* steps.                                                                   *)
(***************************************************************************)
EXTENDS Shutdown, TLC

CONSTANTS r, a, b, p, q

MCPhases    == <<"stop-accepting-work", "cancel-root-scope", "stop-scheduling">>
MCPhaseOf   == p :> "stop-accepting-work" @@ q :> "stop-scheduling"
MCGrace     == 0 :> 3 @@ 1 :> 2 @@ 2 :> 1
MCScopes    == {r, a, b}
MCParent    == a :> r @@ b :> r
MCAncestors == r :> {} @@ a :> {r} @@ b :> {r}
MCDeadlines == [s \in MCScopes |-> 99]
==============================================================================
