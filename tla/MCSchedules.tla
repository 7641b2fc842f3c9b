----------------------------- MODULE MCSchedules -----------------------------
(***************************************************************************)
(* Two hosts and two slots, one host stopping once: claims that compete,   *)
(* a slot that waits behind an open attempt, a recovery by the other host  *)
(* or by a restarted one, an edit that leaves an old slot pending.  The    *)
(* hosts are alike.                                                        *)
(***************************************************************************)
EXTENDS Schedules, TLC

CONSTANTS h1, h2

MCOverlapOf  == <<"queue-latest", "skip">>
HostSymmetry == Permutations({h1, h2})
==============================================================================
