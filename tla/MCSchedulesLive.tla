--------------------------- MODULE MCSchedulesLive ----------------------------
(***************************************************************************)
(* One slot and two hosts that may stop twice: enough for a claim, a       *)
(* crash, a recovery that is itself interrupted, and a cancellation.       *)
(***************************************************************************)
EXTENDS Schedules

CONSTANTS h1, h2

MCOverlapOf == <<"parallel">>
==============================================================================
