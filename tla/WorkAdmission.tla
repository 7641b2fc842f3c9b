---------------------------- MODULE WorkAdmission ----------------------------
(***************************************************************************)
(* What a caller of the scheduler relies on, whatever the passes, parking, *)
(* aging, aborts and wake-ups that bring it about.  A unit waits, runs at  *)
(* most once and settles once.  It runs only when its dependencies have    *)
(* completed, a slot is free and none of its conflict keys is used up, and *)
(* one that is given up before it ran is never reported as completed.      *)
(***************************************************************************)
EXTENDS Naturals, FiniteSets

CONSTANTS
    Units,
    DepsOf,     \* [Units -> SUBSET Units]
    KeysOf,     \* the conflict keys a unit holds while it runs
    PerKey,     \* running holders a key may have
    Cap         \* units that may run at once

VARIABLES phase, verdict

workVars == <<phase, verdict>>

GivenUp == {"refused", "cancelled", "timed-out"}
Ended   == {"completed", "failed", "cancelled", "timed-out"}

Waiting    == {u \in Units : phase[u] = "waiting"}
Working    == {u \in Units : phase[u] = "running"}
Holders(k) == {u \in Working : k \in KeysOf[u]}

Init ==
    /\ phase = [u \in Units |-> "waiting"]
    /\ verdict = [u \in Units |-> "pending"]

Begin(u) ==
    /\ phase[u] = "waiting"
    /\ \A d \in DepsOf[u] : verdict[d] = "completed"
    /\ Cardinality(Working) < Cap
    /\ \A k \in KeysOf[u] : Cardinality(Holders(k)) < PerKey
    /\ phase' = [phase EXCEPT ![u] = "running"]
    /\ UNCHANGED verdict

End(u, how) ==
    /\ phase[u] = "running"
    /\ phase' = [phase EXCEPT ![u] = "settled"]
    /\ verdict' = [verdict EXCEPT ![u] = how]

(* One pass may give up several units, each for its own reason.            *)
GiveUp(S) ==
    /\ S # {}
    /\ phase' = [u \in Units |-> IF u \in S THEN "settled" ELSE phase[u]]
    /\ \E how \in [S -> GivenUp] :
          verdict' = [u \in Units |-> IF u \in S THEN how[u] ELSE verdict[u]]

Next ==
    \/ \E u \in Units : Begin(u)
    \/ \E u \in Units : \E how \in Ended : End(u, how)
    \/ \E S \in SUBSET Waiting : GiveUp(S)

Spec == Init /\ [][Next]_workVars
==============================================================================
