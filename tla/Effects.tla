------------------------------- MODULE Effects -------------------------------
(***************************************************************************)
(* Effect certainty, the vocabulary the scheduler and the scope tree share *)
(* (domain/orchestration/outcome.ts and scope.ts).  An effect is named by  *)
(* its severity, the number effectSeverity gives it.                       *)
(***************************************************************************)
EXTENDS Integers

NoEffect        == 0
CompletedEffect == 1
PartialEffect   == 2
UncertainEffect == 3

EffectCertainty == NoEffect .. UncertainEffect

(* The greater severity wins: uncertainty is never traded for certainty.   *)
worstEffect(left, right) == IF right > left THEN right ELSE left

(* Terminal outcomes: a kind with the effect certainty it implies.         *)
OutcomeKinds == {"completed", "failed", "cancelled", "timed-out", "uncertain"}
Outcomes     == [kind : OutcomeKinds, effect : EffectCertainty]

outcome(kind, effect) == [kind |-> kind, effect |-> effect]

(* Stopping a scope that had begun to change something is not a mere       *)
(* cancellation: nobody observed whether the change landed.                *)
cancellationOutcomeFor(effect) ==
    IF effect < PartialEffect THEN outcome("cancelled", effect)
    ELSE outcome("uncertain", UncertainEffect)

timeoutOutcomeFor(effect) ==
    outcome("timed-out", IF effect < PartialEffect THEN effect ELSE UncertainEffect)

requiresInspection(effect) == effect \in {PartialEffect, UncertainEffect}
==============================================================================
