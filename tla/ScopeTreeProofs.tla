--------------------------- MODULE ScopeTreeProofs ---------------------------
(***************************************************************************)
(* Proofs about the scope tree, for every tree and every limit.  Eviction  *)
(* and identifier reuse make each property depend on the others: an effect *)
(* is not lost because the chain of ancestors is intact when it is folded, *)
(* and the chain is intact because only settled leaves are evicted.        *)
(***************************************************************************)
EXTENDS ScopeTree, FiniteSetTheorems, TLAPS

------------------------------------------------------------------------------
(* The inductive invariant                                                 *)

LiveScopes == {s \in nodes : status[s] # "terminal"}

(* Only a scope in memory knows anything; a stop request and an active     *)
(* status exclude each other; the forced sweep has live scopes to settle.  *)
Placed ==
    /\ \A s \in Scopes \ nodes : known[s] = NoEffect
    /\ \A s \in Scopes : status[s] = "active" => reason[s] = "none"
    /\ forcing \subseteq LiveScopes

(* An evicted scope is remembered with all its ancestors.                  *)
TombstonesWhole ==
    \A i \in 1 .. Len(tombstones) : tombstones[i].ancestors = Ancestors[tombstones[i].scope]

(* What a knows is recorded on a, folded into a, or still held by a live   *)
(* scope below a, which cannot be evicted before it folds it.              *)
HeldBy(s, a) == s \in LiveScopes /\ a \in Ancestors[s] /\ effect[s] >= known[a]

Folded ==
    \A a \in nodes :
        \/ effect[a] >= known[a]
        \/ settledDescendantEffect[a] >= known[a]
        \/ \E s \in Scopes : HeldBy(s, a)

IInv ==
    /\ TypeOK
    /\ Placed
    /\ TombstonesWhole
    /\ ChainIntact
    /\ RetentionExact
    /\ NoEscape
    /\ Folded

------------------------------------------------------------------------------
(* The shapes of a step                                                    *)

Settles(s) ==
    /\ Live(s)
    /\ \E final \in Outcomes : settle(s, final)
    /\ forcing' = forcing \ {s}

(* A step of a loop or of the clock.                                       *)
Quiet ==
    /\ UNCHANGED <<treeVars, effectVars, result, retentionVars>>
    /\ trim' \in Nat
    /\ forcing' = forcing \/ forcing' = LiveScopes
    /\ now' \in 0 .. MaxTime

(* Every step is a derivation, a stop, a boundary, an effect, a            *)
(* settlement, an eviction, or leaves the tree alone.                      *)
LEMMA NextShapes ==
    ASSUME IInv, [Next]_vars
    PROVE  \/ \E s \in Scopes : derive(s)
           \/ \E s \in Scopes : cancel(s)
           \/ expireDeadlines
           \/ \E s \in Scopes : cancellationBoundary(s, TRUE) \/ cancellationBoundary(s, FALSE)
           \/ \E s \in Scopes, e \in EffectCertainty : recordEffect(s, e) \/ recordLateEffect(s, e)
           \/ \E s \in Scopes : Settles(s)
           \/ TrimEvict
           \/ Quiet
<1>1. ASSUME NEW s \in Scopes, complete(s) \/ fail(s) \/ acknowledge(s)
      PROVE  Settles(s)
  <2>1. Live(s) /\ forcing' = forcing \ {s}
    BY <1>1 DEF complete, fail, acknowledge, Idle
  <2>2. effect[s] \in EffectCertainty
    BY DEF IInv, TypeOK
  <2>3. \A f \in EffectCertainty : timeoutOutcomeFor(f) \in Outcomes /\ cancellationOutcomeFor(f) \in Outcomes
    BY DEF timeoutOutcomeFor, cancellationOutcomeFor, outcome, Outcomes, OutcomeKinds,
       EffectCertainty, NoEffect, UncertainEffect
  <2>4. outcome("completed", CompletedEffect) \in Outcomes /\ outcome("failed", effect[s]) \in Outcomes
    BY <2>2 DEF outcome, Outcomes, OutcomeKinds, EffectCertainty, NoEffect, CompletedEffect,
       UncertainEffect
  <2>5. \E final \in Outcomes : settle(s, final)
    BY <1>1, <2>2, <2>3, <2>4 DEF complete, fail, acknowledge
  <2> QED
    BY <2>1, <2>5 DEF Settles
<1>2. ASSUME NEW s \in Scopes, forceSettle(s)
      PROVE  Settles(s)
  <2>1. outcome("uncertain", UncertainEffect) \in Outcomes
    BY DEF outcome, Outcomes, OutcomeKinds, EffectCertainty, NoEffect, UncertainEffect
  <2> QED
    BY <1>2, <2>1 DEF forceSettle, Settles, IInv, Placed, LiveScopes, Live
<1>3. ASSUME \/ forceSettleUnacknowledged \/ TrimSkip \/ TrimEnd \/ Tick \/ UNCHANGED vars
      PROVE  Quiet
  <2>1. trim \in Nat /\ now \in 0 .. MaxTime /\ MaxTime \in Nat
    BY ScopeLimits DEF IInv, TypeOK
  <2> QED
    BY <1>3, <2>1 DEF forceSettleUnacknowledged, TrimSkip, TrimEnd, Tick, Quiet, LiveScopes,
       vars, loopVars
<1>4. Reported \subseteq EffectCertainty
  BY ScopeLimits
<1> QED
  BY <1>1, <1>2, <1>3, <1>4 DEF Next

------------------------------------------------------------------------------
(* The tree and its ancestors                                              *)

(* With the chain intact, following parentId finds every ancestor.         *)
LEMMA WholeChain ==
    ASSUME IInv, NEW s \in nodes
    PROVE  ancestorIdsOf(s) = Ancestors[s] /\ s \in Scopes /\ Ancestors[s] \subseteq nodes
BY DEF IInv, TypeOK, ChainIntact, ancestorIdsOf, Path

LEMMA Descendants ==
    ASSUME IInv, NEW a \in nodes
    PROVE  descendantsOf(a) = {s \in nodes : a \in Ancestors[s]}
BY WholeChain DEF descendantsOf

(* What the walk down from a skips is behind a boundary.                   *)
LEMMA Skipped ==
    ASSUME IInv, NEW a \in nodes, NEW s \in nodes, a \in Ancestors[s], s \notin cancellationReach(a)
    PROVE  Path(a, s) \cap cancellationBoundaries # {}
BY Descendants DEF cancellationReach

LEMMA PathSplits ==
    ASSUME NEW a \in Scopes, NEW b \in Scopes, NEW s \in Scopes
    PROVE  Path(a, s) \subseteq Path(a, b) \cup Path(b, s)
BY DEF Path

(* A scope without children in memory is no ancestor of one in memory.     *)
LEMMA LeafIsNoAncestor ==
    ASSUME IInv, NEW s \in nodes, children(s) = {}
    PROVE  \A t \in nodes : s \notin Ancestors[t]
<1> SUFFICES ASSUME NEW t \in nodes, s \in Ancestors[t] PROVE FALSE
  OBVIOUS
<1>1. t \in Scopes
  BY WholeChain
<1>2. PICK c \in ({t} \cup Ancestors[t]) \ {Root} : Parent[c] = s
  BY <1>1, TreeAssumption
<1>3. c \in nodes
  BY WholeChain
<1> QED
  BY <1>2, <1>3 DEF children

(* The sequence left by a removal keeps the other elements, once each.     *)
LEMMA Removal ==
    ASSUME NEW S, NEW q \in Seq(S), NEW i \in 1 .. Len(q)
    PROVE  /\ RemoveIndex(q, i) \in Seq(S)
           /\ Len(RemoveIndex(q, i)) = Len(q) - 1
           /\ \A j \in 1 .. (Len(q) - 1) :
                 RemoveIndex(q, i)[j] = IF j < i THEN q[j] ELSE q[j + 1]
<1> DEFINE n == Len(q) - 1
           r == [j \in 1 .. n |-> IF j < i THEN q[j] ELSE q[j + 1]]
<1>1. n \in Nat /\ RemoveIndex(q, i) = r
  BY DEF RemoveIndex
<1>2. r \in [1 .. n -> S]
  <2> SUFFICES ASSUME NEW j \in 1 .. n PROVE (IF j < i THEN q[j] ELSE q[j + 1]) \in S
    OBVIOUS
  <2> QED
    OBVIOUS
<1>3. r \in Seq(S) /\ Len(r) = n
  OBVIOUS
<1> QED
  BY <1>1

------------------------------------------------------------------------------
(* The live count and the retention window                                 *)

LEMMA Finite ==
    ASSUME IInv
    PROVE  IsFiniteSet(nodes) /\ IsFiniteSet(LiveScopes) /\ Cardinality(LiveScopes) \in Nat
           /\ liveCount = Cardinality(LiveScopes)
<1>1. IsFiniteSet(nodes)
  BY TreeAssumption, FS_Subset DEF IInv, TypeOK
<1>2. IsFiniteSet(LiveScopes)
  BY <1>1, FS_Subset DEF LiveScopes
<1> QED
  BY <1>1, <1>2, FS_CardinalityType DEF IInv, RetentionExact, LiveScopes

(* Opening a scope counts one more, settling one counts one less.          *)
LEMMA LiveCounted ==
    ASSUME IInv, NEW s \in Scopes
    PROVE  /\ derive(s) => Cardinality(LiveScopes') = liveCount + 1
           /\ Settles(s) => Cardinality(LiveScopes') = liveCount - 1 /\ liveCount > 0
<1>1. ASSUME derive(s) PROVE Cardinality(LiveScopes') = liveCount + 1
  <2>1. s \notin LiveScopes /\ LiveScopes' = LiveScopes \cup {s}
    BY <1>1 DEF derive, LiveScopes, IInv, TypeOK
  <2> QED
    BY <2>1, Finite, FS_AddElement
<1>2. ASSUME Settles(s) PROVE Cardinality(LiveScopes') = liveCount - 1 /\ liveCount > 0
  <2>1. s \in LiveScopes /\ LiveScopes' = LiveScopes \ {s}
    BY <1>2 DEF Settles, settle, Live, LiveScopes, IInv, TypeOK
  <2>2. Cardinality(LiveScopes \ {s}) = Cardinality(LiveScopes) - 1
    BY <2>1, Finite, FS_RemoveElement
  <2>3. Cardinality(LiveScopes \ {s}) \in Nat
    BY Finite, FS_Subset, FS_CardinalityType
  <2> QED
    BY <2>1, <2>2, <2>3, Finite
<1> QED
  BY <1>1, <1>2

(* Forgetting a tombstone takes from the list and adds nothing to it.      *)
LEMMA Forgetting ==
    ASSUME IInv, NEW s \in Scopes
    PROVE  /\ forgetTombstone(s) \in Seq(Tombstones)
           /\ Len(forgetTombstone(s)) <= Len(tombstones)
           /\ \A i \in 1 .. Len(forgetTombstone(s)) :
                 \E j \in 1 .. Len(tombstones) : forgetTombstone(s)[i] = tombstones[j]
<1>1. tombstones \in Seq(Tombstones)
  BY DEF IInv, TypeOK
<1>2. CASE ~ hasTombstone(s)
  BY <1>1, <1>2 DEF forgetTombstone
<1>3. CASE hasTombstone(s)
  <2>1. tombstoneIndex(s) \in 1 .. Len(tombstones)
    BY <1>3 DEF hasTombstone, tombstoneIndex
  <2>2. forgetTombstone(s) = RemoveIndex(tombstones, tombstoneIndex(s))
    BY <1>3 DEF forgetTombstone
  <2> DEFINE q == RemoveIndex(tombstones, tombstoneIndex(s))
  <2>3. /\ q \in Seq(Tombstones)
        /\ Len(q) = Len(tombstones) - 1
        /\ \A j \in 1 .. (Len(tombstones) - 1) :
              q[j] = IF j < tombstoneIndex(s) THEN tombstones[j] ELSE tombstones[j + 1]
    BY <1>1, <2>1, Removal
  <2> HIDE DEF q
  <2>4. \A i \in 1 .. Len(q) : \E j \in 1 .. Len(tombstones) : q[i] = tombstones[j]
    BY <2>3
  <2> QED
    BY <2>2, <2>3 DEF q
<1> QED
  BY <1>2, <1>3

LEMMA Remembering ==
    ASSUME IInv, NEW s \in nodes
    PROVE  /\ remembered(s) \in Seq(Tombstones)
           /\ Len(remembered(s)) <= MaxTombstones
           /\ \A i \in 1 .. Len(remembered(s)) :
                 remembered(s)[i].ancestors = Ancestors[remembered(s)[i].scope]
<1> DEFINE new   == [scope |-> s, ancestors |-> ancestorIdsOf(s)]
           old   == forgetTombstone(s)
           order == Append(old, new)
<1>1. new \in Tombstones /\ new.ancestors = Ancestors[new.scope]
  <2>1. s \in Scopes /\ ancestorIdsOf(s) = Ancestors[s] /\ Ancestors[s] \in SUBSET Scopes
    BY WholeChain
  <2> QED
    BY <2>1 DEF Tombstones
<1>2. old \in Seq(Tombstones) /\ Len(old) <= MaxTombstones /\ MaxTombstones \in Nat \ {0}
  <2>1. old \in Seq(Tombstones) /\ Len(old) <= Len(tombstones)
    BY WholeChain, Forgetting
  <2>2. tombstones \in Seq(Tombstones) /\ Len(tombstones) <= MaxTombstones
    BY DEF IInv, RetentionExact, TypeOK
  <2> HIDE DEF old
  <2> QED
    BY <2>1, <2>2, ScopeLimits
<1>3. \A i \in 1 .. Len(old) : old[i].ancestors = Ancestors[old[i].scope]
  BY WholeChain, Forgetting DEF IInv, TombstonesWhole
<1> HIDE DEF old
<1>4. order \in Seq(Tombstones) /\ Len(order) = Len(old) + 1
  BY <1>1, <1>2
<1>5. \A i \in 1 .. Len(order) : order[i].ancestors = Ancestors[order[i].scope]
  <2> SUFFICES ASSUME NEW i \in 1 .. Len(order)
               PROVE  order[i].ancestors = Ancestors[order[i].scope]
    OBVIOUS
  <2>1. order[i] = IF i <= Len(old) THEN old[i] ELSE new
    OBVIOUS
  <2> QED
    BY <1>1, <1>3
<1>6. remembered(s) = IF Len(order) > MaxTombstones THEN Tail(order) ELSE order
  BY DEF remembered, old
<1> HIDE DEF order
<1>7. CASE Len(order) > MaxTombstones
  <2>1. Tail(order) \in Seq(Tombstones) /\ Len(Tail(order)) = Len(order) - 1
    BY <1>4
  <2>2. \A i \in 1 .. Len(Tail(order)) : Tail(order)[i] = order[i + 1] /\ i + 1 \in 1 .. Len(order)
    OBVIOUS
  <2> QED
    BY <1>2, <1>4, <1>5, <1>6
<1>8. CASE ~ (Len(order) > MaxTombstones)
  BY <1>2, <1>4, <1>5, <1>6
<1> QED
  BY <1>7, <1>8

(* What trimRetained evicts is a settled scope, and the only one it takes  *)
(* off the retention window.                                               *)
LEMMA Evicted ==
    ASSUME IInv, TrimEvict
    PROVE  LET s == retained[trim]
           IN  /\ s \in nodes /\ status[s] = "terminal" /\ evict(s)
               /\ trim \in 1 .. Len(retained) /\ retained \in Seq(Scopes)
<1>1. trim \in 1 .. Len(retained) /\ retained \in Seq(Scopes)
  BY DEF TrimEvict, TrimGoesOn, IInv, TypeOK
<1> QED
  BY <1>1 DEF TrimEvict, IInv, RetentionExact

------------------------------------------------------------------------------
(* Each part of the invariant is preserved                                 *)

LEMMA WorstEffect ==
    ASSUME NEW e \in EffectCertainty, NEW f \in EffectCertainty
    PROVE  /\ worstEffect(e, f) \in EffectCertainty
           /\ worstEffect(e, f) >= e /\ worstEffect(e, f) >= f
           /\ worstEffect(e, f) = e \/ worstEffect(e, f) = f
BY DEF worstEffect, EffectCertainty

LEMMA SeverityOrder ==
    /\ \A e \in EffectCertainty : e >= e /\ e >= NoEffect
    /\ \A e, f, g \in EffectCertainty : e >= f /\ f >= g => e >= g
BY DEF EffectCertainty

LEMMA TypeStep == IInv /\ [Next]_vars => TypeOK'
<1> SUFFICES ASSUME IInv, [Next]_vars PROVE TypeOK'
  OBVIOUS
<1> USE DEF TypeOK, IInv
<1>1. ASSUME NEW s \in Scopes, derive(s) PROVE TypeOK'
  <2>1. tombstones' \in Seq(Tombstones)
    BY <1>1, Forgetting DEF derive
  <2>2. deadline' \in [Scopes -> Nat]
    <3>1. Parent[s] \in Scopes /\ RequestedDeadline[s] \in Nat
      BY <1>1, TreeAssumption, ScopeLimits DEF derive
    <3> QED
      BY <1>1, <3>1 DEF derive
  <2>3. status' \in [Scopes -> Statuses] /\ reason' \in [Scopes -> Reasons]
    BY <1>1 DEF derive, Statuses, Reasons
  <2> QED
    BY <1>1, <2>1, <2>2, <2>3 DEF derive, effectVars, loopVars
<1>2. ASSUME NEW own, NEW below, NEW why \in Reasons, Stop(own, why, below) PROVE TypeOK'
  BY <1>2 DEF Stop, Statuses, Reasons, effectVars, retentionVars, loopVars
<1>3. ASSUME NEW s \in Scopes, NEW on \in BOOLEAN, cancellationBoundary(s, on) PROVE TypeOK'
  BY <1>3 DEF cancellationBoundary, effectVars, retentionVars, loopVars
<1>4. ASSUME NEW s \in Scopes, NEW e \in EffectCertainty, recordEffect(s, e) PROVE TypeOK'
  BY <1>4, WorstEffect DEF recordEffect, Learn, treeVars, retentionVars, loopVars
<1>5. ASSUME NEW s \in Scopes, NEW e \in EffectCertainty, recordLateEffect(s, e) PROVE TypeOK'
  <2>1. known' \in [Scopes -> EffectCertainty]
    BY <1>5, WorstEffect DEF recordLateEffect, Learn
  <2>2. settledDescendantEffect' \in [Scopes -> EffectCertainty]
    BY <1>5, WorstEffect DEF recordLateEffect, foldIntoAncestors, foldInto
  <2> QED
    BY <1>5, <2>1, <2>2 DEF recordLateEffect, treeVars, retentionVars, loopVars
<1>6. ASSUME NEW s \in Scopes, Settles(s) PROVE TypeOK'
  <2>1. PICK final \in Outcomes : settle(s, final)
    BY <1>6 DEF Settles
  <2>2. settledDescendantEffect' \in [Scopes -> EffectCertainty]
    <3>1. totalEffectOf(s) \in EffectCertainty
      BY WorstEffect DEF totalEffectOf
    <3> QED
      BY <2>1, <3>1, WorstEffect DEF settle, foldIntoAncestors, foldInto
  <2>3. liveCount' \in Nat
    BY <1>6, <2>1, LiveCounted DEF settle
  <2>4. retained' \in Seq(Scopes)
    BY <2>1 DEF settle
  <2>5. forcing' \subseteq nodes'
    BY <1>6 DEF Settles, settle
  <2> QED
    BY <2>1, <2>2, <2>3, <2>4, <2>5 DEF settle, Statuses
<1>7. ASSUME TrimEvict PROVE TypeOK'
  <2> DEFINE s == retained[trim]
  <2>1. s \in nodes /\ s \in Scopes /\ evict(s) /\ trim \in 1 .. Len(retained) /\ status[s] = "terminal"
    BY <1>7, Evicted
  <2>2. retained' \in Seq(Scopes)
    BY <2>1, Removal DEF evict
  <2>3. tombstones' \in Seq(Tombstones)
    BY <2>1, Remembering DEF evict
  <2>4. s \notin forcing
    BY <2>1 DEF Placed, LiveScopes
  <2>5. RequestedDeadline[s] \in Nat /\ NoOutcome \in Outcomes
    BY <2>1, ScopeLimits DEF NoOutcome, outcome, Outcomes, OutcomeKinds, EffectCertainty,
       NoEffect, UncertainEffect
  <2> HIDE DEF s
  <2> QED
    BY <2>1, <2>2, <2>3, <2>4, <2>5 DEF evict, Statuses, Reasons, EffectCertainty, NoEffect,
       UncertainEffect, loopVars
<1>8. ASSUME Quiet PROVE TypeOK'
  BY <1>8 DEF Quiet, treeVars, effectVars, retentionVars, LiveScopes
<1> QED
  BY <1>1, <1>2, <1>3, <1>4, <1>5, <1>6, <1>7, <1>8, NextShapes DEF cancel, expireDeadlines,
     Reasons

LEMMA ChainStep == IInv /\ [Next]_vars => ChainIntact'
<1> SUFFICES ASSUME IInv, [Next]_vars PROVE ChainIntact'
  OBVIOUS
<1>1. ASSUME NEW s \in Scopes, derive(s) PROVE ChainIntact'
  <2>1. Ancestors[s] = {Parent[s]} \cup Ancestors[Parent[s]]
    BY <1>1, TreeAssumption DEF derive
  <2> QED
    BY <1>1, <2>1, WholeChain DEF derive, Live, ChainIntact
<1>2. ASSUME TrimEvict PROVE ChainIntact'
  <2>1. LET s == retained[trim] IN nodes' = nodes \ {s} /\ children(s) = {} /\ s \in nodes
    BY <1>2, Evicted DEF evict
  <2> QED
    BY <2>1, LeafIsNoAncestor, WholeChain DEF ChainIntact
<1>3. ASSUME nodes' = nodes PROVE ChainIntact'
  BY <1>3 DEF IInv, ChainIntact
<1> QED
  BY <1>1, <1>2, <1>3, NextShapes DEF cancel, expireDeadlines, Stop, cancellationBoundary,
     recordEffect, recordLateEffect, Settles, settle, Quiet, treeVars

LEMMA PlacedStep == IInv /\ [Next]_vars => Placed'
<1> SUFFICES ASSUME IInv, [Next]_vars PROVE Placed'
  OBVIOUS
<1> USE DEF IInv, TypeOK, Placed, LiveScopes
<1>1. ASSUME NEW s \in Scopes, derive(s) PROVE Placed'
  BY <1>1 DEF derive, effectVars, loopVars
<1>2. ASSUME NEW own, NEW below, NEW why, Idle, Stop(own, why, below) PROVE Placed'
  BY <1>2 DEF Stop, effectVars, loopVars
<1>3. ASSUME NEW s \in Scopes, NEW on \in BOOLEAN, cancellationBoundary(s, on) PROVE Placed'
  BY <1>3 DEF cancellationBoundary, effectVars, loopVars
<1>4. ASSUME NEW s \in Scopes, NEW e \in EffectCertainty, recordEffect(s, e) PROVE Placed'
  BY <1>4, WholeChain DEF recordEffect, Learn, treeVars, loopVars, Live
<1>5. ASSUME NEW s \in Scopes, NEW e \in EffectCertainty, recordLateEffect(s, e) PROVE Placed'
  BY <1>5 DEF recordLateEffect, Learn, treeVars, loopVars
<1>6. ASSUME NEW s \in Scopes, Settles(s) PROVE Placed'
  BY <1>6 DEF Settles, settle
<1>7. ASSUME TrimEvict PROVE Placed'
  <2> DEFINE s == retained[trim]
  <2>1. s \in nodes /\ evict(s) /\ status[s] = "terminal"
    BY <1>7, Evicted
  <2> HIDE DEF s
  <2> QED
    BY <2>1 DEF evict, loopVars
<1>8. ASSUME Quiet PROVE Placed'
  BY <1>8 DEF Quiet, treeVars, effectVars
<1> QED
  BY <1>1, <1>2, <1>3, <1>4, <1>5, <1>6, <1>7, <1>8, NextShapes DEF cancel, expireDeadlines

LEMMA TombstonesStep == IInv /\ [Next]_vars => TombstonesWhole'
<1> SUFFICES ASSUME IInv, [Next]_vars PROVE TombstonesWhole'
  OBVIOUS
<1>1. ASSUME NEW s \in Scopes, derive(s) PROVE TombstonesWhole'
  BY <1>1, Forgetting DEF derive, IInv, TombstonesWhole
<1>2. ASSUME TrimEvict PROVE TombstonesWhole'
  BY <1>2, Evicted, Remembering DEF evict, TombstonesWhole
<1>3. ASSUME tombstones' = tombstones PROVE TombstonesWhole'
  BY <1>3 DEF IInv, TombstonesWhole
<1> QED
  BY <1>1, <1>2, <1>3, NextShapes DEF cancel, expireDeadlines, Stop, cancellationBoundary,
     recordEffect, recordLateEffect, Settles, settle, Quiet, retentionVars

(* RetentionExact in three parts: which scopes are in the window, each     *)
(* once, and how many there are of what.                                   *)
Window(q)     == {q[i] : i \in 1 .. Len(q)}
Settled       == {s \in nodes : status[s] = "terminal"}
OnceEach(q)   == \A i, j \in 1 .. Len(q) : q[i] = q[j] => i = j

LEMMA WindowStep == IInv /\ [Next]_vars => Window(retained') = Settled' /\ OnceEach(retained')
<1> SUFFICES ASSUME IInv, [Next]_vars PROVE Window(retained') = Settled' /\ OnceEach(retained')
  OBVIOUS
<1>1. Window(retained) = Settled /\ OnceEach(retained) /\ retained \in Seq(Scopes)
  BY DEF IInv, TypeOK, RetentionExact, Window, Settled, OnceEach
<1>2. ASSUME retained' = retained, Settled' = Settled
      PROVE  Window(retained') = Settled' /\ OnceEach(retained')
  BY <1>1, <1>2
<1>3. ASSUME NEW s \in Scopes, derive(s) PROVE retained' = retained /\ Settled' = Settled
  BY <1>3 DEF derive, Settled, IInv, TypeOK
<1>4. ASSUME NEW own, NEW below, NEW why, Stop(own, why, below)
      PROVE  retained' = retained /\ Settled' = Settled
  BY <1>4 DEF Stop, retentionVars, Settled, IInv, TypeOK
<1>5. ASSUME NEW s \in Scopes, Settles(s)
      PROVE  Window(retained') = Settled' /\ OnceEach(retained')
  <2>1. s \in nodes /\ s \notin Settled /\ Settled' = Settled \cup {s} /\ retained' = Append(retained, s)
    BY <1>5 DEF Settles, settle, Live, Settled, IInv, TypeOK
  <2>2. Len(retained') = Len(retained) + 1 /\ Len(retained) \in Nat
        /\ \A i \in 1 .. Len(retained') : retained'[i] = IF i <= Len(retained) THEN retained[i] ELSE s
    BY <2>1
  <2>3. \A i \in 1 .. Len(retained) : retained[i] # s
    BY <1>1, <2>1 DEF Window
  <2>4. Window(retained') = Window(retained) \cup {s}
    <3>1. ASSUME NEW x \in Window(retained') PROVE x \in Window(retained) \cup {s}
      BY <2>2 DEF Window
    <3>2. ASSUME NEW x \in Window(retained) PROVE x \in Window(retained')
      <4>1. PICK i \in 1 .. Len(retained) : x = retained[i]
        BY DEF Window
      <4>2. i \in 1 .. Len(retained') /\ retained'[i] = x
        BY <2>2, <4>1
      <4> QED
        BY <4>2 DEF Window
    <3>3. s \in Window(retained')
      <4>1. Len(retained') \in 1 .. Len(retained') /\ retained'[Len(retained')] = s
        BY <2>2
      <4> QED
        BY <4>1 DEF Window
    <3> QED
      BY <3>1, <3>2, <3>3
  <2>5. OnceEach(retained')
    BY <1>1, <2>2, <2>3 DEF OnceEach
  <2> QED
    BY <1>1, <2>1, <2>4, <2>5
<1>6. ASSUME TrimEvict PROVE Window(retained') = Settled' /\ OnceEach(retained')
  <2> DEFINE s == retained[trim]
  <2>1. /\ s \in nodes /\ evict(s) /\ status[s] = "terminal"
        /\ trim \in 1 .. Len(retained) /\ retained' = RemoveIndex(retained, trim)
    BY <1>6, Evicted DEF evict
  <2>2. Settled' = Settled \ {s}
    BY <2>1 DEF evict, Settled
  <2>3. Len(retained') = Len(retained) - 1 /\ Len(retained) \in Nat /\ trim \in Nat
        /\ \A i \in 1 .. Len(retained') : retained'[i] = IF i < trim THEN retained[i] ELSE retained[i + 1]
    <3> DEFINE q == RemoveIndex(retained, trim)
    <3>1. Len(q) = Len(retained) - 1 /\ \A i \in 1 .. (Len(retained) - 1) :
             q[i] = IF i < trim THEN retained[i] ELSE retained[i + 1]
      BY <1>1, <2>1, Removal
    <3>2. retained' = q
      BY <2>1
    <3> HIDE DEF q
    <3> QED
      BY <2>1, <3>1, <3>2
  <2> HIDE DEF s
  <2>4. Window(retained') = Window(retained) \ {s}
    <3>1. ASSUME NEW x \in Window(retained') PROVE x \in Window(retained) /\ x # s
      <4>1. PICK i \in 1 .. Len(retained') : x = retained'[i]
        BY DEF Window
      <4>2. PICK j \in 1 .. Len(retained) : x = retained[j] /\ j # trim
        BY <2>3, <4>1
      <4> QED
        BY <1>1, <2>1, <4>2 DEF Window, OnceEach, s
    <3>2. ASSUME NEW x \in Window(retained), x # s PROVE x \in Window(retained')
      <4>1. PICK i \in 1 .. Len(retained) : x = retained[i]
        BY DEF Window
      <4>2. i # trim
        BY <3>2, <4>1 DEF s
      <4>3. CASE i < trim
        <5>1. i \in 1 .. Len(retained') /\ retained'[i] = x
          BY <2>1, <2>3, <4>1, <4>3
        <5> QED
          BY <5>1 DEF Window
      <4>4. CASE i > trim
        <5>1. i - 1 \in 1 .. Len(retained') /\ retained'[i - 1] = x
          BY <2>1, <2>3, <4>1, <4>4
        <5> QED
          BY <5>1 DEF Window
      <4> QED
        BY <2>3, <4>2, <4>3, <4>4
    <3> QED
      BY <3>1, <3>2
  <2>5. OnceEach(retained')
    <3> SUFFICES ASSUME NEW i \in 1 .. Len(retained'), NEW j \in 1 .. Len(retained'),
                        retained'[i] = retained'[j]
                 PROVE  i = j
      BY DEF OnceEach
    <3> DEFINE I == IF i < trim THEN i ELSE i + 1
               J == IF j < trim THEN j ELSE j + 1
    <3>1. I \in 1 .. Len(retained) /\ J \in 1 .. Len(retained) /\ retained[I] = retained[J]
      BY <2>3
    <3>2. I = J
      BY <1>1, <3>1 DEF OnceEach
    <3> QED
      BY <2>3, <3>2
  <2> QED
    BY <1>1, <2>2, <2>4, <2>5
<1> QED
  BY <1>2, <1>3, <1>4, <1>5, <1>6, NextShapes DEF cancel, expireDeadlines,
     cancellationBoundary, recordEffect, recordLateEffect, Quiet, retentionVars, treeVars,
     Settled

LEMMA RetentionStep == IInv /\ [Next]_vars => RetentionExact'
<1> SUFFICES ASSUME IInv, [Next]_vars PROVE RetentionExact'
  OBVIOUS
<1>1. Window(retained') = Settled' /\ OnceEach(retained')
  BY WindowStep
<1>2. liveCount = Cardinality(LiveScopes) /\ liveCount \in Nat /\ liveCount <= MaxLive /\ MaxLive \in Nat
      /\ Len(tombstones) <= MaxTombstones
  BY Finite, ScopeLimits DEF IInv, RetentionExact
<1>3. liveCount' = Cardinality(LiveScopes') /\ liveCount' <= MaxLive
  <2>1. ASSUME NEW s \in Scopes, derive(s) PROVE liveCount' = Cardinality(LiveScopes') /\ liveCount' <= MaxLive
    <3>1. Cardinality(LiveScopes') = liveCount + 1
      BY <2>1, LiveCounted
    <3>2. liveCount' = liveCount + 1 /\ liveCount < MaxLive
      BY <2>1 DEF derive
    <3> QED
      BY <1>2, <3>1, <3>2
  <2>2. ASSUME NEW s \in Scopes, Settles(s) PROVE liveCount' = Cardinality(LiveScopes') /\ liveCount' <= MaxLive
    <3>1. Cardinality(LiveScopes') = liveCount - 1
      BY <2>2, LiveCounted
    <3>2. liveCount' = liveCount - 1
      BY <2>2 DEF Settles, settle
    <3> QED
      BY <1>2, <3>1, <3>2
  <2>3. ASSUME NEW own, NEW below, NEW why, Stop(own, why, below)
        PROVE  LiveScopes' = LiveScopes /\ liveCount' = liveCount
    <3>1. \A s \in nodes : status'[s] # "terminal" <=> status[s] # "terminal"
      BY <2>3 DEF Stop, IInv, TypeOK
    <3> QED
      BY <2>3, <3>1 DEF Stop, LiveScopes
  <2>4. ASSUME TrimEvict PROVE LiveScopes' = LiveScopes /\ liveCount' = liveCount
    <3> DEFINE s == retained[trim]
    <3>1. s \in nodes /\ status[s] = "terminal" /\ evict(s)
      BY <2>4, Evicted
    <3> HIDE DEF s
    <3>2. nodes' = nodes \ {s} /\ \A t \in nodes \ {s} : status'[t] = status[t]
      BY <3>1 DEF evict
    <3> QED
      BY <3>1 DEF evict, LiveScopes
  <2> QED
    BY <1>2, <2>1, <2>2, <2>3, <2>4, NextShapes DEF cancel, expireDeadlines,
       cancellationBoundary, recordEffect, recordLateEffect, Quiet, treeVars, LiveScopes
<1>4. Len(tombstones') <= MaxTombstones
  <2>1. ASSUME NEW s \in Scopes, derive(s) PROVE Len(tombstones') <= MaxTombstones
    <3>1. Len(forgetTombstone(s)) \in Nat /\ Len(tombstones) \in Nat /\ MaxTombstones \in Nat
      BY ScopeLimits
    <3> QED
      BY <1>2, <2>1, <3>1, Forgetting DEF derive
  <2>2. ASSUME TrimEvict PROVE Len(tombstones') <= MaxTombstones
    BY <2>2, Evicted, Remembering DEF evict
  <2> QED
    BY <1>2, <2>1, <2>2, NextShapes DEF cancel, expireDeadlines, Stop, cancellationBoundary,
       recordEffect, recordLateEffect, Settles, settle, Quiet, retentionVars
<1> QED
  BY <1>1, <1>3, <1>4 DEF RetentionExact, Window, Settled, OnceEach, LiveScopes

(* A stop reaches everything below that no boundary shelters.              *)
LEMMA StopLeavesNone ==
    ASSUME IInv, NEW own \in SUBSET nodes, NEW below, NEW why, Stop(own, why, below),
           \/ \E s \in nodes : own = {s} /\ below = cancellationReach(s)
           \/ \E E \in SUBSET nodes : /\ below = UNION {cancellationReach(s) : s \in E}
                                     /\ own = E \ below
    PROVE  NoEscape'
<1> SUFFICES ASSUME NEW t \in nodes, status'[t] = "active",
                    NEW a \in Ancestors[t], reason'[a] # "none"
             PROVE  Path(a, t) \cap cancellationBoundaries # {}
  BY DEF NoEscape, Stop
<1>1. t \in Scopes /\ a \in nodes /\ a \in Scopes /\ status[t] = "active"
      /\ t \notin own \cup below
  BY WholeChain DEF Stop
<1>2. CASE reason[a] # "none"
  BY <1>1, <1>2 DEF IInv, NoEscape
<1>3. CASE a \in own
  <2>1. t \notin cancellationReach(a)
    BY <1>1, <1>3
  <2> QED
    BY <1>1, <2>1, Skipped
<1>4. CASE a \in below
  <2>1. PICK x \in nodes : a \in cancellationReach(x) /\ cancellationReach(x) \subseteq below
    BY <1>4
  <2>2. x \in Ancestors[a] /\ Path(x, a) \cap cancellationBoundaries = {} /\ x \in Scopes
    BY <2>1, Descendants, WholeChain DEF cancellationReach
  <2>3. x \in Ancestors[t]
    BY <1>1, <2>2, TreeAssumption
  <2>4. Path(x, t) \cap cancellationBoundaries # {}
    BY <1>1, <2>1, <2>3, Skipped
  <2> QED
    BY <1>1, <2>2, <2>4, PathSplits
<1> QED
  BY <1>1, <1>2, <1>3, <1>4 DEF Stop

LEMMA EscapeStep == IInv /\ [Next]_vars => NoEscape'
<1> SUFFICES ASSUME IInv, [Next]_vars PROVE NoEscape'
  OBVIOUS
<1>1. ASSUME NEW s \in Scopes, derive(s) PROVE NoEscape'
  <2>1. SUFFICES ASSUME NEW t \in nodes \cup {s}, status'[t] = "active",
                        NEW a \in Ancestors[t], reason'[a] # "none"
                 PROVE  Path(a, t) \cap cancellationBoundaries # {}
    BY <1>1 DEF NoEscape, derive
  <2>2. s \notin nodes /\ Parent[s] \in nodes /\ Ancestors[s] = {Parent[s]} \cup Ancestors[Parent[s]]
    BY <1>1, TreeAssumption DEF derive, Live
  <2>3. a \in nodes /\ reason[a] # "none"
    BY <1>1, <2>1, <2>2, WholeChain DEF derive
  <2>4. CASE t = s
    <3>1. status[Parent[s]] = "active" /\ reason[Parent[s]] = "none"
      BY <1>1, <2>1, <2>4 DEF derive, Live, IInv, Placed, TypeOK, Statuses
    <3>2. a \in Ancestors[Parent[s]]
      BY <2>2, <2>3, <2>4, <3>1
    <3>3. Path(a, Parent[s]) \cap cancellationBoundaries # {}
      BY <2>2, <2>3, <3>1, <3>2 DEF IInv, NoEscape
    <3>4. Path(a, Parent[s]) \subseteq Path(a, s)
      BY <2>2 DEF Path
    <3> QED
      BY <2>4, <3>3, <3>4
  <2>5. CASE t # s
    BY <1>1, <2>1, <2>3, <2>5 DEF derive, IInv, NoEscape
  <2> QED
    BY <2>4, <2>5
<1>2. ASSUME NEW s \in Scopes, cancel(s) PROVE NoEscape'
  BY <1>2, StopLeavesNone DEF cancel
<1>3. ASSUME expireDeadlines PROVE NoEscape'
  <2> DEFINE E     == {s \in nodes : status[s] = "active" /\ now >= deadline[s]}
             below == UNION {cancellationReach(s) : s \in E}
  <2>1. Stop(E \ below, "deadline-exceeded", below)
    BY <1>3 DEF expireDeadlines
  <2>2. E \in SUBSET nodes
    OBVIOUS
  <2> HIDE DEF E
  <2> QED
    BY <2>1, <2>2, StopLeavesNone
<1>4. ASSUME NEW s \in Scopes, cancellationBoundary(s, TRUE) PROVE NoEscape'
  BY <1>4 DEF cancellationBoundary, IInv, NoEscape
<1>5. ASSUME NEW s \in Scopes, cancellationBoundary(s, FALSE) PROVE NoEscape'
  <2>1. SUFFICES ASSUME NEW t \in nodes, status[t] = "active",
                        NEW a \in Ancestors[t], reason[a] # "none"
                 PROVE  Path(a, t) \cap (cancellationBoundaries \ {s}) # {}
    BY <1>5 DEF NoEscape, cancellationBoundary
  <2>2. /\ Parent[s] \in nodes /\ status[Parent[s]] = "active" /\ reason[Parent[s]] = "none"
        /\ Ancestors[s] = {Parent[s]} \cup Ancestors[Parent[s]] /\ s \in nodes
    BY <1>5, TreeAssumption DEF cancellationBoundary, IInv, Placed
  <2>3. t \in Scopes /\ a \in Scopes /\ s \in Scopes
        /\ Path(a, t) \cap cancellationBoundaries # {}
    BY <2>1, WholeChain DEF IInv, NoEscape
  <2>4. CASE s \notin Path(a, t)
    BY <2>3, <2>4
  <2>5. CASE s \in Path(a, t)
    <3>1. s \in {t} \cup Ancestors[t] /\ s # a /\ s \notin Ancestors[a]
      BY <2>5 DEF Path
    <3>2. a \in Ancestors[s]
      BY <2>3, <3>1, TreeAssumption
    <3>3. a \in Ancestors[Parent[s]]
      BY <2>1, <2>2, <3>2
    <3>4. Path(a, Parent[s]) \cap cancellationBoundaries # {}
      BY <2>1, <2>2, <3>3 DEF IInv, NoEscape
    <3>5. s \notin Ancestors[s] /\ Ancestors[s] \subseteq {t} \cup Ancestors[t]
      BY <2>3, <3>1, TreeAssumption
    <3>6. Path(a, Parent[s]) \subseteq Path(a, t) \ {s}
      BY <2>2, <3>5 DEF Path
    <3> QED
      BY <3>4, <3>6
  <2> QED
    BY <2>4, <2>5
<1>6. ASSUME NEW s \in Scopes, Settles(s) PROVE NoEscape'
  <2>1. nodes' = nodes /\ reason' = reason /\ cancellationBoundaries' = cancellationBoundaries
        /\ \A t \in nodes : status'[t] = "active" => status[t] = "active"
    BY <1>6 DEF Settles, settle
  <2> QED
    BY <2>1 DEF IInv, NoEscape
<1>7. ASSUME TrimEvict PROVE NoEscape'
  <2> DEFINE s == retained[trim]
  <2>1. s \in nodes /\ evict(s) /\ \A t \in nodes : s \notin Ancestors[t]
    BY <1>7, Evicted, LeafIsNoAncestor DEF evict
  <2> HIDE DEF s
  <2>2. SUFFICES ASSUME NEW t \in nodes \ {s}, status'[t] = "active",
                        NEW a \in Ancestors[t], reason'[a] # "none"
                 PROVE  Path(a, t) \cap (cancellationBoundaries \ {s}) # {}
    BY <2>1 DEF NoEscape, evict
  <2>3. status[t] = "active" /\ reason[a] # "none"
    BY <2>1, <2>2 DEF evict
  <2>4. s \notin Path(a, t)
    BY <2>1 DEF Path
  <2> QED
    BY <2>3, <2>4 DEF IInv, NoEscape
<1> QED
  BY <1>1, <1>2, <1>3, <1>4, <1>5, <1>6, <1>7, NextShapes DEF recordEffect,
     recordLateEffect, Quiet, treeVars, IInv, NoEscape

(* While effects only grow, and what a live scope below a held is held or  *)
(* folded, a goes on knowing.                                              *)
LEMMA FoldedStep == IInv /\ [Next]_vars => Folded'
<1> SUFFICES ASSUME IInv, [Next]_vars PROVE Folded'
  OBVIOUS
<1> USE DEF IInv, TypeOK
<1>1. \A s \in Scopes : /\ effect[s] \in EffectCertainty /\ known[s] \in EffectCertainty
                        /\ settledDescendantEffect[s] \in EffectCertainty
  OBVIOUS
<1>2. ASSUME effectVars' = effectVars, nodes' = nodes, LiveScopes' = LiveScopes PROVE Folded'
  BY <1>2 DEF effectVars, Folded, HeldBy
<1>3. ASSUME NEW s \in Scopes, derive(s) PROVE Folded'
  <2>1. /\ UNCHANGED <<effect, known, settledDescendantEffect>>
        /\ nodes' = nodes \cup {s} /\ LiveScopes \subseteq LiveScopes'
    BY <1>3 DEF derive, effectVars, LiveScopes
  <2>2. effect[s] >= known[s]
    BY <1>3, SeverityOrder DEF derive, Placed
  <2> QED
    BY <2>1, <2>2 DEF Folded, HeldBy
<1>4. ASSUME NEW own, NEW below, NEW why, Stop(own, why, below) PROVE Folded'
  <2>1. \A s \in nodes : status'[s] # "terminal" <=> status[s] # "terminal"
    BY <1>4 DEF Stop
  <2> QED
    BY <1>2, <1>4 DEF Stop, LiveScopes
<1>5. ASSUME NEW s \in Scopes, NEW e \in EffectCertainty, recordEffect(s, e) PROVE Folded'
  <2>1. /\ settledDescendantEffect' = settledDescendantEffect
        /\ nodes' = nodes /\ LiveScopes' = LiveScopes /\ s \in LiveScopes
        /\ \A t \in Scopes : effect'[t] >= effect[t]
        /\ effect'[s] >= e
        /\ \A t \in Scopes : \/ known'[t] = known[t]
                             \/ t \in {s} \cup Ancestors[s] /\ known'[t] = e
    <3>1. settledDescendantEffect' = settledDescendantEffect
          /\ nodes' = nodes /\ LiveScopes' = LiveScopes /\ s \in LiveScopes
      BY <1>5 DEF recordEffect, Live, LiveScopes, treeVars
    <3>2. (\A t \in Scopes : effect'[t] >= effect[t]) /\ effect'[s] >= e
      <4>1. \A t \in Scopes : effect[t] >= effect[t]
        BY SeverityOrder
      <4>2. \A t \in Scopes : effect'[t] = IF t = s THEN worstEffect(effect[t], e) ELSE effect[t]
        BY <1>5 DEF recordEffect
      <4> QED
        BY <1>1, <4>1, <4>2, WorstEffect
    <3>3. \A t \in Scopes : known'[t] = known[t] \/ (t \in {s} \cup Ancestors[s] /\ known'[t] = e)
      <4> TAKE t \in Scopes
      <4>1. known'[t] = IF t \in {s} \cup Ancestors[s] THEN worstEffect(known[t], e) ELSE known[t]
        BY <1>5 DEF recordEffect, Learn
      <4>2. worstEffect(known[t], e) = known[t] \/ worstEffect(known[t], e) = e
        BY WorstEffect
      <4> QED
        BY <4>1, <4>2
    <3> QED
      BY <3>1, <3>2, <3>3
  <2>2. \A t \in Scopes : effect'[t] \in EffectCertainty
    BY <1>5, WorstEffect DEF recordEffect
  <2> SUFFICES ASSUME NEW a \in nodes
               PROVE  \/ effect'[a] >= known'[a]
                      \/ settledDescendantEffect'[a] >= known'[a]
                      \/ \E t \in Scopes : t \in LiveScopes /\ a \in Ancestors[t] /\ effect'[t] >= known'[a]
    BY <2>1 DEF Folded, HeldBy
  <2>3. CASE known'[a] = known[a]
    <3>1. CASE effect[a] >= known[a]
      BY <2>1, <2>2, <2>3, <3>1, SeverityOrder
    <3>2. CASE settledDescendantEffect[a] >= known[a]
      BY <2>1, <3>2
    <3>3. CASE \E t \in Scopes : HeldBy(t, a)
      BY <2>1, <2>2, <2>3, <3>3, SeverityOrder DEF HeldBy
    <3> QED
      BY <3>1, <3>2, <3>3 DEF Folded
  <2>4. CASE known'[a] # known[a]
    BY <2>1, <2>4
  <2> QED
    BY <2>3, <2>4
<1>6. ASSUME NEW s \in Scopes, NEW e \in EffectCertainty, recordLateEffect(s, e) PROVE Folded'
  <2>1. Learn(Ancestors[s] \cap nodes, e)
    BY <1>6 DEF recordLateEffect
  <2>2. foldInto(Ancestors[s] \cap nodes, e)
    <3>1. CASE s \notin nodes /\ hasTombstone(s)
      <4>1. tombstoneIndex(s) \in 1 .. Len(tombstones) /\ tombstones[tombstoneIndex(s)].scope = s
        BY <3>1 DEF hasTombstone, tombstoneIndex
      <4>2. tombstones[tombstoneIndex(s)].ancestors = Ancestors[s]
        BY <4>1 DEF TombstonesWhole
      <4> QED
        BY <1>6, <3>1, <4>2 DEF recordLateEffect
    <3>2. CASE s \in nodes
      <4>1. Ancestors[s] \cap nodes = ancestorIdsOf(s)
        BY <3>2, WholeChain
      <4> QED
        BY <1>6, <3>2, <4>1 DEF recordLateEffect, foldIntoAncestors
    <3> QED
      BY <1>6, <3>1, <3>2 DEF recordLateEffect
  <2>3. /\ effect' = effect /\ nodes' = nodes /\ LiveScopes' = LiveScopes
        /\ \A t \in Scopes :
              \/ known'[t] = known[t] /\ settledDescendantEffect'[t] >= settledDescendantEffect[t]
              \/ known'[t] = e /\ settledDescendantEffect'[t] >= e
    <3>1. effect' = effect /\ nodes' = nodes /\ LiveScopes' = LiveScopes
      BY <1>6 DEF recordLateEffect, treeVars, LiveScopes
    <3>2. \A t \in Scopes : settledDescendantEffect[t] >= settledDescendantEffect[t]
      BY SeverityOrder
    <3> QED
      BY <2>1, <2>2, <3>1, <3>2, WorstEffect DEF foldInto, Learn
  <2>4. \A t \in Scopes : settledDescendantEffect'[t] \in EffectCertainty
    BY <2>2, WorstEffect DEF foldInto
  <2> QED
    BY <1>1, <2>3, <2>4, SeverityOrder DEF Folded, HeldBy
<1>7. ASSUME NEW s \in Scopes, Settles(s) PROVE Folded'
  <2>1. /\ UNCHANGED <<nodes, effect, known>> /\ LiveScopes' = LiveScopes \ {s}
        /\ foldInto(ancestorIdsOf(s), totalEffectOf(s)) /\ s \in nodes
    BY <1>7 DEF Settles, settle, foldIntoAncestors, Live, LiveScopes
  <2>2. /\ \A t \in Scopes : settledDescendantEffect'[t] >= settledDescendantEffect[t]
        /\ \A t \in Ancestors[s] : settledDescendantEffect'[t] >= effect[s]
        /\ \A t \in Scopes : settledDescendantEffect'[t] \in EffectCertainty
    <3>1. totalEffectOf(s) \in EffectCertainty /\ totalEffectOf(s) >= effect[s]
      BY WorstEffect DEF totalEffectOf
    <3>2. ancestorIdsOf(s) = Ancestors[s] /\ Ancestors[s] \subseteq Scopes
      BY <2>1, WholeChain
    <3>3. \A t \in Scopes : settledDescendantEffect[t] >= settledDescendantEffect[t]
      BY SeverityOrder
    <3>4. \A t \in Scopes : settledDescendantEffect'[t] =
             IF t \in Ancestors[s] THEN worstEffect(settledDescendantEffect[t], totalEffectOf(s))
             ELSE settledDescendantEffect[t]
      BY <2>1, <3>2 DEF foldInto
    <3>5. \A t \in Scopes : /\ settledDescendantEffect'[t] \in EffectCertainty
                            /\ settledDescendantEffect'[t] >= settledDescendantEffect[t]
      <4> TAKE t \in Scopes
      <4>1. LET w == worstEffect(settledDescendantEffect[t], totalEffectOf(s))
            IN  w \in EffectCertainty /\ w >= settledDescendantEffect[t]
        BY <3>1, WorstEffect
      <4> QED
        BY <3>3, <3>4, <4>1
    <3>6. \A t \in Ancestors[s] : settledDescendantEffect'[t] >= effect[s]
      <4> TAKE t \in Ancestors[s]
      <4>1. settledDescendantEffect'[t] >= totalEffectOf(s)
        BY <3>1, <3>2, <3>4, WorstEffect
      <4> QED
        BY <3>1, <3>2, <3>5, <4>1, SeverityOrder
    <3> QED
      BY <3>5, <3>6
  <2> SUFFICES ASSUME NEW a \in nodes
               PROVE  \/ effect[a] >= known[a]
                      \/ settledDescendantEffect'[a] >= known[a]
                      \/ \E t \in Scopes : HeldBy(t, a) /\ t # s
    BY <2>1 DEF Folded, HeldBy
  <2>3. CASE settledDescendantEffect[a] >= known[a]
    BY <2>2, <2>3, SeverityOrder
  <2>4. CASE HeldBy(s, a)
    BY <2>2, <2>4, SeverityOrder DEF HeldBy
  <2> QED
    BY <2>3, <2>4 DEF Folded
<1>8. ASSUME TrimEvict PROVE Folded'
  <2> DEFINE s == retained[trim]
  <2>1. s \in nodes /\ status[s] = "terminal" /\ evict(s)
    BY <1>8, Evicted
  <2> HIDE DEF s
  <2>2. /\ nodes' = nodes \ {s} /\ LiveScopes' = LiveScopes /\ s \notin LiveScopes
        /\ \A t \in Scopes \ {s} : /\ effect'[t] = effect[t] /\ known'[t] = known[t]
                                 /\ settledDescendantEffect'[t] = settledDescendantEffect[t]
    BY <2>1 DEF evict, LiveScopes
  <2> QED
    BY <2>2 DEF Folded, HeldBy
<1> QED
  BY <1>2, <1>3, <1>4, <1>5, <1>6, <1>7, <1>8, NextShapes DEF cancel, expireDeadlines,
     cancellationBoundary, Quiet, treeVars, LiveScopes

------------------------------------------------------------------------------
(* The invariant and its consequences                                      *)

LEMMA InitIInv == Init => IInv
<1> SUFFICES ASSUME Init PROVE IInv
  OBVIOUS
<1> USE DEF Init
<1>1. TypeOK
  BY TreeAssumption, ScopeLimits DEF TypeOK, Statuses, Reasons, EffectCertainty, NoEffect,
     UncertainEffect, NoOutcome, outcome, Outcomes, OutcomeKinds
<1>2. Placed /\ TombstonesWhole /\ Folded /\ ChainIntact
  BY TreeAssumption DEF Placed, TombstonesWhole, Folded, ChainIntact, NoEffect
<1>3. RetentionExact
  <2>1. {s \in nodes : status[s] # "terminal"} = {Root}
    BY TreeAssumption
  <2>2. {s \in nodes : status[s] = "terminal"} = {}
    BY TreeAssumption
  <2>3. Cardinality({Root}) = 1
    BY FS_Singleton
  <2>4. 1 <= MaxLive /\ 0 <= MaxTombstones
    BY ScopeLimits
  <2>5. retained = <<>> /\ tombstones = <<>> /\ liveCount = 1
    OBVIOUS
  <2>6. Window(retained) = {} /\ OnceEach(retained) /\ Len(tombstones) = 0
    BY DEF Window, OnceEach
  <2> QED
    BY <2>2, <2>3, <2>4, <2>5, <2>6 DEF RetentionExact, Window, OnceEach
<1>4. NoEscape
  BY TreeAssumption DEF NoEscape
<1> QED
  BY <1>1, <1>2, <1>3, <1>4 DEF IInv

(* Every reachable state of the tree satisfies the inductive invariant.    *)
THEOREM Invariance == Spec => []IInv
<1>1. IInv /\ [Next]_vars => IInv'
  BY TypeStep, PlacedStep, TombstonesStep, ChainStep, RetentionStep, EscapeStep, FoldedStep
     DEF IInv
<1> QED
  BY <1>1, InitIInv, PTL DEF Spec

(* Every variable keeps its type, the live count a natural number and the  *)
(* boundaries scopes in memory.                                            *)
THEOREM Typing == Spec => []TypeOK
<1>1. IInv => TypeOK
  BY DEF IInv
<1> QED
  BY <1>1, Invariance, PTL

(* evict never orphans a scope in memory, whatever settles when.           *)
THEOREM ChainStays == Spec => []ChainIntact
<1>1. IInv => ChainIntact
  BY DEF IInv
<1> QED
  BY <1>1, Invariance, PTL

(* retained, liveCount and tombstones are exact across identifier reuse.   *)
THEOREM RetentionStays == Spec => []RetentionExact
<1>1. IInv => RetentionExact
  BY DEF IInv
<1> QED
  BY <1>1, Invariance, PTL

(* No scope below a stopped one runs on unless a boundary shelters it.     *)
THEOREM NoneEscapes == Spec => []NoEscape
<1>1. IInv => NoEscape
  BY DEF IInv
<1> QED
  BY <1>1, Invariance, PTL

(* Effects accepted anywhere stay visible from every ancestor in memory.   *)
THEOREM EffectsSurvive == Spec => []EffectNeverLost
<1>1. IInv => EffectNeverLost
  <2> SUFFICES ASSUME IInv, NEW a \in nodes
               PROVE  \E s \in {a} \cup descendantsOf(a) : totalEffectOf(s) >= known[a]
    BY DEF EffectNeverLost, subtreeEffectAtLeast
  <2>1. \A s \in Scopes : /\ effect[s] \in EffectCertainty /\ known[s] \in EffectCertainty
                          /\ settledDescendantEffect[s] \in EffectCertainty
    BY DEF IInv, TypeOK
  <2>2. \A s \in Scopes : /\ totalEffectOf(s) \in EffectCertainty
                          /\ totalEffectOf(s) >= effect[s]
                          /\ totalEffectOf(s) >= settledDescendantEffect[s]
    BY <2>1, WorstEffect DEF totalEffectOf
  <2>3. a \in Scopes
    BY WholeChain
  <2>4. CASE effect[a] >= known[a] \/ settledDescendantEffect[a] >= known[a]
    BY <2>1, <2>2, <2>3, <2>4, SeverityOrder
  <2>5. CASE \E s \in Scopes : HeldBy(s, a)
    <3>1. PICK s \in Scopes : s \in nodes /\ a \in Ancestors[s] /\ effect[s] >= known[a]
      BY <2>5 DEF HeldBy, LiveScopes
    <3>2. s \in descendantsOf(a)
      BY <3>1, Descendants
    <3>3. totalEffectOf(s) >= known[a]
      BY <2>1, <2>2, <2>3, <3>1, SeverityOrder
    <3> QED
      BY <3>2, <3>3
  <2> QED
    BY <2>4, <2>5 DEF IInv, Folded
<1> QED
  BY <1>1, Invariance, PTL

(* A step leaves the effects in memory as bad as they were or worse, and   *)
(* a terminal scope as it was read.                                        *)
FrozenStep ==
    \A s \in nodes \cap nodes' :
        /\ effect'[s] >= effect[s]
        /\ settledDescendantEffect'[s] >= settledDescendantEffect[s]
        /\ status[s] = "terminal" =>
              /\ status'[s] = "terminal" /\ result'[s] = result[s]
              /\ effect'[s] = effect[s] /\ reason'[s] = reason[s]

LEMMA Frozen == IInv /\ [Next]_vars => FrozenStep
<1> SUFFICES ASSUME IInv, [Next]_vars PROVE FrozenStep
  OBVIOUS
<1>1. nodes \subseteq Scopes /\ status \in [Scopes -> Statuses] /\ reason \in [Scopes -> Reasons]
      /\ result \in [Scopes -> Outcomes] /\ effect \in [Scopes -> EffectCertainty]
      /\ settledDescendantEffect \in [Scopes -> EffectCertainty]
  BY DEF IInv, TypeOK
<1>2. \A s \in Scopes : effect[s] >= effect[s] /\ settledDescendantEffect[s] >= settledDescendantEffect[s]
  BY <1>1, SeverityOrder
<1>3. ASSUME UNCHANGED <<status, reason, effect, settledDescendantEffect, result>> PROVE FrozenStep
  BY <1>1, <1>2, <1>3 DEF FrozenStep
<1>4. ASSUME NEW s \in Scopes, derive(s) PROVE FrozenStep
  BY <1>1, <1>2, <1>4 DEF FrozenStep, derive, effectVars
<1>5. ASSUME NEW own, NEW below, NEW why, Stop(own, why, below) PROVE FrozenStep
  BY <1>1, <1>2, <1>5 DEF FrozenStep, Stop, effectVars
<1>6. ASSUME NEW s \in Scopes, NEW e \in EffectCertainty, recordEffect(s, e) PROVE FrozenStep
  BY <1>1, <1>2, <1>6, WorstEffect DEF FrozenStep, recordEffect, Live, treeVars
<1>7. ASSUME NEW S, NEW e \in EffectCertainty, foldInto(S, e)
      PROVE  \A s \in Scopes : settledDescendantEffect'[s] >= settledDescendantEffect[s]
  BY <1>1, <1>2, <1>7, WorstEffect DEF foldInto
<1>8. ASSUME NEW s \in Scopes, NEW e \in EffectCertainty, recordLateEffect(s, e) PROVE FrozenStep
  <2>1. \A t \in Scopes : settledDescendantEffect'[t] >= settledDescendantEffect[t]
    BY <1>7, <1>8 DEF recordLateEffect, foldIntoAncestors
  <2> QED
    BY <1>1, <1>2, <1>8, <2>1 DEF FrozenStep, recordLateEffect, treeVars
<1>9. ASSUME NEW s \in Scopes, Settles(s) PROVE FrozenStep
  <2>1. totalEffectOf(s) \in EffectCertainty
    BY <1>1, WorstEffect DEF totalEffectOf
  <2>2. \A t \in Scopes : settledDescendantEffect'[t] >= settledDescendantEffect[t]
    BY <1>7, <1>9, <2>1 DEF Settles, settle, foldIntoAncestors
  <2> QED
    BY <1>1, <1>2, <1>9, <2>2 DEF FrozenStep, Settles, settle, Live
<1>10. ASSUME TrimEvict PROVE FrozenStep
  <2> DEFINE s == retained[trim]
  <2>1. evict(s)
    BY <1>10, Evicted
  <2> HIDE DEF s
  <2> QED
    BY <1>1, <1>2, <2>1 DEF FrozenStep, evict
<1> QED
  BY <1>3, <1>4, <1>5, <1>6, <1>8, <1>9, <1>10, NextShapes DEF cancel, expireDeadlines,
     cancellationBoundary, effectVars, Quiet, treeVars

(* Effects in memory only get worse, and a settled scope is never          *)
(* rewritten while it can be read.                                         *)
THEOREM SettledStays == Spec => SettledIsFrozen
<1>1. IInv /\ [Next]_vars => [FrozenStep]_vars
  BY Frozen
<1> QED
  BY <1>1, Invariance, PTL DEF Spec, SettledIsFrozen, FrozenStep

------------------------------------------------------------------------------
(* Deadlines                                                               *)

(* scope-tree.ts: "deriving a child can only ever narrow what it           *)
(* inherited".                                                             *)
DeadlinesNest == \A s \in nodes : \A a \in Ancestors[s] : deadline[s] <= deadline[a]

(* No scope has a later deadline than anything above it, however scopes    *)
(* are derived, evicted and derived again under the same identifier: when  *)
(* an ancestor's deadline has passed, so have all those below it.          *)
THEOREM DeadlinesOnlyNarrow == Spec => []DeadlinesNest
<1>1. Init => DeadlinesNest
  BY TreeAssumption DEF Init, DeadlinesNest
<1>2. IInv /\ DeadlinesNest /\ [Next]_vars => DeadlinesNest'
  <2> SUFFICES ASSUME IInv, DeadlinesNest, [Next]_vars PROVE DeadlinesNest'
    OBVIOUS
  <2>1. nodes \subseteq Scopes /\ deadline \in [Scopes -> Nat] /\ RequestedDeadline \in [Scopes -> Nat]
    BY ScopeLimits DEF IInv, TypeOK
  <2>2. ASSUME NEW s \in Scopes, derive(s) PROVE DeadlinesNest'
    <3> DEFINE p == Parent[s]
    <3>1. /\ p \in nodes /\ Ancestors[s] = {p} \cup Ancestors[p] /\ s \notin nodes
          /\ nodes' = nodes \cup {s}
      BY <2>2, TreeAssumption DEF derive, Live
    <3>2. Ancestors[p] \subseteq nodes /\ \A t \in nodes : Ancestors[t] \subseteq nodes
      BY <3>1, WholeChain
    <3>3. deadline'[s] <= deadline[p] /\ deadline'[s] \in Nat
          /\ \A t \in Scopes \ {s} : deadline'[t] = deadline[t]
      BY <2>1, <2>2, <3>1 DEF derive
    <3> HIDE DEF p
    <3>4. \A a \in Ancestors[s] : deadline[p] <= deadline[a] /\ a \in nodes
      BY <2>1, <3>1, <3>2 DEF DeadlinesNest
    <3>5. \A a \in Ancestors[s] : deadline'[s] <= deadline'[a]
      BY <2>1, <3>1, <3>3, <3>4
    <3>6. \A t \in nodes : \A a \in Ancestors[t] : deadline'[t] <= deadline'[a]
      BY <2>1, <3>1, <3>2, <3>3 DEF DeadlinesNest
    <3> QED
      BY <3>1, <3>5, <3>6 DEF DeadlinesNest
  <2>3. ASSUME TrimEvict PROVE DeadlinesNest'
    <3> DEFINE s == retained[trim]
    <3>1. s \in nodes /\ evict(s) /\ nodes' = nodes \ {s}
          /\ \A t \in Scopes \ {s} : deadline'[t] = deadline[t]
      BY <2>1, <2>3, Evicted DEF evict
    <3>2. \A t \in nodes : s \notin Ancestors[t] /\ Ancestors[t] \subseteq nodes
      BY <3>1, LeafIsNoAncestor, WholeChain DEF evict
    <3> HIDE DEF s
    <3> QED
      BY <2>1, <3>1, <3>2 DEF DeadlinesNest
  <2>4. ASSUME UNCHANGED <<nodes, deadline>> PROVE DeadlinesNest'
    BY <2>4 DEF DeadlinesNest
  <2> QED
    BY <2>2, <2>3, <2>4, NextShapes DEF cancel, expireDeadlines, Stop, cancellationBoundary,
       recordEffect, recordLateEffect, Settles, settle, Quiet, treeVars
<1> QED
  BY <1>1, <1>2, Invariance, PTL DEF Spec

------------------------------------------------------------------------------
(* What a terminal scope reports                                           *)

(* A terminal scope whose outcome needs an inspection recorded an effect   *)
(* that does.                                                              *)
OutcomeGrounded ==
    \A s \in nodes : (status[s] = "terminal" /\ requiresInspection(result[s].effect))
        => effect[s] >= PartialEffect

Unforced == ~ \E s \in Scopes : forceSettle(s)

(* Only the four ways of settling make a scope terminal.                   *)
LEMMA WhoSettles ==
    ASSUME IInv, [Next]_vars, NEW s \in nodes', status'[s] = "terminal",
           ~ (s \in nodes /\ status[s] = "terminal")
    PROVE  s \in Scopes /\ (complete(s) \/ fail(s) \/ acknowledge(s) \/ forceSettle(s))
<1> USE DEF IInv, TypeOK
<1>1. ASSUME UNCHANGED <<nodes, status>> PROVE FALSE
  BY <1>1
<1>2. ASSUME NEW t \in Scopes, derive(t) PROVE FALSE
  BY <1>2 DEF derive
<1>3. ASSUME NEW own, NEW below, NEW why, Stop(own, why, below) PROVE FALSE
  BY <1>3 DEF Stop
<1>4. ASSUME TrimEvict PROVE FALSE
  <2> DEFINE t == retained[trim]
  <2>1. t \in nodes /\ evict(t)
    BY <1>4, Evicted
  <2> HIDE DEF t
  <2> QED
    BY <2>1 DEF evict
<1>5. ASSUME NEW t \in Scopes, NEW final, settle(t, final) PROVE s = t
  BY <1>5 DEF settle
<1>6. ASSUME NEW t \in Scopes, complete(t) \/ fail(t) \/ acknowledge(t) \/ forceSettle(t)
      PROVE  s = t
  BY <1>5, <1>6 DEF complete, fail, acknowledge, forceSettle
<1> QED
  BY <1>1, <1>2, <1>3, <1>4, <1>6 DEF Next, vars, cancel, expireDeadlines, cancellationBoundary,
     recordEffect, recordLateEffect, forceSettleUnacknowledged, TrimSkip, TrimEnd, Tick, treeVars

(* As long as no scope is settled by force, a scope whose outcome requires *)
(* inspection reports an effect that says so: forceSettleUnacknowledged,   *)
(* which settles as uncertain without recording an effect, is the only     *)
(* place where the two part.                                               *)
THEOREM ReportAgreesUnforced == Spec /\ [][Unforced]_vars => []ReportAgrees
<1>1. Init => OutcomeGrounded
  BY TreeAssumption DEF Init, OutcomeGrounded
<1>2. IInv /\ OutcomeGrounded /\ [Next]_vars /\ [Unforced]_vars => OutcomeGrounded'
  <2> SUFFICES ASSUME IInv, OutcomeGrounded, [Next]_vars, [Unforced]_vars,
                      NEW s \in nodes', status'[s] = "terminal",
                      requiresInspection(result'[s].effect)
               PROVE  effect'[s] >= PartialEffect
    BY DEF OutcomeGrounded, requiresInspection
  <2>1. CASE s \in nodes /\ status[s] = "terminal"
    BY <2>1, Frozen DEF FrozenStep, OutcomeGrounded
  <2>2. CASE ~ (s \in nodes /\ status[s] = "terminal")
    <3>1. s \in Scopes /\ (complete(s) \/ fail(s) \/ acknowledge(s))
      <4>1. s \in Scopes /\ (complete(s) \/ fail(s) \/ acknowledge(s) \/ forceSettle(s))
        BY <2>2, WhoSettles
      <4>2. CASE Unforced
        BY <4>1, <4>2 DEF Unforced
      <4>3. CASE UNCHANGED vars
        BY <2>2, <4>3 DEF vars, treeVars
      <4> QED
        BY <4>2, <4>3
    <3>2. PICK final : settle(s, final) /\ \/ final = outcome("completed", CompletedEffect)
                                           \/ final = outcome("failed", effect[s])
                                           \/ final = timeoutOutcomeFor(effect[s])
                                           \/ final = cancellationOutcomeFor(effect[s])
      BY <3>1 DEF complete, fail, acknowledge
    <3>3. result'[s] = final /\ effect'[s] = effect[s] /\ effect[s] \in EffectCertainty
      BY <3>1, <3>2 DEF settle, IInv, TypeOK
    <3>4. requiresInspection(final.effect) => effect[s] >= PartialEffect
      BY <3>2, <3>3 DEF outcome, timeoutOutcomeFor, cancellationOutcomeFor, requiresInspection,
         EffectCertainty, NoEffect, CompletedEffect, PartialEffect, UncertainEffect
    <3> QED
      BY <3>3, <3>4
  <2> QED
    BY <2>1, <2>2
<1>3. IInv /\ OutcomeGrounded => ReportAgrees
  <2> SUFFICES ASSUME IInv, OutcomeGrounded, NEW s \in nodes, status[s] = "terminal",
                      requiresInspection(result[s].effect)
               PROVE  subtreeEffectAtLeast(s, PartialEffect)
    BY DEF ReportAgrees
  <2>1. s \in Scopes /\ effect[s] \in EffectCertainty /\ settledDescendantEffect[s] \in EffectCertainty
    BY DEF IInv, TypeOK
  <2>2. totalEffectOf(s) \in EffectCertainty /\ totalEffectOf(s) >= effect[s]
    BY <2>1, WorstEffect DEF totalEffectOf
  <2>3. effect[s] >= PartialEffect /\ PartialEffect \in EffectCertainty
    BY DEF OutcomeGrounded, PartialEffect, EffectCertainty, NoEffect, UncertainEffect
  <2>4. totalEffectOf(s) >= PartialEffect
    BY <2>1, <2>2, <2>3, SeverityOrder
  <2> QED
    BY <2>4 DEF subtreeEffectAtLeast
<1> QED
  BY <1>1, <1>2, <1>3, Invariance, PTL DEF Spec
==============================================================================
