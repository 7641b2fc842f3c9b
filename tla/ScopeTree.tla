------------------------------ MODULE ScopeTree ------------------------------
(***************************************************************************)
(* The cancellation scope tree (application/orchestration/scope-tree.ts).  *)
(*                                                                         *)
(* Scopes are derived under a parent, cancelled downward, and settled by   *)
(* themselves; what a scope did to the world is folded upward.  A settled  *)
(* scope is retained for inspection, then evicted and remembered by a      *)
(* tombstone.  Every call is synchronous, so only a call's loops are split *)
(* into steps: while trim or forcing is set, no other call may begin.      *)
(* The lifecycle event log, which nothing reads back, is left out.         *)
(***************************************************************************)
EXTENDS Effects, Sequences, FiniteSets

CONSTANTS
    Scopes,              \* every scope identifier that is ever derived
    Root,
    Parent,              \* an identifier is always derived under this parent
    Ancestors,           \* the parents of a scope, transitively
    RequestedDeadline,   \* per scope; no deadline is one past MaxTime
    Reported,            \* the effects that callers record
    MaxDepth,            \* MAX_SCOPE_DEPTH
    MaxLive,             \* MAX_LIVE_SCOPES
    MaxRetained,         \* MAX_RETAINED_TERMINAL_SCOPES
    MaxTombstones,       \* MAX_EVICTED_TOMBSTONES
    MaxTime              \* bound on the clock

(* Parent is a tree, and Ancestors its transitive closure: a chain that     *)
(* leads to the root.                                                      *)
ASSUME TreeAssumption ==
    /\ IsFiniteSet(Scopes)
    /\ Root \in Scopes
    /\ Parent \in [Scopes \ {Root} -> Scopes]
    /\ Ancestors \in [Scopes -> SUBSET Scopes]
    /\ Ancestors[Root] = {}
    /\ \A s \in Scopes \ {Root} : Ancestors[s] = {Parent[s]} \cup Ancestors[Parent[s]]
    /\ \A s \in Scopes : s \notin Ancestors[s]
    /\ \A s \in Scopes : \A a \in Ancestors[s] :
          /\ Ancestors[a] \subseteq Ancestors[s]
          /\ \E c \in ({s} \cup Ancestors[s]) \ {Root} : Parent[c] = a
          /\ \A b \in Ancestors[s] : a = b \/ a \in Ancestors[b] \/ b \in Ancestors[a]

ASSUME ScopeLimits ==
    /\ RequestedDeadline \in [Scopes -> Nat]
    /\ Reported \subseteq EffectCertainty
    /\ MaxDepth \in Nat /\ MaxLive \in Nat \ {0} /\ MaxRetained \in Nat
    /\ MaxTombstones \in Nat \ {0} /\ MaxTime \in Nat

VARIABLES
    nodes,                     \* scopes in memory: live ones and retained ones
    status,                    \* per scope: active, cancelling, terminal
    reason,                    \* why it was asked to stop, or none; set exactly
                               \* when its abort signal fires
    effect,                    \* its own recorded effect
    settledDescendantEffect,   \* the worst effect folded into it from below
    result,                    \* its terminal outcome
    deadline,
    cancellationBoundaries,
    retained,                  \* settled scopes in memory, oldest first
    tombstones,                \* evicted scopes still attributable, oldest first,
                               \* with the ancestor ids captured at eviction
    liveCount,
    trim,                      \* the index trimRetained has reached, or 0
    forcing,                   \* scopes forceSettleUnacknowledged has yet to settle
    now,
    known                      \* history: the worst effect the tree accepted for
                               \* a scope or for anything below it

treeVars  == <<nodes, status, reason, deadline, cancellationBoundaries, liveCount>>
effectVars == <<effect, settledDescendantEffect, known>>
retentionVars == <<retained, tombstones>>
loopVars  == <<trim, forcing>>
vars == <<treeVars, effectVars, result, retentionVars, loopVars, now>>

Statuses == {"active", "cancelling", "terminal"}
Reasons  == {"none", "requested", "parent-cancelled", "deadline-exceeded"}
NoOutcome == outcome("completed", NoEffect)
Tombstones == [scope : Scopes, ancestors : SUBSET Scopes]

TypeOK ==
    /\ nodes \subseteq Scopes
    /\ status \in [Scopes -> Statuses]
    /\ reason \in [Scopes -> Reasons]
    /\ effect \in [Scopes -> EffectCertainty]
    /\ settledDescendantEffect \in [Scopes -> EffectCertainty]
    /\ result \in [Scopes -> Outcomes]
    /\ deadline \in [Scopes -> Nat]
    /\ cancellationBoundaries \subseteq nodes
    /\ retained \in Seq(Scopes)
    /\ tombstones \in Seq(Tombstones)
    /\ liveCount \in Nat
    /\ trim \in Nat
    /\ forcing \subseteq nodes
    /\ now \in 0 .. MaxTime
    /\ known \in [Scopes -> EffectCertainty]

Init ==
    /\ nodes = {Root}
    /\ status = [s \in Scopes |-> "active"]
    /\ reason = [s \in Scopes |-> "none"]
    /\ effect = [s \in Scopes |-> NoEffect]
    /\ settledDescendantEffect = [s \in Scopes |-> NoEffect]
    /\ result = [s \in Scopes |-> NoOutcome]
    /\ deadline = RequestedDeadline
    /\ cancellationBoundaries = {}
    /\ retained = <<>> /\ tombstones = <<>>
    /\ liveCount = 1
    /\ trim = 0 /\ forcing = {}
    /\ now = 0
    /\ known = [s \in Scopes |-> NoEffect]

------------------------------------------------------------------------------
(* Walking the tree                                                        *)

LiveUnchecked(s) == s \in nodes
Live(s) == s \in nodes /\ status[s] # "terminal"
Idle    == trim = 0 /\ forcing = {}

childrenLive(s) == {c \in nodes \ {Root} : Parent[c] = s /\ status[c] # "terminal"}
children(s) == {c \in nodes \ {Root} : Parent[c] = s}

(* The scopes strictly below a on the way down to s, s included.           *)
Path(a, s) == ({s} \cup Ancestors[s]) \ ({a} \cup Ancestors[a])

(* Following parentId stops at the first scope that is not in memory.      *)
ancestorIdsOf(s) ==
    {a \in Ancestors[s] : a \in nodes /\ Path(a, s) \ {s} \subseteq nodes}

(* The descendants a walk over children finds, skipping every subtree      *)
(* under a cancellation boundary when the walk is a cancellation.          *)
descendantsOf(a) == {s \in nodes : a \in ancestorIdsOf(s)}
cancellationReachLive(a) ==
    {s \in descendantsOf(a) : /\ Path(a, s) \cap cancellationBoundaries = {}
                              /\ \A m \in Path(a, s) : status[m] # "terminal"}
cancellationReach(a) ==
    {s \in descendantsOf(a) : Path(a, s) \cap cancellationBoundaries = {}}

totalEffectOf(s) == worstEffect(effect[s], settledDescendantEffect[s])

(* The subtree effect a report gives for a is at least e.                  *)
subtreeEffectAtLeast(a, e) == \E s \in {a} \cup descendantsOf(a) : totalEffectOf(s) >= e

------------------------------------------------------------------------------
(* Opening, cancelling and sheltering scopes                               *)

RemoveNext(seq, i) == [j \in 1 .. (Len(seq) - 1) |-> IF j <= i THEN seq[j] ELSE seq[j + 1]]
RemoveIndex(seq, i) == [j \in 1 .. (Len(seq) - 1) |-> IF j < i THEN seq[j] ELSE seq[j + 1]]

hasTombstone(s) == \E i \in 1 .. Len(tombstones) : tombstones[i].scope = s
tombstoneIndex(s) == CHOOSE i \in 1 .. Len(tombstones) : tombstones[i].scope = s

forgetTombstone(s) ==
    IF hasTombstone(s) THEN RemoveIndex(tombstones, tombstoneIndex(s)) ELSE tombstones

(* Refused (no change) under an unknown or terminal parent, beyond the     *)
(* depth or the live limit, or when the identifier is in memory.           *)
derive(s) ==
    /\ Idle
    /\ s # Root /\ s \notin nodes
    /\ Live(Parent[s])
    /\ Cardinality(Ancestors[Parent[s]]) + 1 < MaxDepth
    /\ liveCount < MaxLive
    /\ nodes' = nodes \cup {s}
    /\ liveCount' = liveCount + 1
    /\ deadline' = [deadline EXCEPT ![s] =
          IF deadline[Parent[s]] < RequestedDeadline[s] THEN deadline[Parent[s]]
          ELSE RequestedDeadline[s]]
    /\ LET late == status[Parent[s]] = "cancelling"
       IN  /\ status' = [status EXCEPT ![s] = IF late THEN "cancelling" ELSE "active"]
           /\ reason' = [reason EXCEPT ![s] = IF late THEN "parent-cancelled" ELSE "none"]
    /\ tombstones' = forgetTombstone(s)
    /\ UNCHANGED <<cancellationBoundaries, effectVars, result, retained, loopVars, now>>

(* beginCancelling leaves cancelling and terminal scopes alone.            *)
Stop(own, ownReason, below) ==
    LET stopped == {s \in own \cup below : status[s] = "active"}
    IN  /\ status' = [s \in Scopes |-> IF s \in stopped THEN "cancelling" ELSE status[s]]
        /\ reason' = [s \in Scopes |->
              IF s \notin stopped THEN reason[s]
              ELSE IF s \in own THEN ownReason ELSE "parent-cancelled"]
        /\ UNCHANGED <<nodes, deadline, cancellationBoundaries, liveCount, effectVars, result,
                       retentionVars, loopVars, now>>

cancel(s) ==
    /\ Idle
    /\ s \in nodes
    /\ Stop({s}, "requested", cancellationReach(s))

(* Scopes are visited parents first, so one below an expired scope stops   *)
(* with its ancestor's request even when its own deadline passed too.      *)
expireDeadlines ==
    /\ Idle
    /\ LET expired == {s \in nodes : status[s] = "active" /\ now >= deadline[s]}
           below   == UNION {cancellationReach(s) : s \in expired}
       IN  Stop(expired \ below, "deadline-exceeded", below)

cancellationBoundary(s, enabled) ==
    /\ Idle
    /\ s \in nodes /\ s # Root /\ status[s] = "active"
    /\ \/ /\ enabled
          /\ cancellationBoundaries' = cancellationBoundaries \cup {s}
       \/ /\ ~ enabled
          /\ Parent[s] \in nodes /\ status[Parent[s]] = "active"
          /\ cancellationBoundaries' = cancellationBoundaries \ {s}
    /\ UNCHANGED <<nodes, status, reason, deadline, liveCount, effectVars, result,
                   retentionVars, loopVars, now>>

------------------------------------------------------------------------------
(* Recording effects                                                       *)

Learn(S, e) == known' = [s \in Scopes |-> IF s \in S THEN worstEffect(known[s], e) ELSE known[s]]

foldInto(S, e) ==
    settledDescendantEffect' = [s \in Scopes |->
        IF s \in S THEN worstEffect(settledDescendantEffect[s], e)
        ELSE settledDescendantEffect[s]]

foldIntoParent(s, e) == foldInto({a \in ancestorIdsOf(s) : s \in children(a)}, e)
foldIntoAncestors(s, e) == foldInto(ancestorIdsOf(s), e)

(* recordEffect, and recordLateEffect while the scope is live.             *)
recordEffect(s, e) ==
    /\ Idle
    /\ Live(s)
    /\ effect' = [effect EXCEPT ![s] = worstEffect(effect[s], e)]
    /\ Learn({s} \cup Ancestors[s], e)
    /\ UNCHANGED <<treeVars, settledDescendantEffect, result, retentionVars, loopVars, now>>

(* recordLateEffect for a scope that settled: its own outcome is frozen,   *)
(* the ancestors take the effect; an evicted scope has only its tombstone. *)
recordLateEffect(s, e) ==
    /\ Idle
    /\ \/ s \in nodes /\ status[s] = "terminal" /\ foldIntoAncestors(s, e)
       \/ /\ s \notin nodes /\ hasTombstone(s)
          /\ foldInto(tombstones[tombstoneIndex(s)].ancestors \cap nodes, e)
    /\ Learn(Ancestors[s] \cap nodes, e)
    /\ UNCHANGED <<treeVars, effect, result, retentionVars, loopVars, now>>

------------------------------------------------------------------------------
(* Settling and retention                                                  *)

(* settle(): freeze the outcome, fold the total effect into every          *)
(* ancestor, append to the retention window, start trimming it.            *)
settle(s, final) ==
    /\ status' = [status EXCEPT ![s] = "terminal"]
    /\ result' = [result EXCEPT ![s] = final]
    /\ liveCount' = liveCount - 1
    /\ foldIntoAncestors(s, totalEffectOf(s))
    /\ retained' = Append(retained, s)
    /\ trim' = 1
    /\ UNCHANGED <<nodes, reason, deadline, cancellationBoundaries, effect, known, tombstones,
                   now>>

complete(s) ==
    Idle /\ Live(s) /\ settle(s, outcome("completed", CompletedEffect)) /\ UNCHANGED forcing

fail(s) == Idle /\ Live(s) /\ settle(s, outcome("failed", effect[s])) /\ UNCHANGED forcing

acknowledge(s) ==
    /\ Idle /\ Live(s)
    /\ settle(s, IF reason[s] = "deadline-exceeded" THEN timeoutOutcomeFor(effect[s])
                 ELSE cancellationOutcomeFor(effect[s]))
    /\ UNCHANGED forcing

(* forceSettleUnacknowledged settles every scope that is not terminal, in  *)
(* the order they were opened: parents before children.                    *)
forceSettleUnacknowledged ==
    /\ Idle
    /\ forcing' = {s \in nodes : status[s] # "terminal"}
    /\ UNCHANGED <<treeVars, effectVars, result, retentionVars, trim, now>>

forceSettle(s) ==
    /\ trim = 0
    /\ s \in forcing /\ Ancestors[s] \cap forcing = {}
    /\ forcing' = forcing \ {s}
    /\ settle(s, outcome("uncertain", UncertainEffect))

(* One iteration of trimRetained's loop.                                   *)
TrimGoesOn == trim > 0 /\ Len(retained) - (trim - 1) > MaxRetained /\ trim <= Len(retained)

remembered(s) ==
    LET order == Append(forgetTombstone(s), [scope |-> s, ancestors |-> ancestorIdsOf(s)])
    IN  IF Len(order) > MaxTombstones THEN Tail(order) ELSE order

(* The node and all it held are deleted: a scope that reuses the           *)
(* identifier starts afresh.                                               *)
evict(s) ==
    /\ children(s) = {}
    /\ nodes' = nodes \ {s}
    /\ cancellationBoundaries' = cancellationBoundaries \ {s}
    /\ tombstones' = remembered(s)
    /\ retained' = RemoveIndex(retained, trim)
    /\ status' = [status EXCEPT ![s] = "active"]
    /\ reason' = [reason EXCEPT ![s] = "none"]
    /\ effect' = [effect EXCEPT ![s] = NoEffect]
    /\ settledDescendantEffect' = [settledDescendantEffect EXCEPT ![s] = NoEffect]
    /\ known' = [known EXCEPT ![s] = NoEffect]
    /\ result' = [result EXCEPT ![s] = NoOutcome]
    /\ deadline' = [deadline EXCEPT ![s] = RequestedDeadline[s]]
    /\ UNCHANGED <<liveCount, loopVars, now>>

TrimEvict == TrimGoesOn /\ retained[trim] \in nodes /\ evict(retained[trim])

(* Still has children in memory: try the next oldest.                      *)
TrimSkip ==
    /\ TrimGoesOn
    /\ retained[trim] \in nodes /\ children(retained[trim]) # {}
    /\ trim' = trim + 1
    /\ UNCHANGED <<treeVars, effectVars, result, retentionVars, forcing, now>>

TrimEnd ==
    /\ trim > 0 /\ ~ TrimGoesOn
    /\ trim' = 0
    /\ UNCHANGED <<treeVars, effectVars, result, retentionVars, forcing, now>>

Tick ==
    /\ Idle /\ now < MaxTime
    /\ now' = now + 1
    /\ UNCHANGED <<treeVars, effectVars, result, retentionVars, loopVars>>

------------------------------------------------------------------------------
Next ==
    \/ \E s \in Scopes :
          \/ derive(s) \/ cancel(s) \/ cancellationBoundary(s, TRUE)
          \/ cancellationBoundary(s, FALSE)
          \/ complete(s) \/ fail(s) \/ acknowledge(s) \/ forceSettle(s)
          \/ \E e \in Reported : recordEffect(s, e) \/ recordLateEffect(s, e)
    \/ expireDeadlines \/ forceSettleUnacknowledged
    \/ TrimEvict \/ TrimSkip \/ TrimEnd
    \/ Tick

Spec == Init /\ [][Next]_vars

------------------------------------------------------------------------------
(* Properties                                                              *)

(* Eviction never orphans a scope in memory: settle's comment that the     *)
(* ancestor chain is always intact, in whatever order scopes settled.      *)
ChainIntact == \A s \in nodes : Ancestors[s] \subseteq nodes

(* The retention window lists exactly the settled scopes in memory, each   *)
(* once, so trimming can never evict a live scope that reuses an           *)
(* identifier; and the live count the limit is tested on is exact.         *)
RetentionExact ==
    /\ {retained[i] : i \in 1 .. Len(retained)} = {s \in nodes : status[s] = "terminal"}
    /\ \A i, j \in 1 .. Len(retained) : retained[i] = retained[j] => i = j
    /\ liveCount = Cardinality({s \in nodes : status[s] # "terminal"})
    /\ liveCount <= MaxLive /\ Len(tombstones) <= MaxTombstones

(* Once a scope was asked to stop, nothing below it is still active unless *)
(* a cancellation boundary shelters it: neither a child derived late nor   *)
(* one whose boundary was lifted escapes its ancestor's stop.              *)
NoEscape ==
    \A s \in nodes : status[s] = "active" =>
        \A a \in Ancestors[s] : reason[a] # "none" => Path(a, s) \cap cancellationBoundaries # {}

(* An effect the tree accepted is reported by every ancestor still in      *)
(* memory, however the scopes below settled and were evicted since.        *)
EffectNeverLost == \A a \in nodes : subtreeEffectAtLeast(a, known[a])

(* While a scope is in memory its effects only get worse, and a terminal   *)
(* one keeps the outcome, own effect and reason a caller may have read.    *)
SettledIsFrozen ==
    [][\A s \in nodes \cap nodes' :
          /\ effect'[s] >= effect[s]
          /\ settledDescendantEffect'[s] >= settledDescendantEffect[s]
          /\ status[s] = "terminal" =>
                /\ status'[s] = "terminal" /\ result'[s] = result[s]
                /\ effect'[s] = effect[s] /\ reason'[s] = reason[s]]_vars

(* outcome.ts: an uncertain effect "must be inspected before a retry" and  *)
(* is "never downgraded": a scope whose outcome requires inspection        *)
(* reports that it does.                                                   *)
ReportAgrees ==
    \A s \in nodes : (status[s] = "terminal" /\ requiresInspection(result[s].effect))
        => subtreeEffectAtLeast(s, PartialEffect)
==============================================================================
