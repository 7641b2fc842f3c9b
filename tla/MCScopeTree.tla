----------------------------- MODULE MCScopeTree -----------------------------
(***************************************************************************)
(* A chain of scopes with room for one tombstone and for no settled scope  *)
(* that holds no other: scopes settle in any order, are evicted as soon as *)
(* nothing is below them, their identifiers are reused, tombstones are     *)
(* displaced, and effects arrive before, at and after all of that.  The    *)
(* last scope of the chain is beyond the depth limit; one scope expires    *)
(* before its ancestor.                                                    *)
(***************************************************************************)
EXTENDS ScopeTree, TLC

CONSTANTS r, a, b, d

MCScopes    == {r, a, b, d}
MCParent    == a :> r @@ b :> a @@ d :> b
MCAncestors == r :> {} @@ a :> {r} @@ b :> {r, a} @@ d :> {r, a, b}
MCDeadlines == r :> 2 @@ a :> 1 @@ b :> 2 @@ d :> 2
MCReported  == {UncertainEffect}
==============================================================================
