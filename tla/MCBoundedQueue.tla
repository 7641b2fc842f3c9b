-------------------------- MODULE MCBoundedQueue --------------------------
(* Five requests for a queue of two items and three bytes: small and large *)
(* ones, one that can never fit, display-only ones that may merge and a    *)
(* semantic one with the same merge key.                                   *)
EXTENDS BoundedQueue

MCRequests == 1 .. 5
MCSize == <<1, 1, 2, 3, 4>>
MCCoalescable == {1, 3, 5}
MCMergeKey == <<"delta", "delta", "delta", "null", "delta">>
============================================================================
