SPECIFICATION FairSpec
CONSTANTS
  Requests <- MCRequests
  Size <- MCSize
  Coalescable <- MCCoalescable
  MergeKey <- MCMergeKey
  NoKey = "null"
  maxItems = 2
  maxBytes = 3
  maxItemAge = 1
  Policies = {"reject", "wait", "spill", "coalesce"}
INVARIANTS
  Bounded
  NothingLost
  OldestFirst
PROPERTIES
  WaitEnds
