SPECIFICATION FairSpec
CONSTANTS
  None = None
  a = a  b = b  d = d
  g1 = g1  g2 = g2
  k = k  global = global
  Units <- MCUnits
  Gens <- MCGens
  GenOf <- MCGenOf
  Index <- MCIndex
  Id <- MCId
  DepIds <- MCDepIds
  Keys <- MCKeys
  GlobalKey = global
  ConflictKeys <- MCConflictKeys
  Observations = {}
  Priority <- MCPriority
  DeadlineOf <- MCDeadlineOf
  Scopes = {}
  ScopeOf <- MCScopeOf
  Admission <- MCAdmission
  MaxConcurrent = 1
  MaxConcurrentPerKey = 1
  LockTimeout = 1
  StarvationThreshold = 8
  ReservedInteractive = 0
  MaxQueued = 2
  Budget = 4
  MaxTime = 2
PROPERTIES
  WaitIsBounded
  AbortReturns
  OrderedGenerationReturns
CHECK_DEADLOCK FALSE
