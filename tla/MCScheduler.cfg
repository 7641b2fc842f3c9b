SPECIFICATION Spec
CONSTANTS
  None = None
  a = a  b = b  d = d  o = o
  g1 = g1  g2 = g2
  k = k  global = global  s = s
  Units <- MCUnits
  Gens <- MCGens
  GenOf <- MCGenOf
  Index <- MCIndex
  Id <- MCId
  DepIds <- MCDepIds
  Keys <- MCKeys
  GlobalKey = global
  ConflictKeys <- MCConflictKeys
  Observations <- MCObservations
  Priority <- MCPriority
  DeadlineOf <- MCDeadlineOf
  Scopes = {s}
  ScopeOf <- MCScopeOf
  Admission <- MCAdmission
  MaxConcurrent = 2
  MaxConcurrentPerKey = 1
  LockTimeout = 1
  StarvationThreshold = 1
  ReservedInteractive = 1
  MaxQueued = 3
  Budget = 3
  MaxTime = 2
INVARIANTS
  Accounting
  CapsRespected
  DependencyOrder
  EffectHonest
  QueueHonest
  StopIsHeard
PROPERTIES
  SettledIsFinal
  ImplementsWorkAdmission
CHECK_DEADLOCK FALSE
