SPECIFICATION Spec
CONSTANTS
  None = None
  h = h  x = x  y = y  gh = gh  gx = gx  gy = gy
  k1 = k1  k2 = k2  global = global
  Units <- MCUnits
  Gens = {gh, gx, gy}
  GenOf <- MCGenOf
  Index <- MCZero
  Id <- MCZero
  DepIds <- MCNoDeps
  Keys = {k1, k2, global}
  GlobalKey = global
  ConflictKeys <- MCConflictKeys
  Observations = {}
  Priority <- MCPriority
  DeadlineOf <- MCForever
  Scopes = {}
  ScopeOf <- MCNoScope
  Admission <- MCReady
  MaxConcurrent = 8
  MaxConcurrentPerKey = 1
  LockTimeout = 1
  StarvationThreshold = 8
  ReservedInteractive = 0
  MaxQueued = 9
  Budget = 9
  MaxTime = 1
INVARIANTS
  NoMissedWakeUp
CHECK_DEADLOCK FALSE
