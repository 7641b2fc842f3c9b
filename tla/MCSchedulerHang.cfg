SPECIFICATION FairRunnersSpec
CONSTANTS
  None = None
  a = a  x = x  y = y  g = g  global = global
  Units <- MCUnits
  Gens = {g}
  GenOf <- MCGenOf
  Index <- MCIndex
  Id <- MCId
  DepIds <- MCDepIds
  Keys = {global}
  GlobalKey = global
  ConflictKeys <- MCNoKeys
  Observations <- MCUnits
  Priority <- MCSame
  DeadlineOf <- MCForever
  Scopes = {}
  ScopeOf <- MCNoScope
  Admission <- MCReady
  MaxConcurrent = 2
  MaxConcurrentPerKey = 1
  LockTimeout = 1
  StarvationThreshold = 8
  ReservedInteractive = 0
  MaxQueued = 9
  Budget = 1
  MaxTime = 2
PROPERTIES
  EveryUnitSettles
CHECK_DEADLOCK FALSE
