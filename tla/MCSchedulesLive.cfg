SPECIFICATION FairSpec
CONSTANTS
  Hosts = {h1, h2}
  h1 = h1  h2 = h2
  NoHost = NoHost
  Slots = {1}
  OverlapOf <- MCOverlapOf
  Limit = 1
  RetireBatch = 1
  MaxGeneration = 1
  MaxStops = 2
PROPERTIES
  DeadIsSettled
  CancelReaches
CHECK_DEADLOCK FALSE
