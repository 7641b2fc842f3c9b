SPECIFICATION Spec
CONSTANTS
  Hosts = {h1, h2}
  h1 = h1  h2 = h2
  NoHost = NoHost
  Slots = {1, 2}
  OverlapOf <- MCOverlapOf
  Limit = 2
  RetireBatch = 1
  MaxGeneration = 2
  MaxStops = 1
SYMMETRY HostSymmetry
INVARIANTS
  AtMostOnce
  LiveIsNotLost
  OneQueued
PROPERTIES
  UncertainHolds
  VerdictIsFinal
CHECK_DEADLOCK FALSE
