SPECIFICATION FairSpec
CONSTANTS
  r = r  a = a b = b p = p  q = q
  Phases <- MCPhases
  CancelPhase = "cancel-root-scope"
  Participants = {p, q}
  PhaseOf <- MCPhaseOf
  MaxParticipants = 2
  Grace <- MCGrace
  MaxInterrupts = 5
  Scopes <- MCScopes
  Root = r
  Parent <- MCParent
  Ancestors <- MCAncestors
  RequestedDeadline <- MCDeadlines
  Reported = {}
  MaxDepth = 3
  MaxLive = 2
  MaxRetained = 1
  MaxTombstones = 1
  MaxTime = 0
INVARIANTS
  NothingSurvives
  ActiveIsSheltered
  ReportHonest
  GraceHonoured
  InterruptsHeard
PROPERTIES
  GraceOnlyShrinks
  ShutdownEnds
CHECK_DEADLOCK FALSE
