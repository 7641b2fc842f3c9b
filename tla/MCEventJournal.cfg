SPECIFICATION Spec
CONSTANTS
  j1 = j1
  j2 = j2
  Journals = {j1, j2}
  Batches <- MCBatches
  Checkpoints <- MCCheckpoints
  MaxCalls = 4
  MaxFaults = 1
SYMMETRY JournalSymmetry
CHECK_DEADLOCK FALSE
INVARIANTS
  LogSound
  PersistedIsStored
  PrefixStored
  NotifiedOnce
  NeverAhead
PROPERTY
  ImplementsEventStream
