SPECIFICATION Spec
CONSTANTS
  Data = {}
  Time = {0, 1, 2, 3}
  N = 2
  SyncEvery = 2
  Latch = 3
  MaxFaults = 1
  MaxSessions = 1
  MaxCrashes = 0
INVARIANTS
  SyncedLinesAreValid
CHECK_DEADLOCK FALSE
