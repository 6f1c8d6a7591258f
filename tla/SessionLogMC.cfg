SPECIFICATION Spec
CONSTANTS
  Data = {}
  Time = {0, 1, 2, 3}
  N = 2
  SyncEvery = 2
  Latch = 3
  MaxFaults = 3
  MaxSessions = 2
  MaxCrashes = 1
INVARIANTS
  TypeOK
  CleanLogsRecover
  LogsHoldOneSession
  CaughtUpMeansComplete
PROPERTIES
  FailSoft
  EventuallyDurable
CHECK_DEADLOCK FALSE
