SPECIFICATION Spec
CONSTANTS
  MaxTime = 2
  MaxMsgs = 3
  MaxBreaks = 2
  MaxFaults = 2
INVARIANTS
  AlwaysRecoverable
  KeptUpToInterrupt
  ClosedProperly
PROPERTIES
  Ends
CHECK_DEADLOCK FALSE
