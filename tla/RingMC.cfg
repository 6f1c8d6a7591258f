SPECIFICATION FairSpec
CONSTANTS
  r1 = r1
  r2 = r2
  Data = {r1, r2}
  Torn = Torn
  N = 2
  Laps = 4
INVARIANTS
  NoSlotRace
  HighWaterBounds
  IndInv
PROPERTIES
  ImplementsFifo
  Delivered
CHECK_DEADLOCK TRUE
