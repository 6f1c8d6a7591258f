SPECIFICATION Spec
CONSTANTS
  Order <- TwoFiles
  Content <- FirstEmpty
  FetchMax = 2
  CrcMax = 2
  ListMax = 2
  Unreadable <- Empty
  Local <- NoFiles
  Partial <- NoFiles
  Retries = 1
  MaxFaults = 0
  MaxRms = 0
PROPERTIES
  OthersConverge
CHECK_DEADLOCK FALSE
