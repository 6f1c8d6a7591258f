SPECIFICATION Spec
CONSTANTS
  Order <- TwoFiles
  Content <- Closed
  FetchMax = 2
  CrcMax = 2
  ListMax = 2
  Unreadable = {}
  Local <- LocalFiles
  Partial <- PartialFiles
  Retries = 1
  MaxFaults = 2
  MaxRms = 1
INVARIANTS
  ReplicaExact
  VerdictsGenuine
  CleanSyncsSucceed
PROPERTIES
  Converges
CHECK_DEADLOCK FALSE
