CONSTANTS
  Ids <- Names
  Registries <- Graphs
  Requests <- Metrics
  Profiles <- Kits
SPECIFICATION Spec
INVARIANTS
  ResolvesExactly
  RefusedExactly
  QualityInherited
CHECK_DEADLOCK FALSE
