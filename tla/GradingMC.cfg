SPECIFICATION Spec
CONSTANTS
  MaxTime = 2
  MaxHits = 4
  MaxDecls = 2
  Grids <- TwoGrids
  Notes = {"snare", "kick"}
  Lane <- Profile
  Calibrations = {1}
INVARIANTS
  GradedByTheGridInForce
  SpansInOrder
  NearestOfAll
  PairsAreStrokes
  HitsCountOnce
CHECK_DEADLOCK FALSE
