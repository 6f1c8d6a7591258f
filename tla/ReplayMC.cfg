CONSTANT
  Lines <- Files
SPECIFICATION Spec
INVARIANTS
  ReplayTells
  ReaderAgrees
CHECK_DEADLOCK FALSE
