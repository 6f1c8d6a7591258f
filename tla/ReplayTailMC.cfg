CONSTANT
  Lines <- Files
SPECIFICATION Spec
INVARIANT
  BadTailIsDropped
CHECK_DEADLOCK FALSE
