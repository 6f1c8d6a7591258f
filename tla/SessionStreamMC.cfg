SPECIFICATION Spec
CONSTANTS
  hat = hat
  wheel = wheel
  v1 = v1
  v2 = v2
  anon = anon
  bpm = bpm
  unset = unset
  Ctrl = {hat, wheel}
  Val = {v1, v2}
  Unset = unset
  Ref = {anon}
  Click = {bpm}
  PauseMs = 1
  IdleMs = 2
  UsPerMs = 2
  U32 = 64
  U64 = 256
  MaxUs = 6
  TrigLags <- Lags
  BeatLead = {1}
INVARIANTS
  TypeOK
  NothingToWarnOf
  HitsSeeTheKit
  SpansAgree
  AnchorsInPlace
PROPERTIES
  StampsExact
  KeepsProtocol
SYMMETRY CtrlSymmetry
