SPECIFICATION ControlSpec
CONSTANTS
  anon = anon
  Anonymous = anon
  Ref = {anon}
  Ctrl = {}
  Val = {}
  Unset = unset
  Click = {2}
  PauseMs = 1
  IdleMs = 2
  UsPerMs = 1
  U32 = 64
  U64 = 256
  MaxUs = 2
  TrigLags <- GestureLags
  BeatLead = {0, 1, 2, 3}
  ChordMs = 1
  SeqGapMs = 0
  CountWrap = 256
  BeatUnit = 3
  StartLeadUs = 0
  QueueLen = 1
  LoopUs = 1
  MaxTyped = 2
  MaxChords = 4
INVARIANTS
  GesturesBelong
  SnapshotFresh
CHECK_DEADLOCK FALSE
PROPERTIES
  DownbeatInPlace
  ImplementsStream
