CONSTANTS
  NBuffers = 2
  Line = {"", "x"}
  Empty = ""
  SyncFreq = 2
  MaxCount = 3
  MaxLines = 3
  MaxAddr = 4
SPECIFICATION Spec
CONSTRAINT NotGivenUp
INVARIANTS RecoversSnapshot  SignalLosesNothing
CHECK_DEADLOCK FALSE
