CONSTANTS
  Buffers <- MCBuffers
  MaxLines = 6
  CHUNKSIZE = 4
  NUMKILLS = 3
  NMARKS = 2
  MaxText = 4
  Limits <- MCLimits
SPECIFICATION Spec
INVARIANT NothingDangles
CHECK_DEADLOCK FALSE
