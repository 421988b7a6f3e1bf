CONSTANTS
  Buffers <- MCBuffers
  Begin <- MCBegin
  Height = 4
  Columns <- MCColumns
  CO = 8
  ScrollWidth = 3
  ScrollStep = 1
  Limits <- MCLimits
SPECIFICATION Spec
INVARIANTS NotLost ScreenRight DotShown
CHECK_DEADLOCK FALSE
