CONSTANTS
  NULL = NULL
  f = f
  g = g
  Stems <- MCStems
  MaxTmp = 1
  Inodes <- MCInodes
  Buffers <- MCBuffers
  Links <- MCLinks
  BkupOnWrite = TRUE
  Limits <- MCLimits
SPECIFICATION Spec
INVARIANTS SavedIsSaved BackupHolds
PROPERTIES NoSilentLoss
CHECK_DEADLOCK FALSE
