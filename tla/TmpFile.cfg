CONSTANTS
  NBUF = 2
  BLK_CHNKS = 3
  MAX_BLOCKS = 4
  Line = {"short", "middle", "long"}
  LineLen <- MCLineLen
  NoBlock = NoBlock
SPECIFICATION Spec
INVARIANTS ReadBack Coherent NoWrap
PROPERTIES DurableStays SyncSaves Implements
CHECK_DEADLOCK FALSE
