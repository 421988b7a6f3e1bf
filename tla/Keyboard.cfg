CONSTANTS
  NCHARS = 3
  KEYMAP_QUANTUM = 2
  SPARSE_LIMIT = 2
  KEYMAX = 2
  Commands <- MCCommands
  Bindable <- MCBindable
  First <- MCFirst
  Buffers = {101, 102}
  ProcBufs = {101}
  Ops = 2
  Looks = 1
SPECIFICATION KeyboardSpec
INVARIANTS Replays Owned
PROPERTIES MacrosEnd Binds Dispatched
CHECK_DEADLOCK FALSE
