CONSTANTS
  NLines = 9
  Char = {a, b}
  NL = NL
  LBSIZE = 3
  Mark = {m1}
  MaxText = 3
  MaxKill = 2
SPECIFICATION Spec
SYMMETRY Alike
VIEW Contents
INVARIANTS Linked
PROPERTIES Implements
