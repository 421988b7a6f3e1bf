CONSTANTS
  File = {"f"}
  UserName = {"f"}
  Bounds <- MCBounds
SPECIFICATION SpecTame
VIEW Real
INVARIANTS NoStaleBuffer ScreenFilled
PROPERTIES StaysShown
