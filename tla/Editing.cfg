CONSTANTS
  Order <- MCOrder
  Idents <- MCIdents
  Keys <- MCKeys
  Jobs <- MCAllJobs
  MarkThresh = 1
  BUFSIZ = 12
  tabstop = 4
  LMargin = 0
  RMargin = 6
  CIndIncrmt = 2
SPECIFICATION EditingSpec
INVARIANTS SearchFinds Honest Substituted TagFound WordsKept Filled ParensMatch Completed
PROPERTY CommandsEnd
CHECK_DEADLOCK FALSE
