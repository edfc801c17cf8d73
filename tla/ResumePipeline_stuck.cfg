CONSTANTS
  e1 = e1
  e2 = e2
  Extracts <- MCOneExtract
  MaxTries = 3
  MaxReprocess = 0
  CommitsInTime = TRUE
CHECK_DEADLOCK FALSE
SPECIFICATION Spec
INVARIANT StuckOnlyUnseen
