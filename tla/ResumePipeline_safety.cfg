CONSTANTS
  e1 = e1
  e2 = e2
  Extracts <- MCExtracts
  MaxTries = 2
  MaxReprocess = 1
  CommitsInTime = TRUE
CHECK_DEADLOCK FALSE
SPECIFICATION Spec
SYMMETRY Symmetry
INVARIANTS
  TypeOK
  WorkHasAJob
  WatcherWillKnow
