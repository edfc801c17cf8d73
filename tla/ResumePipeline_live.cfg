CONSTANTS
  e1 = e1
  e2 = e2
  Extracts <- MCExtracts
  MaxTries = 1
  MaxReprocess = 1
  CommitsInTime = FALSE
CHECK_DEADLOCK FALSE
SPECIFICATION FairSpec
PROPERTY ResumeSettles
