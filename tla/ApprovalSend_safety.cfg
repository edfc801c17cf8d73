SPECIFICATION Spec
CONSTANTS
  d1 = d1
  d2 = d2
  r1 = r1
  r2 = r2
  ann = ann
  bob = bob
  Deciders <- MCDeciders
  Retriers <- MCRetriers
  Recipients <- MCRecipients
  Agent = agent
  NoOne = noone
  Deadline = 1
  Grace = 2
  Stale = 3
  MaxTries = 3
SYMMETRY Symmetry
INVARIANTS TypeOK OneAttemptInFlight AgentSendsOnce OnlyApprovedIsSent SentWasAccepted
PROPERTIES SentIsFinal DeliversOnce
CHECK_DEADLOCK FALSE
