SPECIFICATION AgentsSpec
CONSTANTS
  p1 = p1
  p2 = p2
  Posters <- MCPosters
  MaxRuns = 2
  Goals = {"prepare_application"}
  MaxSteps = 24
  MaxLlmCalls = 12
  MaxTries = 2
  MayStop = FALSE
SYMMETRY Symmetry
VIEW WithoutCounters
INVARIANTS
  TypeOK
  OwnApproval
  AwaitingIsDecidable
  RunIsApproved
  CompletedWasDelivered
CHECK_DEADLOCK FALSE
