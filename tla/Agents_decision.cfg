SPECIFICATION AgentsSpec
CONSTANTS
  p1 = p1
  p2 = p2
  Posters <- MCOnePoster
  MaxRuns = 2
  Goals = {"prepare_application"}
  MaxSteps = 24
  MaxLlmCalls = 12
  MaxTries = 2
  MayStop = FALSE
INVARIANTS
  DecisionReachesItsRun
CHECK_DEADLOCK FALSE
