SPECIFICATION SettlesSpec
CONSTANTS
  Goals <- AllGoals
  MaxSteps = 4
  MaxLlmCalls = 2
  MaxTries = 1
  MayStop = TRUE
  ann = ann
  d1 = d1
  r1 = r1
  q1 = q1
  q2 = q2
  p1 = p1
  b1 = b1
  s1 = s1
  Agent = agent
  NoOne = noone
  Off = off
PROPERTIES
  SendingSettles
  RunningSettles
  MatchingSettles
CHECK_DEADLOCK FALSE
