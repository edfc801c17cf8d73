SPECIFICATION AccountSpec
CONSTANTS
  Uploads = {u1, u2}
  Runs = {r1, r2}
  Traces = {t1}
  Deleters = {d1, d2}
  None = none
  Requests = {q1, q2}
  MaxTokens = 3
  MaxLinks = 2
  MaxIssued = 4
  MaxPasswords = 2
  MaxPerHour = 1
INVARIANT NothingRemains
CHECK_DEADLOCK FALSE
