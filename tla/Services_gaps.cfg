SPECIFICATION ServicesSpec
CONSTANTS
  p1 = p1
  b1 = b1
  m1 = m1
  m2 = m2
  m3 = m3
  None = none
  Off = off
  IngestTries = 2
  Askers = {q1, q2}
  ScoreTries = 2
  MaxInputs = 2
  MaxAsked = 2
  Callers = {q1, q2}
  Limit = 1
  MAX_RATE_LIMIT_WAITS = 2
  MaxDays = 2
  MaxCalls = 2
  Resumes <- MCResumes
  Facts <- MCFacts
  Drafts <- MCDrafts
  Letters <- MCLetters
  MaxEdits = 1
  Models = {m1, m2, m3}
  Dim <- MCDim
  Processes = {n1, n2}
  MaxStarts = 3
  MaxDeploys = 2
  Apps = {a1, a2}
  Lone = {a1}
  Attempts = {t1, t2}
  Clients = {c1}
  Moves = {"applied", "withdrawn", "saved"}
  UserLimit = 1
  TotalLimit = 2
  MaxOthers = 1
  GapSkills = {s1}
  Roadmaps = {1, 2}
  MaxMilestones = 2
  PlanTries = 2
  Patchers = {p1, p2}
  Rebuilds = {b1, b2}
  Editors = {q1, q2}
  MaxEntries = 3
  CVs = {r1}
  KnownSkills = {s1}
  SkillTarget = 1
  MaxRequests = 3
  Contents <- MCContents
  Diffs = {q1}
  MaxVersions = 2
  Blocks = {1, 2, 3}
  SkillLabels <- MCSkillLabels
  Starters <- MCStarters
  Postings <- MCPostings
  NewTitles <- MCNewTitles
  Likes <- MCLikes
  YearsCap = 1
  Catalogues <- MCCatalogues
  People <- MCPeople
  Courses <- MCCourses
  Additions <- MCAdditions
  CoreSkills = 2
  MaxSteps = 2
  MaxPaths = 2
  BlockOwners <- MCOwners
  Sizes <- MCSizes
  Likeness <- MCLikeness
  TopN = 3
  TopK = 3
  Budget = 8
  Person = person
  Bystander = bystander
  Shared = shared
  Busy = {"skill_gaps", "profile_experiences", "jobs"}
INVARIANT PreferredGapsListed
CHECK_DEADLOCK FALSE
