SPECIFICATION Spec
CONSTANTS
  a = a
  b = b
  c = c
  t = t
  u = u
  Candidates <- MCCandidates
  Task <- MCTask
  Plans <- MCPlans
  MAX_ATTEMPTS = 2
  Concurrency = 1
INVARIANTS
  OtherMeansOther
CHECK_DEADLOCK FALSE
