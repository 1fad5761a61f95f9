SPECIFICATION Spec
CONSTANTS
  p1 = p1
  p2 = p2
  s1 = s1
  s2 = s2
  None = None
  Owners <- MCOwners
  Callers <- MCCallers
  MaxRuns = 3
  MaxJobs = 1
INVARIANTS TypeOK WritersExclusive NothingLeaks OneLeader
PROPERTIES Answered
\* No run left to begin.
CHECK_DEADLOCK FALSE
