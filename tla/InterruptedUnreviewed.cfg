SPECIFICATION Spec
CONSTANTS
  j1 = j1
  a1 = a1
  Jobs <- MCJobs
  Acquirers <- MCAcquirers
  Requests <- MCRequests
  Writes = {w1}
  Paths = {1}
  MaxTotal = 1
  MaxWriters = 1
  Sessions = {s1, s2}
  MaxRestarts = 1
  None = None
INVARIANT MutationsAwaitReview
\* No call left to make.
CHECK_DEADLOCK FALSE
