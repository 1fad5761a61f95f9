SPECIFICATION Spec
CONSTANTS
  j1 = j1
  a1 = a1
  Jobs <- MCJobs
  Acquirers <- MCAcquirers
  Requests <- MCRequests
  Writes = {w1}
  Paths = {1}
  MaxTotal = 1
  MaxWriters = 1
  Sessions = {s1, s2}
  MaxRestarts = 1
  None = None
INVARIANTS TypeOK SlotsAccounted ClaimsDisjoint NoLostWakeup EvidenceKept TerminalImpliesNoted NotesHaveJobs
PROPERTIES JobsEnd
\* No call left to make.
CHECK_DEADLOCK FALSE
