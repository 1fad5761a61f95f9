SPECIFICATION Spec
CONSTANTS
  Requests = {r1}
  Calls = {k1, k2}
  Notes = {n1}
  QueueLimit = 1
  NoteLimit = 1
  MaxHandlers = 1
  None = None
INVARIANTS TypeOK ConnectionSound
PROPERTIES EveryWaitEnds
\* A connection ends.
CHECK_DEADLOCK FALSE
