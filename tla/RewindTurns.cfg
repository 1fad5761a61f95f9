SPECIFICATION Spec
CONSTANTS
  Files = {1}
  Scopes = {"code","conversation","both","file"}
  MaxTurns = 2
  MaxTransactions = 3
  MaxEdits = 0
  MaxDisturbances = 1
CONSTRAINT NotAllAtOnce
INVARIANTS CheckpointsMatchConversation OneFaultSettles
PROPERTIES CommitIsWhole ImplementsAtomicRewind
\* The program may stop for good: no turn left to run, nothing to recover.
CHECK_DEADLOCK FALSE
