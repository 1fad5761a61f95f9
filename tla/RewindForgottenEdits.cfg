SPECIFICATION Spec
CONSTANTS
  Files = {1, 2}
  Scopes = {"code", "conversation"}
  MaxTurns = 2
  MaxTransactions = 2
  MaxEdits = 0
  MaxDisturbances = 0
INVARIANTS CodeRewindUndoesEveryEdit
\* The program may stop for good: no turn left to run, nothing to recover.
CHECK_DEADLOCK FALSE
