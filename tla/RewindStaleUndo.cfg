SPECIFICATION Spec
CONSTANTS
  Files = {1}
  Scopes = {"conversation"}
  MaxTurns = 2
  MaxTransactions = 2
  MaxEdits = 0
  MaxDisturbances = 0
PROPERTIES LaterWorkKept
\* The program may stop for good: no turn left to run, nothing to recover.
CHECK_DEADLOCK FALSE
