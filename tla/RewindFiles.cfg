SPECIFICATION Spec
CONSTANTS
  Files = {1, 2}
  Scopes = {"both"}
  MaxTurns = 1
  MaxTransactions = 2
  MaxEdits = 1
  MaxDisturbances = 2
CONSTRAINT EditsAreDisturbances
INVARIANTS TypeOK TemporariesOwned
PROPERTIES ImplementsAtomicRewind AbortIsWhole ForeignContentKept Completes
\* The program may stop for good: no turn left to run, nothing to recover.
CHECK_DEADLOCK FALSE
