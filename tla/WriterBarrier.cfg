SPECIFICATION Spec
CONSTANTS
  Frontends = {f1, f2}
  Writers = {w1}
  Tools = {t1}
  MaxOps = 4
  None = None
INVARIANTS TypeOK RewindAlone CommitsWhatWasPreviewed
PROPERTIES EverybodyReturns
\* No operation left to begin.
CHECK_DEADLOCK FALSE
