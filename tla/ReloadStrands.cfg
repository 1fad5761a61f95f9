SPECIFICATION Spec
CONSTANTS
  Controllers = {c1, c2}
  Inputs = {i1}
  Commands = {k1}
  Dirs = {d1}
  None = None
  MaxCrashes = 0
INVARIANTS ReloadIsFailAtomic
\* The user may stop submitting, and the server may have shut down.
CHECK_DEADLOCK FALSE
