SPECIFICATION Spec
CONSTANTS
  Controllers = {c1, c2}
  Inputs = {i1, i2, i3}
  Commands = {k1}
  Dirs = {d1, d2}
  None = None
  MaxCrashes = 1
INVARIANTS TypeOK OneTurnAtATime DirectoryShared
PROPERTIES NoSlippingIn
\* The user may stop submitting, and the server may have shut down.
CHECK_DEADLOCK FALSE
