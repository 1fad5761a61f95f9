SPECIFICATION Spec
CONSTANTS
  Processes = {p1, p2}
  Callers = {c1, c2}
  Entries = {e1, e2, e3}
  None = None
INVARIANTS TypeOK OneOwnerPerProcess HeldMeansLocked RegistryReclaimed TokenReachesWaiters
PROPERTIES SomeoneGetsIn
