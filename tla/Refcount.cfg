SPECIFICATION Spec
CONSTANTS
  Threads = {t1, t2, t3}
  Refs = {r1, r2, r3}
  None = None
  MAX = 4
INVARIANTS
  ReferencesExact
PROPERTIES
  Progress
CHECK_DEADLOCK FALSE
