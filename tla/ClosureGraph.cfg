SPECIFICATION Spec
CONSTANTS
  Artifacts = {a1, a2, a3}
  Unknown = Unknown
  MaxUnknown = 1
INVARIANTS
  ValidationExact
PROPERTIES
  Terminates
CHECK_DEADLOCK FALSE
