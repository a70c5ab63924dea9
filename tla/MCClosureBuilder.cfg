SPECIFICATION Spec
INVARIANTS
  MemoryExact
  SealExact
PROPERTIES
  FailureChangesNothing
