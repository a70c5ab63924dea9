SPECIFICATION Spec
CONSTANTS
  IndexModulus = 4
  MaxOutstanding = 2
INVARIANTS
  NoLostWakeup
PROPERTIES
  RequestsReturn
