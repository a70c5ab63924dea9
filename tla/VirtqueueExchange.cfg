SPECIFICATION Spec
CONSTANTS
  QueueSize = 2
  IndexModulus = 4
  MaxOutstanding = 2
  MaxChain = 2
  Capacity = 1
  DriverChains = {d1, d2, d3}
  DeviceChains = {v1, v2, v3}
  IOFailures = TRUE
  None = None
SYMMETRY ChainSymmetry
INVARIANTS
  NoSpuriousFault
  OwnershipConsistent
PROPERTIES
  EntriesStable
  ImplementsExchange
CHECK_DEADLOCK FALSE
