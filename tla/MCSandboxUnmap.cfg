SPECIFICATION Spec
CONSTANTS
  QueueSize = 2
  IndexModulus = 4
  Plans <- MCPlans
  BatchSizes = {1, 2}
  MaxLate = 1
CHECK_DEADLOCK FALSE
INVARIANT UnmappedBeforeAcknowledging
