SPECIFICATION HostSpec
CONSTANTS
  MaxToken = 32
  MaxGeneration = 3
  Closures = {"plain", "reset"}
  ResetClosures = {"reset"}
  ResourceIds = {1, 2}
  SandboxIds = {1, 2}
  HostStatuses = {"OK", "RESOURCE_DENIED", "RESOURCE_EXHAUSTED", "HOST_FAILURE"}
  StaleLag = 0
  MaxId = 2
  MaxFailures = 1
INVARIANTS
  HostAgrees
  LiveProcessKeepsMemory
PROPERTIES
  CleanupCompletes
