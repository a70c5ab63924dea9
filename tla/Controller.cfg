SPECIFICATION Spec
CONSTANTS
  MaxToken = 16
  MaxGeneration = 2
  Closures = {plain, resettable}
  ResetClosures = {resettable}
  ResourceIds = {1}
  SandboxIds = {1}
  HostStatuses = {"OK", "HOST_FAILURE", "NO_MEMORY"}
  StaleLag = 1
INVARIANTS
  TeardownOrder
  NoGenerationOverlap
  ActionFits
PROPERTIES
  InvalidInputChangesNothing
  TokensNeverReused
