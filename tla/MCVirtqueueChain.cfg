CONSTANTS
  AddressMax = 21
  Lanes = {1, 2}
  Tables <- MCTables
  QueueSize = 4
  MaxChain = 3
  MaxIndirect = 2
  MaxOutstanding = 2
  Role = "REQUEST"
  Lane = 1
  Regions <- MCRegions
  Rings <- MCRings
  DescTable = 0
  Candidates <- MCCandidates
  MaxPublished = 2
SPECIFICATION Spec
INVARIANTS
  HonestNeverFaults
  ChainsIntact
