SPECIFICATION Spec
CONSTANTS
  AddressMax = 7
  Lanes = {1, 2}
  Tables <- MCTables
INVARIANTS
  RoundTrip
  Canonical
  ChannelExact
  GrantsExact
  FilesystemExact
  NoDescriptorLeak
  RegistrationExact
