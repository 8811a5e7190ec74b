\* One device of each kind
CONSTANTS
  blind = blind
  switch = switch
  shutter = shutter
  Nobody = Nobody
  Ute = {blind}
  Ptm = {switch}
  Models = {shutter}
  Past <- MCPast
  Mapping <- MCMapping
  Attempts <- MCAttempts
  MaxFaults = 2
SPECIFICATION FairSpec
INVARIANTS
  TypeOK
  SyncUndisturbed
  ConfigsListed
  SyncRepairs
  RequestsHeard
  KeysWhole
  NoDuplicates
PROPERTIES
  ImplementsRegistry
  MetIsKept
CHECK_DEADLOCK FALSE
