\* The add-on's configuration, with a device that is sent to without a Base ID
CONSTANTS
  FixedId = TRUE
  SelfAddressed = TRUE
SPECIFICATION FairSpec
INVARIANTS
  TypeOK
  Available
  DiscoveryComplete
  LearnGuarded
PROPERTIES
  Recovers
  EndsOnShutdown
