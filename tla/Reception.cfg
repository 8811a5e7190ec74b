SPECIFICATION Spec
CONSTANTS
  Setups <- MCSetups
  Damages <- MCDamages
  Chunks = {30}
  MaxBuffer = 54
  MaxFrames = 3
  MaxFaults = 1
  Covers = {"shutter"}
  ShutTime <- MCShutTime
  Runs <- MCRuns
INVARIANTS
  TypeOK
  ReadingsTrue
  NothingLost
  PositionTold
  DriftBounded
PROPERTIES
  CoverKept
CHECK_DEADLOCK FALSE
