\* Every command is supported, the repeater is written, and a device needs no Base ID.
CONSTANTS
  WantRepeater = TRUE
  SelfAddressed = TRUE
  Supported <- AllCommands
  Interval = 2
  Backoff = 4
  None = None
  MaxTelegrams = 6
SPECIFICATION FairSpec
INVARIANTS
  TypeOK
  TagsNeverBehind
  AlignedUnlessInterleaved
  BaseIdTrue
  Paced
PROPERTY BaseIdLearnt
