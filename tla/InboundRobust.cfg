SPECIFICATION Spec
CONSTANTS
  Sensors <- MCSensors
  ShadowChoices <- MCShadowChoices
  Singles <- MCSingles
  Bulks <- MCBulks
  RawTopics <- MCRawTopics
  Sends <- MCSends
  BaseId <- MCBaseId
  MaxFields = 2
  LearnTelegrams <- MCLearnTelegrams
INVARIANT MalformedHarmless
CHECK_DEADLOCK FALSE
