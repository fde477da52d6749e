SPECIFICATION FairSpec
CONSTANTS
  cOn = cOn
  cOff = cOff
  p1 = p1
  p2 = p2
  c1 = c1
  c2 = c2
  Policies <- MCPolicies
  Configs <- MCConfigs
  Disabled <- MCDisabled
  Answers <- MCAnswers
  Clients = {c1}
  Kinds = {"off"}
  ClientCap = 1
  MaxFaults = 1
  MaxBoots = 2
INVARIANTS
  BaselineIsPublished
  PublishedIsEnforced
PROPERTIES
  WaitersAreAnswered
  Converges
  AnnouncedConfigTakesEffect
CHECK_DEADLOCK FALSE
