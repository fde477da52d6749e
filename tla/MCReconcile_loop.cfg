SPECIFICATION Spec
CONSTANTS
  cOn = cOn
  cOff = cOff
  p1 = p1
  p2 = p2
  c1 = c1
  c2 = c2
  Policies <- MCPolicies
  Configs <- MCConfigs
  Disabled <- MCDisabled
  Answers <- MCAnswers
  Clients = {c1, c2}
  Kinds = {"reload", "refresh"}
  ClientCap = 2
  MaxFaults = 0
  MaxBoots = 1
SYMMETRY MCSymmetry
INVARIANTS
  TypeOK
  WaitersAreServed
  CurrentUsesNewestConfig
  UnreadConfigIsAnnounced
PROPERTIES
  OkMeansApplied
  ImplementsSiteBlock
CHECK_DEADLOCK FALSE
