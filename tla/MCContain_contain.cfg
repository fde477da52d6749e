SPECIFICATION Spec
CONSTANTS
  Names = {r1}
  r1 = r1
  Versions = 2
  Addrs = {a1, a2}
  NoWindow = NoWindow
  MaxFaults = 2
  MaxOpens = 2
  MaxQueue = 3
  MaxActs = 4
SYMMETRY Symmetry
INVARIANTS
  RulesAreRegistered
  SettledIsContained
  OffersAreFew
PROPERTIES
  ReleasedIsLeftAlone
CHECK_DEADLOCK FALSE
