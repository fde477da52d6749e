SPECIFICATION Spec
CONSTANTS
  MaxVersions = 2
  MaxRuns = 3
  MaxFaults = 1
  MaxKills = 1
  MaxActs = 1
INVARIANTS
  RemovedIsGone
  BlockHasHelper
  EditedIsKept
PROPERTIES
  RemovalStands
CHECK_DEADLOCK FALSE
