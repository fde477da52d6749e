SPECIFICATION EntriesSpec
CONSTANTS
  Apps = {a1}
  Handler = Handler
  NoPath = NoPath
  MaxInstalls = 2
  MaxEdits = 1
  MaxRuns = 3
  MaxFaults = 1
  MaxKills = 0
INVARIANTS
  NothingForeignIsDeleted
CHECK_DEADLOCK FALSE
