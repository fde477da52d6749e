SPECIFICATION EntriesSpec
CONSTANTS
  Apps = {a1}
  Handler = Handler
  NoPath = NoPath
  MaxInstalls = 2
  MaxEdits = 1
  MaxRuns = 3
  MaxFaults = 2
  MaxKills = 1
INVARIANTS
  SyncsDeleteOnlyDropped
  ManifestIsTrue
  DefaultIsServed
PROPERTIES
  FailedRunLeavesNoTrace
CHECK_DEADLOCK FALSE
