CONSTANTS
  c1 = c1
  c2 = c2
  c3 = c3
  Listener = Listener
  NoLock = NoLock
  Commands <- MCPair
  Processes <- MCPairProcesses
  FileCap = 1
  MaxRecords = 2
  MaxKills = 0
SPECIFICATION FairSpec
INVARIANTS
  NewestAreKept
  OnlyTrimsRepeat
PROPERTIES
  OverdueEnds
  EndsAreHooked
