CONSTANTS
  c1 = c1
  c2 = c2
  c3 = c3
  Listener = Listener
  NoLock = NoLock
  Commands <- MCCommands
  Processes <- MCProcesses
  FileCap = 1
  MaxRecords = 1
  MaxKills = 1
SPECIFICATION Spec
SYMMETRY MCSymmetry
PROPERTIES
  ImplementsOneLock
