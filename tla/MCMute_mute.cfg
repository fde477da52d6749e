\* Two sink inputs over a process of the slice and a listed one.
CONSTANTS
  Indices = {i1, i2}
  Slice = {browser}
  Listed = {app}
  Others = {}
  None = None
  MaxFaults = 2
SPECIFICATION FairSpec
INVARIANTS
  HandMutesStay
  MutesAreKnown
PROPERTIES
  OffReleases
  OnSilences
