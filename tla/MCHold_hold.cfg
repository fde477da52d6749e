\* Two keys, one of which the lists may drop; one fault; the retry window has
\* room for one short retry and the period lies beyond it.
CONSTANTS
  k1 = k1
  k2 = k2
  Keys = {k1, k2}
  Tables = {{k1}, {k1, k2}}
  MaxFaults = 1
  RetryEvery = 1
  RetryWindow = 2
  Period = 2
SPECIFICATION FairSpec
INVARIANTS
  HandKeysStay
  EpisodeIsBounded
  MuteFollowsHold
PROPERTIES
  OffGivesBack
  OnIsReached
