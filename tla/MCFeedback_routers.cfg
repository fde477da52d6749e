\* Three threads, two ports, caps that the threads reach.
CONSTANTS
  Threads = {t1, t2, t3}
  Ports = {a, b}
  MaxConns = 3
  MaxSplices = 2
  NoPort = NoPort
  MaxFaults = 1
SPECIFICATION FairSpec
INVARIANTS
  SlotsAreHeld
  LeasesAreExact
PROPERTIES
  RequestsEnd
