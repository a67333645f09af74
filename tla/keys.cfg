SPECIFICATION Spec
CONSTANTS
  Callers = {c1, c2}
  Kids = {k1, k2}
  NoKid = NoKid
  Throttle = 2
  Lifetime = 2
  MaxStale = 3
  Timeout = 1
  MaxClock = 6
SYMMETRY Symmetry
INVARIANTS
  AcceptedWasServed
  RemovedIsForgotten
  PublishedIsKnown
PROPERTIES
  RefreshesAreThrottled
