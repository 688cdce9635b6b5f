SPECIFICATION FairSpec
CONSTANTS
  Processes = {p1, p2}
  NoOne = NoOne
  Dead = Dead
  Latest = 2
  MaxCrashes = 2
  MaxFaults = 2
CONSTRAINTS
  Unraced
  FewTroubles
CHECK_DEADLOCK FALSE
INVARIANTS
  Exclusive
  BinaryRunnable
PROPERTIES
  AllOrNothing
  EventuallyRecovered
