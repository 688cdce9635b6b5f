SPECIFICATION FairSpec
CONSTANTS
  Daemons = {d1, d2}
  Clients = {c1}
  NoOne = NoOne
  Attempts = 2
  WithLegacy = TRUE
  MaxWork = 1
  MaxFaults = 1
INVARIANTS
  OneDaemon
  ServiceReachable
  AdmittedServed
PROPERTIES
  IdleExact
  LegacyKept
  EventuallySemantic
  DaemonsEnd
