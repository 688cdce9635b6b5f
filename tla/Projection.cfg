SPECIFICATION DatabaseSpec
CONSTANTS
  Macs = {"mac1"}
  Events = {"n", "p", "b"}
  Origin <- MCOrigin
  EventId <- MCId
  Keys = {"k1"}
  NoKey = "null"
  DedupeKey <- MCKey
  CanonicalKeys = {"k1"}
  SessionOf <- MCSession
  Visibility <- MCVisibility
  PageSize = 1
  LiveIndex = FALSE
  MaxInterruptions = 2
  InSnapshot = {"n", "b"}
  BatchSize = 1
INVARIANTS
  EachFoundOnce
  ProjectionReady
PROPERTIES
  EventuallyMerged
