SPECIFICATION Spec
CONSTANTS
  Macs = {"mac1", "mac2"}
  Events = {"a", "b", "r", "w"}
  Origin <- StoreOrigin
  EventId <- StoreId
  Keys = {"k1", "k2", "k3"}
  NoKey = "null"
  DedupeKey <- StoreKey
  CanonicalKeys = {"k1", "k3"}
  SessionOf <- StoreSession
  Visibility <- StoreVisibility
  PageSize = 2
  LiveIndex = FALSE
  MaxInterruptions = 1
INVARIANTS
  OneRowPerProviderEvent
  ClaimsBacked
  SearchExact
  ScannedMerged
PROPERTIES
  NoRetraction
  ImplementsTimeline
