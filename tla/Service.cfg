SPECIFICATION FairServiceSpec
CONSTANTS
  NSources = 1
  TargetsOf <- Codex
  OtherTargets = {"opencode"}
  Workers = {w1}
  NoOne = NoOne
  Service = Service
  MaxAttempts = 3
  MaxFailures = 1
  MaxCrashes = 1
  ServiceTargets <- CodexAndOpenCode
  MaxDefer = 2
  MaxExpiries = 1
INVARIANTS
  ServiceTypeOK
PROPERTIES
  NeverStarved
  EventuallySynced
