SPECIFICATION FairSpec
CONSTANTS
  NSources = 2
  TargetsOf <- TwoSources
  OtherTargets = {}
  Workers = {w1, w2, w3}
  NoOne = NoOne
  Service = Service
  MaxAttempts = 2
  MaxFailures = 2
  MaxCrashes = 1
INVARIANTS
  ImportsExclusive
  NoStrandedRequest
  RequestsAccounted
PROPERTIES
  RequestServed
CHECK_DEADLOCK FALSE
