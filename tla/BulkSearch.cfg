SPECIFICATION FairSpec
CONSTANTS
  Conns = {c1, c2}
  Nobody = Nobody
  Tables <- MCTables
  Settings <- MCSettings
  Suppressed = "suppressed"
  NoSetting = "none"
  Own <- MCOwn
  MaxWork = 1
  MaxWrites = 2
  MaxReaders = 1
  MaxFailures = 2
INVARIANTS
  SettingsKept
  ImportUndisturbed
PROPERTIES
  RestoredWhenTruncated
  EventuallyRestored
