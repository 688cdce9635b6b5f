SPECIFICATION Spec
CONSTANTS
  Hosts = {"mac1", "mac2"}
  NSources = 1
  Format <- OneTree
  FilesOf <- OneFile
  CheckpointKey <- SamePaths
  NoCheckpoint = NoCheckpoint
  ChunkSize = 1
  MaxFailures = 3
  Broken = {}
  QuietWriters = TRUE
  MovesFiles = {}
  Present = {}
  Snapshots = {}
  AdoptsWhole = TRUE
  MaxTime = 3
  MaxLen <- OneLength
  MaxErrors = 0
INVARIANTS
  NothingLeftBehind
