SPECIFICATION FairSpec
CONSTANTS
  Hosts = {"mac1"}
  NSources = 4
  Format <- FourSources
  FilesOf <- SixFiles
  CheckpointKey <- OwnPaths
  NoCheckpoint = NoCheckpoint
  ChunkSize = 1
  MaxFailures = 3
  Broken = {1, 6}
  QuietWriters = TRUE
  MovesFiles = {3}
  Present = {1, 3, 5}
  Snapshots = {{1, 3, 5}}
  AdoptsWhole = TRUE
  MaxTime = 2
  MaxLen <- SixLengths
  MaxErrors = 1
INVARIANTS
  NothingLeftBehind
PROPERTIES
  EventuallyUploaded
