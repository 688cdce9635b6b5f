SPECIFICATION FairSpec
CONSTANTS
  Docs <- MCDocs
  Initial <- MCInitial
  Reply <- MCOldReply
  Position <- MCPosition
  Chunks <- MCChunks
  PageSize = 2
  RecentLimit = 2
  PruneLimit = 2
  MaxChunks = 2
  BatchSize = 1
  MaxText = 2
  MaxChanges = 2
  MaxFaults = 1
PROPERTY
  AllEmbedded
