SPECIFICATION FairSpec
CONSTANTS
  Kinds = {"warning", "generated"}
  Templates <- ManyPages
  PayloadSize = 9
  Timeouts = {0, 3}
  ChunkSize = 3
  MinDelay = 1
  MaxDelay = 2
  MinParagraph = 1
  MaxParagraph = NotSet
  MaxPitLinks = 1
  PromptSizes = {1}
  Titles = {1, 2}
  MessageTitle = 0
  ContentSize = 2
  InitialParagraphs = 1
  SectionParagraphs = 2
  MaxTime = 4
  NotSet = NotSet
  NoJob = NoJob
  NoTitle = NoTitle
CHECK_DEADLOCK FALSE
INVARIANTS TypeOK AcceptsWellFormed WarningPageComplete OnlyMainDiscards OutputInOrder OneTitle MainWithinPayload OneLateChunk
PROPERTIES ChunksSpaced PageCompletes
