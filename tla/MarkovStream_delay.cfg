SPECIFICATION Spec
CONSTANTS
  Kinds = {"warning", "generated"}
  Templates <- Pages
  PayloadSize = 9
  Timeouts = {2}
  ChunkSize = 3
  MinDelay = 1
  MaxDelay = 0
  MinParagraph = 1
  MaxParagraph = NotSet
  MaxPitLinks = 1
  PromptSizes = {1}
  Titles = {1, 2}
  MessageTitle = 0
  ContentSize = 2
  InitialParagraphs = 1
  SectionParagraphs = 2
  MaxTime = 3
  NotSet = NotSet
  NoJob = NoJob
  NoTitle = NoTitle
CHECK_DEADLOCK FALSE
INVARIANT NeverPanics
