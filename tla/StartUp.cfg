SPECIFICATION Spec
CONSTANTS
  Texts = {"a", "b", "big"}
  SizeOf <- Sizes
  Powers = {1, 2, 4, 8, 16}
  Capacity = 2
  TokenSpan = 4
  Dangling = "?"
  CountSpan = 4
  Paths = 2
  TemplateFiles <- Files
  Missing = Missing
  PayloadLists <- Lists
  NoPayloads = NoPayloads
  MaxWords = 6
  MaxTrail = 4
  NoWalk = NoWalk
INVARIANTS
  PointersStayValid
  ChainsFollowText
  TokensResolve
  WalkFollowsText
  PayloadsWholeOrNone
PROPERTIES
  GoodFilesServe
  ImplementsTextTable
CHECK_DEADLOCK FALSE
