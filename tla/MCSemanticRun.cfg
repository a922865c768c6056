CONSTANTS
  big = big
  doc = doc
  Files = {big, doc}
  Absent = Absent
  Corpus <- MCCorpus
  MaxDepth = 2
  Halvings = 1
  MayOmit = TRUE
  MaxRuns = 2
  MayFail = TRUE
SPECIFICATION SemanticSpec
INVARIANTS
  HitsAreWhole
  StampedIsInTheGraph
  CompletedChunksAreKept
  AnswersAreAccounted
CHECK_DEADLOCK FALSE
