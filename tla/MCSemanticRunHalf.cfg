CONSTANTS
  big = big
  doc = doc
  Files = {big, doc}
  Absent = Absent
  Corpus <- MCCorpus
  MaxDepth = 2
  Halvings = 1
  MayOmit = FALSE
  MaxRuns = 2
  MayFail = TRUE
SPECIFICATION SemanticSpec
INVARIANT DoneIsWhole
CHECK_DEADLOCK FALSE
