CONSTANTS
  a = a
  js = js
  Files = {a, js}
  Uncached = {js}
  w1 = w1
  w2 = w2
  Workers = {w1, w2}
  Contents = {1, 2}
  None = None
  MaxEdits = 2
  MaxRuns = 3
  MayFail = TRUE
SPECIFICATION FairSpec
INVARIANTS
  EveryFileIsAnswered
  CacheIsTrue
PROPERTIES
  WorkIsKept
  CallsEnd
CHECK_DEADLOCK FALSE
