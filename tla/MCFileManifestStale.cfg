CONSTANTS
  Code = {code}
  Docs = {doc}
  Contents = {c1, c2}
  None = None
  Window = 1
  MaxClock = 2
  MaxEdits = 2
  MaxRuns = 2
  MayFail = TRUE
SPECIFICATION Spec
SYMMETRY MCSymmetry
CHECK_DEADLOCK FALSE
INVARIANTS
  UnchangedSinceExtraction
