CONSTANTS
  Procs = {p1, p2, p3}
  NoProc = NoProc
  Paths = {a, b}
  MaxEdits = 1
  MaxPasses = 1
  Requests = {"commit"}
  MayFail = FALSE
  MayAlarm = FALSE
SPECIFICATION Spec
INVARIANTS
  NothingForgotten
CHECK_DEADLOCK FALSE
