CONSTANTS
  Procs = {p1, p2}
  NoProc = NoProc
  Paths = {a}
  MaxEdits = 2
  MaxPasses = 1
  Requests = {"commit"}
  MayFail = TRUE
  MayAlarm = TRUE
SPECIFICATION Spec
PROPERTIES
  AlarmEndsTheRebuild
CHECK_DEADLOCK FALSE
