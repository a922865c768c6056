CONSTANTS
  Procs = {p1, p2}
  NoProc = NoProc
  Paths = {a}
  MaxEdits = 1
  MaxPasses = 1
  Requests = {"checkout"}
  MayFail = FALSE
  MayAlarm = FALSE
SPECIFICATION FairSpec
PROPERTIES
  EveryRequestServed
