CONSTANTS
  Procs = {p1, p2}
  NoProc = NoProc
  Paths = {a, b}
  MaxEdits = 1
  MaxPasses = 1
  Requests = {"commit", "checkout", "update"}
  MayFail = FALSE
  MayAlarm = FALSE
SPECIFICATION FairSpec
PROPERTIES
  DrainServesTheQueue
