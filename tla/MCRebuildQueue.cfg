CONSTANTS
  Procs = {p1, p2, p3}
  NoProc = NoProc
  Paths = {a, b}
  MaxEdits = 1
  MaxPasses = 1
  Requests = {"commit", "checkout", "update"}
  MayFail = TRUE
  MayAlarm = TRUE
SPECIFICATION Spec
SYMMETRY Symmetric
INVARIANTS
  OnlyKnownLosses
PROPERTIES
  GraphNeverGoesBack
  ImplementsLedger
