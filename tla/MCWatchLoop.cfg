CONSTANTS
  Code = {py}
  Docs = {md}
  Remapped = {inc}
  RC = RC
  Temp = Temp
  Out = Out
  NoFile = NoFile
  MaxChanges = 2
  MayFail = TRUE
SPECIFICATION WatchFairSpec
INVARIANTS
  OnlyKnownMisses
PROPERTIES
  ChangesReachTheGraph
  ImplementsCodeLedger
  LoopSettles
CHECK_DEADLOCK FALSE
