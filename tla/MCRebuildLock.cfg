CONSTANTS
  Procs = {p1, p2}
  Inodes = {i1, i2, i3}
  MaxRounds = 2
  NoProc = NoProc
  NoInode = NoInode
SPECIFICATION FairSpec
INVARIANTS
  MutualExclusion
  HolderIsVisible
  PidNamesHolder
  FileIsCleared
PROPERTIES
  ImplementsMutex
  BlockingCallReturns
