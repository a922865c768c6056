CONSTANTS
  Builders = {b1, b2}
  Readers = {r1}
  NoProc = NoProc
  NoSnap = NoSnap
  MaxWrites = 3
  MaxBuilds = 3
  MayFail = TRUE
  MayPurge = TRUE
SPECIFICATION FairSpec
INVARIANTS
  GenerationNamesSnapshot
  SweepSparesTheLiving
  AnswersAreNotStale
PROPERTIES
  GenerationsGrow
  ImplementsRegister
  ReaderRecovers
