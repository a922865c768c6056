CONSTANTS
  Builders = {b1, b2}
  Readers = {r1}
  NoProc = NoProc
  NoSnap = NoSnap
  MaxWrites = 2
  MaxBuilds = 2
  MayFail = FALSE
  MayPurge = FALSE
SPECIFICATION Spec
SYMMETRY Symmetric
INVARIANTS
  IdleSnapshotIsCurrent
CHECK_DEADLOCK FALSE
