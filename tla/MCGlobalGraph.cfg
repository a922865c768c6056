CONSTANTS
  a = a
  b = b
  c = c
  lib = lib
  stub = stub
  Procs = {p1, p2}
  Repos = {a, b, c}
  NoRepo = NoRepo
  Libraries = {lib, stub}
  Stubs = {stub}
  MaxContents = 2
  Shape <- Shapes
  MaxEdits = 1
  MaxOps = 4
  MayFail = TRUE
SPECIFICATION Spec
SYMMETRY Symmetric
INVARIANTS
  RowsTellTheGraph
  LibrariesAreShared
  UsesAreRewired
  CallsAgreeWithOneMerge
CHECK_DEADLOCK FALSE
