CONSTANTS
  c1 = c1
  c2 = c2
  c3 = c3
  s1 = s1
  s2 = s2
  Paths = {a, b}
  Contents = {c1, c3}
  Shapes = {s1, s2}
  Shape <- MCShapeTwo
  Absent = Absent
  NoShape = NoShape
  NoRow = NoRow
  Blank = Blank
  NoStamp = NoStamp
  Options <- Clustered
  MaxEdits = 2
  MayFail = FALSE
SPECIFICATION Spec
SYMMETRY Symmetric
INVARIANTS
  SkippedGraphIsCurrent
