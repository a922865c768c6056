CONSTANTS
  c1 = c1
  c2 = c2
  c3 = c3
  s1 = s1
  s2 = s2
  Paths = {a, b}
  Contents = {c1, c3}
  Shapes = {s1, s2}
  Shape <- MCShapeTwo
  Absent = Absent
  NoShape = NoShape
  NoRow = NoRow
  Blank = Blank
  NoStamp = NoStamp
  Options <- Mixed
  MaxEdits = 1
  MayFail = TRUE
SPECIFICATION Spec
SYMMETRY Symmetric
INVARIANTS
  SkipIsSound
  HtmlNeverLooksCurrent
  CleanFilesAreInGraph
