CONSTANTS
  c1 = c1
  c2 = c2
  c3 = c3
  s1 = s1
  s2 = s2
  Paths = {a}
  Contents = {c1, c2, c3}
  Shapes = {s1, s2}
  Shape <- MCShape
  Absent = Absent
  NoShape = NoShape
  NoRow = NoRow
  Blank = Blank
  NoStamp = NoStamp
  Options <- Every
  MaxEdits = 2
  MayFail = TRUE
SPECIFICATION Spec
INVARIANTS
  SkipIsSound
  HtmlNeverLooksCurrent
  CleanFilesAreInGraph
