CONSTANTS
  p = p
  r1 = r1
  r2 = r2
  digest = digest
  words = words
  Procs = {p}
  Roots = {r1, r2}
  NoRoot = NoRoot
  Values = {digest, words}
  Counts = {words}
  Sizes = {1, 2}
  None = None
  Tick = 2
  Granularity = 2
  MaxTime = 3
  MaxContents = 2
SPECIFICATION Spec
SYMMETRY Symmetric
INVARIANT DigestsAreCurrent
CHECK_DEADLOCK FALSE
