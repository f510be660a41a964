CONSTANTS
  a = a
  b = b
  t1 = t1
  t2 = t2
  p1 = p1
  none = none
  Paths = {a, b}
  Texts = {t1, t2}
  Blank = t2
  Procs = {p1}
  Ids = {1, 2, 3}
  Ctxs = {1, 2, 3}
  MaxEdits = 2
  MaxCmds = 3
  MaxRuns = 2
SPECIFICATION CalmSpec
INVARIANT RegisteredOrGone
 
SYMMETRY Symmetry
CHECK_DEADLOCK FALSE
