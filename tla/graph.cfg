CONSTANTS
  a = a
  b = b
  c = c
  d = d
  ab = ab
  bc = bc
  cd = cd
  ba = ba
  s1 = s1
  s2 = s2
  Sources = {s1, s2}
  Entities = {a, b, c, d}
  Relations = {ab, bc, cd, ba}
  From <- MCFrom
  To <- MCTo
  Denials = {ba}
  Texts <- MCTexts
  MaxPublish = 2
  MaxFails = 1
  MaxNodes = 2
  Merged = {a, b, c}
  Moving = {ab}
  Decisions = {1, 2}
  None = None
  MaxSteps = 5
  d1 = d1
  d2 = d2
  u1 = u1
  u2 = u2
  Devices = {d1, d2}
  Units = {u1, u2}
  Rank <- MCRank
  Tick = 16
  MaxWrites = 4
SPECIFICATION Graph
INVARIANTS ServedIsFounded RebuildsSettle FindsBridges MergesUndo IdentitiesMeet
SYMMETRY Symmetry
CHECK_DEADLOCK FALSE
