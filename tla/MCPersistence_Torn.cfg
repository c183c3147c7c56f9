CONSTANTS
  a = a
  b = b
  c = c
  k1 = k1
  k2 = k2
  x = x
  y = y
  none = none
  NoRow = none
  Boards = {a}
  Coordinators = {k1, k2}
  Shapes = {x}
  MaxOps = 2
  MaxRestarts = 0
  AtomicSnapshot = FALSE
  LiveRestart = FALSE
  HydrateFails = FALSE
  SaveFails = FALSE
  Drains = FALSE
SPECIFICATION Spec
CHECK_DEADLOCK FALSE
PROPERTIES
  SameSeqSameRow
