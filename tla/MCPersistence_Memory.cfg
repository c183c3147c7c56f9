CONSTANTS
  a = a
  b = b
  c = c
  k1 = k1
  k2 = k2
  x = x
  y = y
  none = none
  NoRow = none
  Boards = {a, b, c}
  Coordinators = {k1}
  Shapes = {x, y}
  MaxOps = 2
  MaxRestarts = 1
  AtomicSnapshot = TRUE
  LiveRestart = FALSE
  HydrateFails = FALSE
  SaveFails = TRUE
  Drains = TRUE
SPECIFICATION Spec
CHECK_DEADLOCK FALSE
SYMMETRY Symmetry
INVARIANTS
  PInv
  Faithful
  OpenBoardHydrated
  AllClosedDurable
PROPERTIES
  ActsAsCheckpoint
