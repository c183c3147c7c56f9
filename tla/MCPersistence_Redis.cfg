CONSTANTS
  a = a
  b = b
  c = c
  k1 = k1
  k2 = k2
  x = x
  y = y
  none = none
  NoRow = none
  Boards = {a, b}
  Coordinators = {k1}
  Shapes = {x}
  MaxOps = 2
  MaxRestarts = 1
  AtomicSnapshot = FALSE
  LiveRestart = TRUE
  HydrateFails = TRUE
  SaveFails = FALSE
  Drains = FALSE
SPECIFICATION FairSpec
CHECK_DEADLOCK FALSE
INVARIANTS
  OpenBoardHydrated
  RowCoversShapes
PROPERTIES
  EventuallyDurable
  
