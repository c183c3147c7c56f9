CONSTANTS
  s1 = s1
  s2 = s2
  s3 = s3
  b1 = b1
  b2 = b2
  none = none
  Sessions = {s1, s2}
  BoardIDs = {b1, b2}
  NoBoard = none
  SendBuffer = 2
  Cancellable = {s1, s2}
  HasStore = TRUE
SPECIFICATION Spec
SYMMETRY SessionSymmetry
CHECK_DEADLOCK FALSE
INVARIANTS
  IInv
  ShutdownDrains
