CONSTANTS
  s1 = s1
  s2 = s2
  s3 = s3
  b1 = b1
  b2 = b2
  none = none
  Sessions = {s1, s2, s3}
  BoardIDs = {b1}
  NoBoard = none
  SendBuffer = 1
  Cancellable = {}
  HasStore = FALSE
SPECIFICATION Spec
SYMMETRY SessionSymmetry
CHECK_DEADLOCK FALSE
INVARIANTS
  TypeOK
  RefCount
  JoinKeepsBoard
  NoPanic
  ReturnedLeftBoard
PROPERTIES
  KickedForOwnQueue
