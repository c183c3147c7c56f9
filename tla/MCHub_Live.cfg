CONSTANTS
  s1 = s1
  s2 = s2
  s3 = s3
  b1 = b1
  b2 = b2
  none = none
  Sessions = {s1, s2}
  BoardIDs = {b1}
  NoBoard = none
  SendBuffer = 1
  Cancellable = {}
  HasStore = FALSE
SPECIFICATION FairSpec
CHECK_DEADLOCK FALSE
PROPERTIES
  JoinCompletes
  DisconnectReturns
  EmptyBoardStops
  RemovedReturns
  DrainCompletes
  ActsAsRegistry
