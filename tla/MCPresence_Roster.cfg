CONSTANTS
  s1 = s1
  s2 = s2
  none = none
  Servers = {s1, s2}
  None = none
  MaxConns = 3
  MaxLive = 2
  MaxFaults = 1
  MaxCursors = 1
  SubBuffer = 1
  SendBuffer = 3
SPECIFICATION Spec
SYMMETRY Symmetry
CHECK_DEADLOCK FALSE
INVARIANTS
  TypeOK
  ViewTracks
  CursorsCurrent
