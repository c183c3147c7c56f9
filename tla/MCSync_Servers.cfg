CONSTANTS
  c1 = c1
  c2 = c2
  s1 = s1
  s2 = s2
  x = x
  y = y
  none = none
  Clients = {c1, c2}
  Servers = {s1, s2}
  Shapes = {x}
  None = none
  MaxOps = 2
  SubBuffer = 1
  SendBuffer = 2
  Deletes = TRUE
  MaxFaults = 1
  MaxConns = 2
SPECIFICATION Spec
CHECK_DEADLOCK FALSE
SYMMETRY Symmetry
INVARIANTS
  TypeOK
  NoGap
  Converged
