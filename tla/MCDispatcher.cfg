SPECIFICATION Spec
CONSTANTS
  x = x
  s = s
  c1 = c1
  c2 = c2
  c3 = c3
  XrayUsers = {x}
  SingUsers = {s}
  Conns = {c1, c2, c3}
  ConnLimit = 2
  Realtime = TRUE
  MaxChanges = 3
SYMMETRY Symmetry
INVARIANTS TypeOK CutOff SlotsExact
CHECK_DEADLOCK FALSE
