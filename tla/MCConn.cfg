SPECIFICATION Spec
CONSTANTS
  Users = {u1}
  IPs = {a, b, c}
  Threads = {t1, t2}
  ConnLimit = 2
  IPLimit = 1
  Realtime = TRUE
  MaxConnects = 4
SYMMETRY Symmetry
INVARIANTS TypeOK Ledger IPCap
CHECK_DEADLOCK FALSE
