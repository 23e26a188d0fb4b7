SPECIFICATION LimiterSpec
CONSTANTS
  Users = {u1, u2}
  IPs = {a, b}
  Threads = {t1, t2}
  Speeds = {0, 4}
  DynSpeed = 2
  NodeSpeed = 5
  DeviceLimits = {1}
  MaxAlive = 1
  MaxChecks = 3
  MaxEvents = 3
SYMMETRY Symmetry
INVARIANTS LimiterTypeOK NeverFaster RemovedForgotten
PROPERTIES DevicesRemembered
CHECK_DEADLOCK FALSE
