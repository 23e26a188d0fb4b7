SPECIFICATION Spec
CONSTANTS
  Configs = {c1, c2}
  Unparsable = {}
  Invalid = {}
  Uuids = {u1, u2}
  Limits = {1}
  EmptyLists = FALSE
  UserETags = TRUE
  Failures = {}
  MaxFaults = 0
  MaxConfigChanges = 1
  MaxUserChanges = 0
  NoConfig = NoConfig
INVARIANTS NobodyLost
CHECK_DEADLOCK FALSE
