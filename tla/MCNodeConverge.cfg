SPECIFICATION FairSpec
CONSTANTS
  Configs = {c1, c2, bad}
  Unparsable = {bad}
  Invalid = {}
  Uuids = {u1, u2}
  Limits = {1, 2}
  EmptyLists = FALSE
  UserETags = FALSE
  Failures = {"GetNodeInfo"}
  MaxFaults = 1
  MaxConfigChanges = 2
  MaxUserChanges = 2
  NoConfig = NoConfig
PROPERTIES ConfigConverges UsersConverge
CHECK_DEADLOCK FALSE
