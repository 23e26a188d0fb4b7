SPECIFICATION Spec
CONSTANTS
  Configs = {c1, c2, invalid}
  Unparsable = {}
  Invalid = {invalid}
  Uuids = {u1, u2}
  Limits = {1, 2}
  EmptyLists = TRUE
  UserETags = TRUE
  Failures <- AllFailures
  MaxFaults = 2
  MaxConfigChanges = 1
  MaxUserChanges = 2
  NoConfig = NoConfig
INVARIANTS TypeOK InStep InfoOrDown ClosedIsDown
PROPERTIES KeepsPromise
CHECK_DEADLOCK FALSE
