CONSTANTS
  Nil = Nil
  Confs <- MCConfs
  BootConf <- Mixed
  Unloadable = Unloadable
  LogicalTags = {"a", "b"}
  ListenIPs = {"0.0.0.0"}
  Ports = {80, 443}
  MaxSaves = 3
  MaxFaults = 1
SPECIFICATION Spec
CHECK_DEADLOCK FALSE
INVARIANTS TypeOK BooksMatch LastSaveTried
PROPERTY KeepsContract
