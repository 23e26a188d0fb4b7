SPECIFICATION Spec
CONSTANTS
  Cores = {"xray", "sing"}
  LogicalTags = {t1, t2, t3}
  ListenIPs = {"1.2.3.4", "::"}
  PanelPorts <- MCPorts
  Unset = "unset"
  Wild4 = "0.0.0.0"
  Wild6 = "::"
  NoKey = NoKey
INVARIANTS TypeOK Exclusive NoOrphan
PROPERTY OthersUntouched
