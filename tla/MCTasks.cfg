SPECIFICATION FairSpec
CONSTANTS
  TaskOrder <- OrderCert
  FirstNow = {"renewCert"}
  Adjusted = {"report"}
  MaxAdjusts = 1
  MaxChains = 2
INVARIANTS TypeOK SingleChain StoppedAfterClose OneStragglerAtMost
PROPERTIES CloseReturns Ticks
CHECK_DEADLOCK FALSE
