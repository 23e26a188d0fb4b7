SPECIFICATION FairSpec
CONSTANTS
  TaskOrder <- OrderTwo
  FirstNow = {}
  Adjusted = {"monitor"}
  MaxAdjusts = 1
  MaxChains = 2
PROPERTIES AdjustReturns
CHECK_DEADLOCK FALSE
