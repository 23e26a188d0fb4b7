SPECIFICATION FairSpec
CONSTANTS
  Users = {u1, u2}
  Shared = {u2}
  Threshold = 1
  Cap = 1
  MaxBytes = 3
  MaxFailures = 2
  MaxChanges = 1
INVARIANTS TypeOK Conserved NoOverReport GuardHolds
PROPERTIES EventuallyReported
CHECK_DEADLOCK FALSE
