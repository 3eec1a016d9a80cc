SPECIFICATION FairSpec
CONSTANTS
  StartTime = 10
  MaxTime = 17
  ValidSpan = 2
  SendTimeout = 2
  MaxTries = 1
  RealOffset = 0
  Namenode = "silent"
  Machine = "slow"
INVARIANT ValidBacked
CHECK_DEADLOCK FALSE
