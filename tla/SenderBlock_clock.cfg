SPECIFICATION FairSpec
CONSTANTS
  StartTime = 10
  MaxTime = 15
  ValidSpan = 2
  SendTimeout = 2
  MaxTries = 1
  RealOffset = 100
  Namenode = "silent"
  Machine = "slow"
PROPERTY WaitsForSignal
CHECK_DEADLOCK FALSE
