SPECIFICATION FairSpec
CONSTANTS
  StartTime = 5
  MaxTime = 9
  ValidSpan = 3
  SendTimeout = 1
  MaxTries = 1
  RealOffset = 0
  Namenode = "answers"
  Machine = "timely"
INVARIANT ValidAsWritten
CHECK_DEADLOCK FALSE
