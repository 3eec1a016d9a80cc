SPECIFICATION FairSpec
CONSTANTS
  StartTime = 10
  MaxTime = 18
  ValidSpan = 2
  SendTimeout = 2
  MaxTries = 2
  RealOffset = 0
  Namenode = "answers"
  Machine = "timely"
INVARIANT ValidBacked
PROPERTY HeartbeatBacked
PROPERTY HeartbeatReturns
