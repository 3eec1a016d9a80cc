SPECIFICATION FairSpec
CONSTANTS
  Node = {n1}
  MaxHb = 1
  MaxTime = 2
  MaxCalls = 1
  MaxTries = 2
  Modes = {"flush"}
  RequestParts = 2
PROPERTY CheckAnswered
CHECK_DEADLOCK FALSE
