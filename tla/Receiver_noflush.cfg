SPECIFICATION FairSpec
CONSTANTS
  Node = {n1}
  MaxHb = 3
  MaxTime = 2
  MaxCalls = 1
  MaxTries = 1
  Modes = {"noflush"}
  RequestParts = 3
INVARIANT AlarmSure
CHECK_DEADLOCK FALSE
