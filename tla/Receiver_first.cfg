SPECIFICATION FairSpec
CONSTANTS
  Node = {n1}
  MaxHb = 2
  MaxTime = 2
  MaxCalls = 1
  MaxTries = 1
  Modes = {"flush"}
  RequestParts = 3
INVARIANT AlarmMeansSilence
CHECK_DEADLOCK FALSE
