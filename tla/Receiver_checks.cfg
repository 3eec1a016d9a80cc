SPECIFICATION FairSpec
CONSTANTS
  Node = {n1, n2}
  MaxHb = 2
  MaxTime = 2
  MaxCalls = 2
  MaxTries = 2
  Modes = {"flush", "noflush"}
  RequestParts = 3
INVARIANT AlarmSound
PROPERTY CheckAnswered
