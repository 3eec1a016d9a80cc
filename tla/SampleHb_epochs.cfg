CONSTANTS
  Node = {n1}
  BaseTime = 1
  Interval = 2
  max_transfer_delay = 1
  max_clock_deviation = 0
  Delay = 2
  MaxEpoch = 5
  CheckerStalls = FALSE
  Tracked = {n1}
SPECIFICATION Spec
INVARIANTS AskedIffMissed FreshPasses
