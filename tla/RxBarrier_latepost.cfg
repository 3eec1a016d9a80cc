SPECIFICATION Spec
CONSTANTS
  IRQ_NUM = 2
  ARRAY_SIZE = 4
  Node = {n1}
  NfqCap = 3
  MaxEpoch = 2
  MaxHb = 1
  MaxDup = 0
  MaxSkip = 0
  Faults = {"timeout"}
INVARIANT FlushSound
CHECK_DEADLOCK FALSE
