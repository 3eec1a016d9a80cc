SPECIFICATION Spec
CONSTANTS
  IRQ_NUM = 2
  ARRAY_SIZE = 2
  Node = {n1}
  NfqCap = 2
  MaxEpoch = 4
  MaxHb = 0
  MaxDup = 1
  MaxSkip = 0
  Faults = {}
INVARIANT BarrierSound
