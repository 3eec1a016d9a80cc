SPECIFICATION Spec
CONSTANTS
  IRQ_NUM = 2
  ARRAY_SIZE = 3
  Node = {n1}
  NfqCap = 2
  MaxEpoch = 2
  MaxHb = 1
  MaxDup = 1
  MaxSkip = 1
  Faults = {"timeout", "error"}
INVARIANT RingFlushed
INVARIANT BarrierSound
