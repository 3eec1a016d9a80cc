SPECIFICATION FairSpec
CONSTANTS
  IRQ_NUM = 2
  ARRAY_SIZE = 2
  Node = {n1}
  NfqCap = 2
  MaxEpoch = 4
  MaxHb = 2
  MaxDup = 0
  MaxSkip = 0
  Faults = {}
INVARIANT BarrierSound
INVARIANT BarrierComplete
INVARIANT FlushSound
PROPERTY FlushCompletes
PROPERTY ImplementsFlush
