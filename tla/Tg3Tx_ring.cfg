CONSTANTS
  TG3_TX_RING_SIZE = 8
  tx_pending = 4
  MAX_SKB_FRAGS = 1
  dma_limit = TRUE
  MaxDescs = 2
  MaxSegs = 1
  Skb = {b1, b2, b3, b4}
SPECIFICATION Spec
INVARIANTS NoRecovery RingClean
PROPERTIES QueueWakes
