CONSTANTS
  rxq_cnt = 2
  Key = {std}
  std = std
  Size <- MCSize
  Pending <- MCPending
  RetSize = 1
  Budget = 1
SPECIFICATION Spec
INVARIANTS BuffersKept
PROPERTIES PacketHandled BuffersReturn
