CONSTANTS
  MaxRare = 2
SPECIFICATION Spec
INVARIANTS XmitBacked
