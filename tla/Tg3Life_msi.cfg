CONSTANTS
  MaxRare = 2
SPECIFICATION Spec
INVARIANTS MsiTestQuiet
