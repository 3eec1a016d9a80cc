CONSTANTS
  MaxRare = 2
SPECIFICATION Spec
INVARIANTS NoBug Backed Released Working
PROPERTIES Progress
