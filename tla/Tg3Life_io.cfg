CONSTANTS
  MaxRare = 2
SPECIFICATION Spec
PROPERTIES IoErrorEnds
