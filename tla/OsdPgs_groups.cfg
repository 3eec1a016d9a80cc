CONSTANTS
  Pg = {0, 1, 2, 3}
  Session <- MCSession
  MaxObj = 6
  Worker = {1, 2}
  Peerer = {1, 2}
  MaxAdvance = 1
  Scenarios <- MCScenarios
SPECIFICATION Spec
INVARIANTS Consistent OpsServed CollectionKept RestComplete
PROPERTIES Settles
