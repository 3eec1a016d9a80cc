CONSTANTS
  IRQ_NUM = 2
  BASE_IRQ = 33
  Port <- MCPort
  ringOf <- MCRingOf
  Scenarios <- MCScenarios
SPECIFICATION Spec
INVARIANTS FlowsRight CrashCauses
PROPERTIES SetupCompletes ShutdownEnds
