SPECIFICATION Spec
CONSTANTS
  Configs <- MCConfigs
  OscThreads = 1
  OstThreads = 2
  MaxParts = 2
CHECK_DEADLOCK FALSE
INVARIANTS HandlersInStep WritesDurable ReadsSeeWrites
PROPERTIES EveryUserFinishes
