SPECIFICATION FairSpec
CONSTANTS
  Objects <- StarveObjects
  PerObject <- StarvePerObject
  Quantum = 1
  Modes = {"2L"}
  Slack = 1
  LastArrival = 2
  LastTick = 7
  NumThreads = 2
  None = None
CHECK_DEADLOCK FALSE
PROPERTY EveryRequestServed
