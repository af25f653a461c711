SPECIFICATION FairSpec
CONSTANTS
  Writes = {w1, w2, w3, w4}
  Reads = {}
  Cmin = 1
  Cmax = 3
  RCC = 3
  CQmax = 1
CHECK_DEADLOCK FALSE
PROPERTY EveryTaskServed
