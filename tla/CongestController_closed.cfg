SPECIFICATION Spec
CONSTANTS
  Writes = {w1}
  Reads = {r1, r2}
  Cmin = 1
  Cmax = 3
  RCC = 2
  CQmax = 1
CHECK_DEADLOCK FALSE
INVARIANT WindowOpen
