SPECIFICATION Spec
CONSTANTS
  Rpcs = {r1, r2}
  TimeUnit = 3
  Initial = 1
  ServSlack = 2
  AtExtra = 3
  AtEpMargin = 2
  AtMax = 4
  SubWnds = 2
  Step = 2
  Fits = {0, 3}
  NetMax = 2
  LastTick = 16
SYMMETRY Symmetry
CHECK_DEADLOCK FALSE
INVARIANTS NoFalseTimeout TimersMatchDeadlines EstimateIsWindowMax NeverAborts
