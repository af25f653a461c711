SPECIFICATION FairSpec
CONSTANTS
  None = None
  FixedTasks = {t1, t2, t3, t4, t5}
  NumThreads = 3
  Writes = {w1, w2, w3, w4}
  Reads = {r1, r2}
  Cmin = 1
  Cmax = 3
  RCC = 2
  CQmax = 1
CHECK_DEADLOCK FALSE
INVARIANTS ThreadsAccounted NoLostWakeup
PROPERTIES FirstComeFirstServed WindowRespected ImplementsTaskService
