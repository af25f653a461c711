SPECIFICATION Spec
CONSTANTS
  None = None
  NumThreads = 2
  TbfClasses = {1, 2}
  NSecs <- MCNSecs
  Depth = 2
  TbfPerClass = 3
  TbfLastArrival = 3
  Lower = 4
  Upper = 12
  Rate = 6
  Sec = 1000
  Width = 8
  Objects = {"a", "b"}
  PerObject <- MCPerObject
  Quantum = 2
  Modes = {"OFF", "2L"}
  Slack = 1
  FrrThreads = 1
  FrrLastArrival = 1
  FrrLastTick = 2
  Num = 2
  Quota <- MCQuota
  EpochPerClass = 3
  EpochLastArrival = 5
  EpochLastTick = 7
  PrioPerClass = 3
  Count <- MCCount
  Bandwidth = 2
  Coef = 0
  Delta = 0
  Wait = 5
  PrioLastTick = 1
CHECK_DEADLOCK FALSE
INVARIANTS WakesForNextToken RateRespected ObjectsTakeTurns SlicesEnd LoadCounted
PROPERTIES TokenTimeFollowsRate FallsBackToLower ExpiredFirst PreferredFirst EveryRequestServed
