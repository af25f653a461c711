SPECIFICATION Spec
CONSTANTS
  Lower = 4
  Upper = 12
  Rate = 4
  Sec = 1000
  Width = 8
CHECK_DEADLOCK FALSE
INVARIANT NeverAborts
