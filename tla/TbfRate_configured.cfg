SPECIFICATION Spec
CONSTANTS
  Lower = 40
  Upper = 80
  Rate = 50
  Sec = 1000000000
  Width = 8
CHECK_DEADLOCK FALSE
INVARIANT TokenTimeMatchesRate
