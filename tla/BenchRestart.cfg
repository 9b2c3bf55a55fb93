CONSTANTS
  BrAttempts = 1
  BrMaxConnects = 2
  BrMaxClicks = 1
  BrMaxPeriods = 1
SPECIFICATION BrSpec
INVARIANT BrStaysUp
CHECK_DEADLOCK FALSE
