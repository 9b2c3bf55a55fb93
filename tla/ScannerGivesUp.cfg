CONSTANTS
  Steps <- MCSteps
  SubCaptures = 2
  Threshold = 2
  GivesUp = TRUE
  Budgets <- StallBudgets
SPECIFICATION Spec
INVARIANTS HandleHeld
CHECK_DEADLOCK FALSE
