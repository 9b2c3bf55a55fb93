CONSTANTS
  Steps <- MCSteps
  SubCaptures = 2
  Threshold = 2
  GivesUp = FALSE
  Budgets <- MCBudgets
  Schedules <- MCSchedules
  LaneLimit = 2
  Emitter <- MCEmitter
  DroneOnly <- MCDroneOnly
  Grace = 2
  DetectorRoom = 2
  MaxVisits = 5
  MaxPauses = 1
  MaxConflicts = 1
SPECIFICATION MCSpec
INVARIANTS ResultsInOrder NeverTogether SaveServed CyclesAddUp NotReacquiredIsFounded
PROPERTIES StopReturns
CHECK_DEADLOCK FALSE
