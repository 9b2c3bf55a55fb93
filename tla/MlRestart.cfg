CONSTANTS
  Sources = {"a", "b"}
  NoSource = "none"
  MaxObserved = 1
  MaxInvalidated = 0
  MaxStarts = 2
SPECIFICATION MlSpec
PROPERTY MlStarts
CHECK_DEADLOCK FALSE
