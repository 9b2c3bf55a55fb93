CONSTANTS
  Label = {disallowed}
  MaxKept = 2
  Trigger = 3
  MayFail = {"compact"}
  MaxReadings = 4
  MaxLabels = 1
  MaxMerges = 1
  MaxCrashes = 1
  MaxFaults = 1
SPECIFICATION MasterSpec
INVARIANTS ReadingsKept
CHECK_DEADLOCK FALSE
