CONSTANTS
  Slots = {s1, s2}
  NoSlot = none
  RestartLimit = 1
  Recycle = 2
  MaxTaken = 3
  MaxChanges = 1
  MaxToggles = 2
  MaxWakes = 1
  Sources = {"a", "b"}
  NoSource = "none"
  MaxObserved = 3
  MaxInvalidated = 1
  MaxStarts = 2
  DtQueueLimit = 1
  DtMessages = 2
  DtMaxTime = 4
  DtMaxStarts = 2
  BrAttempts = 2
  BrMaxConnects = 2
  BrMaxClicks = 3
  BrMaxPeriods = 1
SPECIFICATION MCSpec
INVARIANTS SwSafe MlOneSource
PROPERTIES SwGivesUp SwServed MlServed DtJoinsUnbroken DtStops BrGainTrue BrServes
CHECK_DEADLOCK FALSE
