CONSTANTS
  wifi24 = wifi24
  wifi5 = wifi5
  Lane <- MCLanes
  QueueMaxItems = 1
  CaptureReserve = 1
  MaxFrames = 1
  Budgets <- MCBudgets
  WindowCaptures = 1
  MaxWindows = 2
  MaxPending = 1
  FloodMaxPending = 1
  ReleaseQuiet = 2
SPECIFICATION Safety
INVARIANTS DropsAccounted StopDrains LearnedClean
PROPERTY QuietReleases
SYMMETRY Symmetry
