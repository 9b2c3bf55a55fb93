CONSTANTS
  step = step
  marker = marker
  Job <- MCJob
  Limits <- MCLimits
  MaxJobs = 4
  wifi24 = wifi24
  wifi5 = wifi5
  Lane <- OneLane
  QueueMaxItems = 1
  CaptureReserve = 0
  MaxFrames = 2
  Budgets <- LiveBudgets
  WindowCaptures = 1
  MaxWindows = 2
  MaxPending = 1
  FloodMaxPending = 1
  ReleaseQuiet = 1
  CdSent <- MCSent
  CdDrifts <- MCDrifts
  CdOffset = 3
  CdWhitening = {0, 1, 2, 3, 4, 5, 6, 7, 9, 11, 13, 15, 16, 20, 22, 152, 156, 160, 161, 162, 165, 166, 208, 209, 211, 212, 213, 214, 215, 217, 218, 220, 221, 222, 223, 224, 396, 397, 398, 399, 401, 402, 403, 405, 407, 408, 410, 411, 476, 477, 479, 481, 482, 483, 485, 486, 491}
  CdHit = {3, 14}
  CdMoves = {1, 14}
  CdCuts = {1, 6}
  RvSf = 7
  RvFrames <- MCRvFrames
  RvDamages <- MCRvDamages
  RvSetups <- MCRvSetups
  RvOffset = 37
  RvMinPreamble = 6
  RvMaxPreamble = 256
  RvSlow = FALSE
  RvMaxFrames = 2
SPECIFICATION MCSpec
INVARIANTS NoLostWakeup CloseDrains CdDelivers RvReadsFrames
PROPERTIES ReturnsWhenPromised CallersReturn DropsResurface ImplementsOrderedWorker
