CONSTANTS
  Device = {d1, d2}
  Cluster = {a, b}
  Channels <- TwoChannels
  Rates = 2
  Listen = 1
  Width = 8
  Remember = 2
  Window = 1
  FloodCount = 3
  FloodWindow = 1
  BaselineMin = 2
  MaxTracked = 3
  MaxIncidents = 2
  MaxGap = 1
  Budgets <- MCBudgets
  Label = {disallowed}
  MaxKept = 2
  Trigger = 3
  MayFail = {"labels", "append"}
  MaxReadings = 4
  MaxLabels = 1
  MaxMerges = 1
  MaxCrashes = 2
  MaxFaults = 1
  LsCapacity = 2
  LsCentres = 2
  LsMaxTime = 4
  LsMaxSessions = 2
  LsMaxSteps = 1
  LsMaxStarts = 1
  SsAir <- MCAir
  SsOtherMax = 1
  SsDecodedMax = 2
  SsDevicesMax = 2
  SsClustersMax = 1
  SsMaxCaptures = 2
  SsMaxMerges = 2
  SsMaxEmitters = 3
  LpInputs <- MCInputs
  LpSpans <- MCSpans
  LpChannelHalf = 2
  LpMinClear = 2
  LpMinMirror = 3
  LpCovers <- MCCovers
  LpMaxChannels = 3
  RgDetections <- MCDetections
  RgTolerance = 1
  RgMinReadings = 2
  RgHistory = 3
  RgMaxCycles = 3
  RgMaxDetections = 2
  Addresses = {a1, a2, a3}
  NoAddress = none
  SrDevices = 2
  SrQueue = 2
  SrBytes = 3
  LinkPackets = 1
  SrMaxCaptures = 3
  SrMaxPackets = 2
  SrMaxClears = 1
SPECIFICATION MCSpec
INVARIANTS AlarmsAreReal BooksAddUp LsCoverageTrue ListSurvives
           SsSessionTrue LpPlanSound RgBestOfBucket SrSound
CHECK_DEADLOCK FALSE
