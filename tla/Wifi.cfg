CONSTANTS
  low = low
  high = high
  any = any
  Thing <- MCThing
  Capture <- MCCapture
  Covers <- MCCovers
  MaxIncidents = 2
  CloseQuiet = 2
  MaxOpened = 3
  MaxSaves = 1
  MaxCrashes = 1
  MaxRestarts = 1
  WrChannels = {"c1", "c2"}
  WrTraffic <- MCTraffic
  WrMinDelay = 2
  WrRetention = 9
  WrMaxGap = 2
  WrHistory = 3
  WrProfiles = 1
  WrMaxCaptures = 4
  WrMaxFaults = 1
  RiScenes <- MCScenes
  RiOffsets = {100}
  RiWindow = 1
  RiFallback = 2
  RiReference = 2
  RiInconsistent = 2
  RiCluster = 2
  RiAlternations = 2
  RiHistory = 4
  RiPendingLimit = 3
  RiGaps = {1, 2}
  RiCaptureFrames = 3
  RiMaxFrames = 5
  RiMaxFaults = 1
  WeKeys = {"k1"}
  WeQueue = 1
  WeReserve = 1
  WeCompactAt = 2
  WeMaxJobs = 4
  WeMaxFaults = 1
  WeMaxStarts = 3
SPECIFICATION MCSpec
INVARIANTS IncidentsAreOne WrReplaysReal RiVerdictsRight WeSound
PROPERTIES OpenIncidentsEnd
CHECK_DEADLOCK FALSE
