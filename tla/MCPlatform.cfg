CONSTANTS
  a = a
  b = b
  camA = camA
  camB = camB
  near = near
  far = far
  Clients = {a, b}
  Dispatchers = {1, 2}
  HubCameras = {camA}
  FilterOf <- TwoClients
  InboxSize = 2
  ReadCount = 2
  MaxLoad = 4
  Persons = {near, far}
  Boxes <- TwoScenes
  SeqLen = 2
  Stride = 1
  WindowAge = 1
  EvictEvery = 1
  MaxShots = 4
  MaxNow = 2
  MaxWaiting = 1
  MaxScorerFaults = 1
  Viewers = {1, 2}
  ViewerQueue = 2
  RingSlots = 2
  MaxPictures = 4
  MaxCalls = 4
  MaxAtOnce = 3
  MaxAlerts = 3
  MaxSyncFaults = 2
  Tasks = {1, 2, 3}
  FailThreshold = 2
  ResetAfter = 2
  MaxOutages = 2
  ShopCameras = {camA, camB}
  Scores = {1, 3}
  Sweep <- ThreeThresholds
  DefaultThreshold = 2
  MinSamples = 2
  GroupWindow = 1
  GroupLimit = 2
  MaxIncidents = 3
  MaxInstant = 2
  Filters = {"any", "open"}
  Pages = {0, 1}
  MaxFetches = 3
  Urls = {"u1", "u2"}
  MaxSources = 5
  MaxTimers = 2
  Verdicts = {"tp", "fp"}
  LogLimit = 1
  MaxLogged = 3
  MaxVerdicts = 2
  FeedCameras = {camA, camB}
  FeedBatch = 2
  MaxEvents = 3
  MaxRequests = 2
SPECIFICATION FairPlatform
INVARIANTS OvertakenOnlyInHand ReadersLeaveNothingOut PosesOfTheTrack ViewerIsCurrent ActivesOverlapped ClosedMeansFewFailures ListMatchesFilters OneSourceOpen GroupsAreApart LoggedIsKept
PROPERTIES ServedUnlessStalled ScoresApart SyncedInTheEnd CalibratesToBest
CHECK_DEADLOCK FALSE
