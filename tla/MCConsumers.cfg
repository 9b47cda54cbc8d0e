CONSTANTS
  p1 = p1
  shelf = shelf
  Tracks = {p1}
  ZoneOrder <- ExitZones
  ZoneShape <- ExitShape
  Places = {shelf}
  PlaceBox <- ShelfBox
  HandToHip = 110
  Scenes <- SomeScenes
  HandFrames = 2
  ItemMemory = 4
  PickupSpan = 3
  PersonMemory = 5
  SpikeGap = 2
  SpeedSamples = 2
  DetectionMax = 2
  AssociationMax = 4
  DetectionBatch = 2
  MaxFrames = 3
  MaxFaults = 1
  Confirmations = 3
  ConfirmAge = 1
  ConcealWindow = 2
  TrackMemory = 5
  BehaviorSpikeGap = 3
  BufferAge = 2
  Decay = 4
  Trigger = 8
  EventBatch = 3
  FrameBatch = 2
  c1 = c1
  AlertCameras = {c1}
  Window = 3
  MaxAlerts = 1
  Burst = 2
  BatchSize = 2
  StreamMax = 2
  MaxDelay = 1
  StartTime = 3
  MaxTime = 7
SPECIFICATION FairConsumers
INVARIANTS TrackingTypeOK ZoneEventsInTurn InteractionIsSustained PickupMeansFewerItems ConfirmedHasSupport AccusedOfPickups AlertingTypeOK
PROPERTIES ReportsInOrder FramesServedAfterEvents RateLimited RoutineAlertsApart SuppressedAtLimit IncidentsServed
CHECK_DEADLOCK FALSE
