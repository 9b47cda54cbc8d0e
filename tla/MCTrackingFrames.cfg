CONSTANTS
  p1 = p1
  shelf = shelf
  Tracks = {p1}
  ZoneOrder <- ExitZones
  ZoneShape <- ExitShape
  Places = {shelf}
  PlaceBox <- ShelfBox
  HandToHip = 110
  Scenes <- PairScenes
  HandFrames = 2
  ItemMemory = 4
  PickupSpan = 3
  PersonMemory = 5
  SpikeGap = 2
  SpeedSamples = 2
  DetectionMax = 2
  AssociationMax = 4
  DetectionBatch = 2
  MaxFrames = 4
  MaxFaults = 0
  Confirmations = 3
  ConfirmAge = 1
  ConcealWindow = 2
  TrackMemory = 5
  BehaviorSpikeGap = 3
  BufferAge = 2
  Decay = 4
  Trigger = 8
  EventBatch = 3
  FrameBatch = 2
SPECIFICATION TrackingSpec
INVARIANT FramesAgree
CHECK_DEADLOCK FALSE
