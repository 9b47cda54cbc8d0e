CONSTANTS
  NumSlots = 2
  MaxDepth = 2
  MaxInc = 2
  MaxCap = 5
SPECIFICATION Spec
INVARIANTS TypeOK QueueBounded AtMostOneLap
PROPERTY FeedSpec
