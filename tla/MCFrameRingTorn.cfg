CONSTANTS
  NumSlots = 2
  MaxDepth = 2
  MaxInc = 1
  MaxCap = 4
SPECIFICATION Spec
INVARIANT ReadIsPointedFrame
