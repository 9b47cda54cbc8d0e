CONSTANTS
  c1 = c1
  c2 = c2
  g1 = g1
  g2 = g2
  Cameras = {c1}
  Gateways = {g1, g2}
  Verdicts = {"DISMISSED", "ESCALATED"}
  NumIncidents = 2
  CameraOf <- OneCamera
  BatchLimit = 1
  MaxReviews = 2
SPECIFICATION Spec
PROPERTY OnlyOpenEscalated
CHECK_DEADLOCK FALSE
