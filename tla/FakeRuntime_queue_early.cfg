SPECIFICATION HandSpec
CONSTANTS
  c1 = c1
  c2 = c2
  Cameras <- OneCamera
  NumBuffers = 1
  Methods = {}
  MaxId = 4
  MaxCalls = 3
  MaxRigged = 1
INVARIANTS
  QueuedInCapture
CHECK_DEADLOCK FALSE
