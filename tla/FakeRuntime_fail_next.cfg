SPECIFICATION Spec
CONSTANTS
  c1 = c1
  c2 = c2
  Cameras <- OneCamera
  NumBuffers = 1
  Methods <- OneMethod
  MaxId = 4
  MaxCalls = 3
  MaxRigged = 1
PROPERTIES
  FailNextFails
CHECK_DEADLOCK FALSE
