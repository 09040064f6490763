SPECIFICATION Spec
CONSTANTS
  c1 = c1
  c2 = c2
  Cameras <- TwoCameras
  NumBuffers = 1
  Faults = {}
  Serial = FALSE
  MaxId = 4
INVARIANTS
  ContextsAlive
CHECK_DEADLOCK FALSE
