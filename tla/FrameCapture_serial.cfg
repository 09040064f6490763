SPECIFICATION Spec
CONSTANTS
  c1 = c1
  c2 = c2
  Cameras <- TwoCameras
  NumBuffers = 1
  Faults <- SurvivedFaults
  Serial = TRUE
  MaxId = 6
INVARIANTS
  TypeOK
  ContextsAlive
  DispatchesOwnClosure
  SessionPrimed
  CleanBetweenCaptures
PROPERTIES
  ContractSpec
SYMMETRY CameraSymmetry
CHECK_DEADLOCK FALSE
