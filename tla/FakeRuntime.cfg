SPECIFICATION Spec
CONSTANTS
  c1 = c1
  c2 = c2
  Cameras <- TwoCameras
  NumBuffers = 1
  Methods <- MethodNames
  MaxId = 4
  MaxCalls = 3
  MaxRigged = 1
SYMMETRY CameraSymmetry
INVARIANTS
  TypeOK
  TablesExact
PROPERTIES
  ContractSpec
CHECK_DEADLOCK FALSE
