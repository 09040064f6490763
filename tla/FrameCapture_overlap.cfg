SPECIFICATION Spec
CONSTANTS
  c1 = c1
  c2 = c2
  Cameras <- TwoCameras
  NumBuffers = 1
  Faults <- EveryFault
  Serial = FALSE
  MaxId = 4
INVARIANTS
  RegistryExact
  NoContextLeak
  BufferExclusive
SYMMETRY CameraSymmetry
CHECK_DEADLOCK FALSE
