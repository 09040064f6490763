SPECIFICATION FairSpec
CONSTANTS
  c1 = c1
  c2 = c2
  Cameras <- OneCamera
  NumBuffers = 2
  Faults <- StartFaults
  Serial = TRUE
  MaxId = 6
INVARIANTS
  RevokeFindsIdle
PROPERTIES
  CallsReturn
  KeepsDelivering
  ClosuresStartInCapture
CHECK_DEADLOCK FALSE
