SPECIFICATION FairSpec
CONSTANTS
  g1 = g1
  g2 = g2
  camA = camA
  camB = camB
  Unknown = "Unknown"
  Regs <- TwoRegs
  CameraIds <- TwoCameraIds
  Kinds <- OneKind
  Events <- TwoEvents
  Faults <- AllFaults
  MaxCalls = 2
  MaxId = 3
CHECK_DEADLOCK FALSE
INVARIANTS
  TypeOK
  ContextsLive
  LiveIsListening
  EventsReal
  RegistriesExact
PROPERTIES
  ContractSpec
  CallsReturn
