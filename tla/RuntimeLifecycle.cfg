SPECIFICATION FairSpec
CONSTANTS
  s1 = s1
  s2 = s2
  s3 = s3
  c1 = c1
  c2 = c2
  r1 = r1
  r2 = r2
  NoRaw = NoRaw
  Systems <- ThreeSystems
  Cameras <- TwoCameras
  RawHandles <- TwoRaws
  Faults <- StartupFaults
  MaxId = 3
INVARIANTS
  TypeOK
  LiveMeansUp
  HandlesReachOwnCamera
  FlagTellsOwner
  NoOrphanSdk
  NoHandleLeak
PROPERTIES
  DropReleasesSdk
