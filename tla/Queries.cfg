SPECIFICATION Spec
CONSTANTS
  k1 = k1
  k2 = k2
  k3 = k3
  Zeroed = Zeroed
  CameraIds <- ThreeCameras
  Texts <- ShortTexts
  BufSize = 3
  Codes <- AllCodes
  MaxHandle = 1
SYMMETRY CameraSymmetry
INVARIANTS
  StringsReadBack
  CodesDecoded
  StubsAnswerEmpty
PROPERTIES
  ListIsSnapshot
