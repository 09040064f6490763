SPECIFICATION Spec
CONSTANTS
  t1 = t1
  t2 = t2
  Threads <- TwoThreads
  MaxId = 3
SYMMETRY ThreadSymmetry
INVARIANTS
  TypeOK
  MappedAsNeeded
  LoadReportsFirst
CHECK_DEADLOCK FALSE
