SPECIFICATION Spec
CONSTANTS
  s1 = s1
  s2 = s2
  g1 = g1
  g2 = g2
  t1 = t1
  t2 = t2
  e1 = e1
  Systems <- TwoSystems
  Regs <- TwoRegs
  Emitters <- TwoEmitters
  Events <- OneEvent
  Faults <- AllFaults
  MaxId = 4
SYMMETRY Symmetry
INVARIANTS
  TablesExact
  EmissionReaches
PROPERTIES
  ContractSpec
