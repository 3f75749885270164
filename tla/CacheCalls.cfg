SPECIFICATION Spec
CONSTANTS
  k1 = k1  k2 = k2  k3 = k3  p1 = p1  p2 = p2
  Absent = Absent
  Keys <- ThreeKeys
  KeyLen <- OneByteKeys
  Callers = {p1, p2}
  Scenarios <- SmallScenarios
INVARIANTS
  Accounted
PROPERTIES
  LossesJustified
  ImplementsTier
