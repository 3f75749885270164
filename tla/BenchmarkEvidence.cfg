SPECIFICATION Spec
CONSTANTS
  k1 = k1  k2 = k2  w1 = w1  w2 = w2
  Missing = Missing
  Failed = Failed
  Keys = {k1, k2}
  Workers = {w1, w2}
  Plans <- TwoPlans
  Kinds <- Troubles
  MaxTroubles = 2
SYMMETRY WorkerSymmetry
INVARIANTS
  EvidenceSound
  QuietRunAccepted
