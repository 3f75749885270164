SPECIFICATION TiersSpec
CONSTANTS
  k1 = k1  k2 = k2  r1 = r1  r2 = r2
  None = None
  Keys <- TwoKeys
  KeyLen <- OneByteKeys
  Readers = {r1, r2}
  Configs <- SmallScenarios
SYMMETRY ReaderSymmetry
INVARIANTS
  BudgetKept
  ExpiryPreserved
