SPECIFICATION SharedSpec
CONSTANTS
  k1 = k1  k2 = k2  r1 = r1  r2 = r2
  w1 = w1  w2 = w2  a1 = a1
  None = None
  Keys <- TwoKeys
  NumStripes = 2
  StripeOf <- OneStripe
  Readers = {r1, r2}
  Writers = {w1}
  Admins = {a1}
  PolicyMode <- AllCached
  Probationary = TRUE
  AllowStale = FALSE
  ReadOps = {"GET"}
  WriteOps = {"DEL"}
  AdminOps = {"advance", "purgeKey", "purgeAll", "close"}
  Env = {"demote", "reject", "evict", "external", "error", "late"}
  WarmKeys <- OneKey
  CandidateKeys = {}
  MaxVersion = 1
  MaxTries = 2
CONSTRAINT SharedBound
SYMMETRY RequestSymmetry
INVARIANTS
  StripeDiscipline
  ProtectedIsHot
  NoRefillAcrossPurge
  ClosedTiersEmpty
PROPERTIES
  HotCopyKept
