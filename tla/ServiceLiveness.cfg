SPECIFICATION GroupSpec
CONSTANTS
  k1 = k1  k2 = k2  r1 = r1  r2 = r2
  w1 = w1  w2 = w2  a1 = a1
  None = None
  Keys <- TwoKeys
  NumStripes = 2
  StripeOf <- OwnStripes
  Readers = {r1, r2}
  Writers = {w1, w2}
  Admins = {a1}
  PolicyMode <- SecondDenied
  Probationary = TRUE
  AllowStale = FALSE
  ReadOps = {"GET", "MGET"}
  WriteOps = {"DEL"}
  AdminOps = {"purgeAll"}
  Env = {"demote"}
  WarmKeys <- OneKey
  CandidateKeys = {}
  MaxVersion = 0
  MaxTries = 1
CONSTRAINT Gathered
PROPERTIES
  EveryRequestEnds
