SPECIFICATION Spec
CONSTANTS
  k1 = k1  k2 = k2  r1 = r1  r2 = r2
  w1 = w1  w2 = w2  a1 = a1
  None = None
  Keys <- OneKey
  NumStripes = 1
  StripeOf <- OneStripe
  Readers = {r1, r2}
  Writers = {w1}
  Admins = {}
  PolicyMode <- AllCached
  Probationary = TRUE
  AllowStale = FALSE
  ReadOps = {"GET"}
  WriteOps = {"SET"}
  AdminOps = {"advance"}
  Env = {}
  WarmKeys <- OneKey
  CandidateKeys = {}
  MaxVersion = 0
  MaxTries = 1
INVARIANTS
  NoStaleLocalHitWindow
