SPECIFICATION Spec
CONSTANTS
  k1 = k1  k2 = k2
  Keys <- TwoKeys
  Requests <- SomeRequests
  MaxTTL = 1
  MaxWrites = 1
  MaxTries = 2
INVARIANTS
  MissIsReal
  OwnLifetime
  AcknowledgedExecuted
