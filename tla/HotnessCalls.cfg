SPECIFICATION FairSpec
CONSTANTS
  k1 = k1  k2 = k2  k3 = k3
  Keys <- ThreeKeys
  KeyRank <- Ranks
  Configs <- SmallConfigs
INVARIANTS
  RingAccounted
  TransitionsComplete
  CatchUpExact
  EarlyPromotionSound
  TopIsHeadOfRanking
PROPERTIES
  HotUntilBoundary
  UnusedKeyCools
