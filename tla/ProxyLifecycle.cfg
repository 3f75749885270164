SPECIFICATION FairSpec
CONSTANTS
  c1 = c1  c2 = c2  c3 = c3
  Conns = {c1, c2, c3}
  BatchSize = 1
  Scenarios <- SmallScenarios
INVARIANTS
  DrainedIsQuiet
  ActiveCountsReservations
  ListenerNotLeaked
PROPERTIES
  AdmissionEnds
  DrainCompletes
  StartReturns
