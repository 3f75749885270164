SPECIFICATION FairSpec
CHECK_DEADLOCK FALSE
INVARIANTS
  NoHandlerAtClose
  FailureReported
PROPERTIES
  ShutdownCompletes
