CONSTANTS
  Endpoints = 3
  MaxPackets = 3
SPECIFICATION FairSpec
INVARIANTS
  OneDeadlineActor
  OperationsHaveDeadlines
  ClosedMeansTimedOut
PROPERTIES
  OperationsEnd
  ShutDownReturns
CHECK_DEADLOCK FALSE
