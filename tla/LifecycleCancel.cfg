SPECIFICATION FairLifecycleSpec
CONSTANTS
  w1 = w1
  w2 = w2
  Workers = {w1}
  NoOwner = NoOwner
  MaxRuns = 1
  MaxRoutes = 1
  MaxFaults = 1
  Pauses = FALSE
  WriteFaults = FALSE
  Outages = FALSE
  PollFaults = FALSE
  DeferSupported = TRUE
  MaxChecks = 3
  MaxCancels = 2
  CommandCrashes = FALSE
INVARIANTS
  LifecycleTypeOK
  ChargedForSuccess
PROPERTIES
  RefundLeavesNoJob
  CancelledIsBilled
CHECK_DEADLOCK FALSE
