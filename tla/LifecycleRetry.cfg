SPECIFICATION LifecycleSpec
CONSTANTS
  w1 = w1
  w2 = w2
  Workers = {w1, w2}
  NoOwner = NoOwner
  MaxRuns = 2
  MaxRoutes = 1
  MaxFaults = 0
  Pauses = FALSE
  WriteFaults = FALSE
  Outages = FALSE
  PollFaults = FALSE
  DeferSupported = FALSE
  MaxChecks = 3
  MaxCancels = 1
  CommandCrashes = TRUE
SYMMETRY Symmetry
CONSTRAINT OneAtATime
PROPERTIES
  RunEndsOnce
  BillingSpec
CHECK_DEADLOCK FALSE
