SPECIFICATION FairExecSpec
CONSTANTS
  w1 = w1
  w2 = w2
  Workers = {w1, w2}
  NoOwner = NoOwner
  MaxRuns = 1
  MaxRoutes = 3
  MaxFaults = 5
  Pauses = FALSE
  WriteFaults = TRUE
  Outages = FALSE
  PollFaults = TRUE
  DeferSupported = TRUE
INVARIANT
  OneJobPerRun
PROPERTIES
  RouteChangesWithoutJob
  TaskTerminates
CHECK_DEADLOCK FALSE
