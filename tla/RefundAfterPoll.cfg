SPECIFICATION ExecSpec
CONSTANTS
  w1 = w1
  w2 = w2
  Workers = {w1, w2}
  NoOwner = NoOwner
  MaxRuns = 1
  MaxRoutes = 1
  MaxFaults = 2
  Pauses = FALSE
  WriteFaults = FALSE
  Outages = FALSE
  PollFaults = TRUE
  DeferSupported = TRUE
PROPERTY
  RefundLeavesNoJob
CHECK_DEADLOCK FALSE
