SPECIFICATION ExecSpec
CONSTANTS
  w1 = w1
  w2 = w2
  Workers = {w1, w2}
  NoOwner = NoOwner
  MaxRuns = 1
  MaxRoutes = 1
  MaxFaults = 2
  Pauses = TRUE
  WriteFaults = TRUE
  Outages = TRUE
  PollFaults = TRUE
  DeferSupported = TRUE
SYMMETRY Symmetry
INVARIANT
  OutcomeMatchesBill
PROPERTY
  BillClosesAfterTask
CHECK_DEADLOCK FALSE
