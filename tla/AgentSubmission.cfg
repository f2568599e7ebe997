SPECIFICATION SubmissionSpec
CONSTANTS
  r1 = r1
  r2 = r2
  k1 = k1
  k2 = k2
  Runtimes = {r1, r2}
  Keys = {k1, k2}
  Nobody = Nobody
  NoKey = NoKey
  MaxActive = 1
  MaxTickets = 2
  MaxTroubles = 2
SYMMETRY Symmetry
CONSTRAINT Bounded
INVARIANTS
  SubmissionTypeOK
  SubmitOnce
  SlotsSuffice
  AcceptedAccount
PROPERTIES
  SlotIsKept
  EndsStay
