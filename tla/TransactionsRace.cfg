SPECIFICATION TxnSpec
CONSTANTS
  u1 = u1
  o1 = o1
  o2 = o2
  s1 = s1
  s2 = s2
  Users = {u1}
  NoUser = NoUser
  Orders = {o1, o2}
  Prices = {1}
  Costs = {2}
  Codes = {}
  References = {}
  Value <- MCValue
  Adjustments = {2}
  CreditBound = 2
  Sessions = {s1, s2}
  Isolations = {"read_committed"}
  MayOverlap <- RacingOverlap
SYMMETRY Symmetry
PROPERTY
  SettledIsFinal
CHECK_DEADLOCK FALSE
