SPECIFICATION TxnSpec
CONSTANTS
  u1 = u1
  o1 = o1
  o2 = o2
  s1 = s1
  s2 = s2
  Users = {u1}
  NoUser = NoUser
  Orders = {o1, o2}
  Prices = {1}
  Costs = {0, 2}
  Codes = {}
  References = {}
  Value <- MCValue
  Adjustments = {3}
  CreditBound = 3
  Sessions = {s1, s2}
  Isolations = {"snapshot", "read_committed"}
  MayOverlap <- SafeOverlap
SYMMETRY Symmetry
INVARIANT
  TxnTypeOK
PROPERTY
  LedgerSpec
CHECK_DEADLOCK FALSE
