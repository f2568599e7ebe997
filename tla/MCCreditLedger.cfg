SPECIFICATION Spec
CONSTANTS
  u1 = u1
  u2 = u2
  o1 = o1
  o2 = o2
  c1 = c1
  r1 = r1
  Users = {u1, u2}
  NoUser = NoUser
  Orders = {o1, o2}
  Prices = {1, 3}
  Costs = {2}
  Codes = {c1}
  References = {r1}
  Value <- MCValue
  Adjustments <- MCAdjustments
  CreditBound = 1
SYMMETRY Symmetry
INVARIANTS
  TypeOK
  LedgerExplainsOrders
  ReservedIsHeld
  AvailableIsExplained
  SourcePaysOnce
PROPERTIES
  SettledIsFinal
  OverdraftOnlyByFinalCost
CHECK_DEADLOCK FALSE
