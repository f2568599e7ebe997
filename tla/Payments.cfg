SPECIFICATION FairRecSpec
CONSTANTS
  u1 = u1
  p1 = p1
  g1 = g1
  q1 = q1
  Users = {u1}
  Payments = {p1}
  NoPayment = NoPayment
  Owner <- MCOwner
  Gifts = {g1}
  Credits <- MCCredits
  MaxBalance = 2
  MaxActive = 1
  MaxAttempts = 1
  NotFoundKnown = {TRUE, FALSE}
  Requests = {q1}
  OrderLoop = OrderLoop
  InboxLoop = InboxLoop
  MaxTroubles = 1
INVARIANTS
  RecTypeOK
  OrderMatchesTrade
PROPERTIES
  PaymentsAreGrants
  PaidIsNotForgotten
  ExpiredEndsIfRecognised
CHECK_DEADLOCK FALSE
