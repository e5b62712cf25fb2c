\* The provider's first callback arrives before the checkout has attached its payment.
CONSTANTS
  Browser = {b1}
  Visitor = {v1, v2}
  SessionId = {s1, s2}
  None = None
  Origin = {"ads", "direct"}
  Total = 5
  LastDay = 2
  MaxOrders = 1
  PeriodDays <- Periods
  Width <- Widths
  SourceRowLimit = 1
  p1 = p1
  p2 = p2
  Callback <- Callbacks
  Invoice = Invoice
  Forged = {f1}
  Handler = {h1, h2}
  MaxDeliveries = 3
SPECIFICATION PaymentsSpec
INVARIANTS AcknowledgedIsSettled
CHECK_DEADLOCK FALSE
