\* Three messages, one of them without text, against lost answers, failed statements
\* and restarts; two tabs on one size and on one order; an order list of three pages.
\* A behaviour of the outbox ends when every message is settled.
CONSTANTS
  Message = {m1, m2, m3}
  Unrenderable = {m3}
  BatchSize = 2
  MaxAttempts = 3
  MaxFaults = 2
  Tab = {t1, t2}
  Size = {s1}
  MaxQty = 2
  MaxStock = 2
  MaxOrders = 5
  DefaultPageSize = 2
  MaxPageSize = 100
  Bars <- SomeBars
SPECIFICATION MCSpec
CHECK_DEADLOCK FALSE
INVARIANTS BudgetKept SentIsDelivered WalkListsAll
PROPERTIES SettledStaysSettled EverySettled OffersAreHonoured StatusPageCatchesUp
