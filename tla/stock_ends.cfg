\* Two orders over one size: every interleaving of two checkouts, callbacks that
\* overtake them, the worker, an administrator and refunds, on a clock that moves.
CONSTANTS
  Order = {o1, o2}
  Variant = {v1}
  MaxQty = 1
  MaxStock = 2
  Batch = 1
  NoOrder = NoOrder
  Chat = {}
  Admin = {a1}
  LostReplies = FALSE
  Recounted = {}
  Callback <- WaitingPaidOrRefunded
SPECIFICATION FairSpec
INVARIANTS ReservedExactly PastCreatedHasPayment
PROPERTIES LedgerSpec AwaitingEnds
