\* One chat links an order while the order moves.
CONSTANTS
  Order = {o1}
  Variant = {v1}
  MaxQty = 1
  MaxStock = 1
  Batch = 2
  NoOrder = NoOrder
  Chat = {c1}
  Admin = {a1}
  LostReplies = FALSE
  Recounted = {}
  Callback <- JustPaid
SPECIFICATION Spec
INVARIANTS FollowerKnowsStatus
