\* The provider may open an invoice although its reply was lost, so that an
\* abandoned order can still be paid.
CONSTANTS
  Order = {o1, o2}
  Variant = {v1}
  MaxQty = 2
  MaxStock = 2
  Batch = 2
  NoOrder = NoOrder
  Chat = {}
  Admin = {a1}
  LostReplies = TRUE
  Recounted = {v1}
  Callback <- WaitingOrPaid
SPECIFICATION Spec
SYMMETRY OrderSymmetry
INVARIANTS TypeOK NoOversell
