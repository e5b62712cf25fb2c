\* A checkout that stops before AttachPayment leaves its units reserved for ever.
CONSTANTS
  Order = {o1}
  Variant = {v1}
  MaxQty = 1
  MaxStock = 1
  Batch = 2
  NoOrder = NoOrder
  Chat = {}
  Admin = {a1}
  LostReplies = FALSE
  Recounted = {}
  Callback <- JustPaid
SPECIFICATION FairSpec
PROPERTIES ReservationEnds
