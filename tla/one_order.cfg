\* One order that moves while callbacks are redelivered and reordered, two
\* administrators' or followers' stale reads race with it.
CONSTANTS
  Order = {o1}
  Variant = {v1}
  MaxQty = 1
  MaxStock = 1
  Batch = 2
  NoOrder = NoOrder
  Chat = {c1, c2}
  Admin = {a1}
  LostReplies = FALSE
  Recounted = {}
  Callback <- PaidShortRefundedOrStray
SPECIFICATION Spec
CONSTRAINTS PausedBeforeCheckouts FewConfirmations
SYMMETRY ChatSymmetry
INVARIANTS PurchaseCountedOnce
PROPERTIES OnlyLegalMoves PaidOnlyByNewCallback MovesAnnounced
