----------------------------- MODULE OrderStock -----------------------------
(***************************************************************************)
(* The order tables of the shop and everything that writes to them at the  *)
(* same time: checkouts, provider callbacks, the expiry worker, the admin  *)
(* panel and the Telegram bot.                                             *)
(*                                                                         *)
(* Every database transaction is one action. The transactions lock the     *)
(* order row (SELECT ... FOR UPDATE) or update variant rows whose locks    *)
(* they keep until commit, and re-check what they read before under that   *)
(* lock, so each takes effect at its commit. Whatever the code does in     *)
(* more than one transaction, or reads without a lock, is more than one    *)
(* action here: a checkout, an administrator's request, a Telegram link    *)
(* and the analytics event that follows a payment.                         *)
(***************************************************************************)
EXTENDS OrderStatus, OrderUnits

CONSTANTS
  MaxStock,     \* bound on the stock an administrator types in
  Batch,        \* worker.expiryBatch: orders expired in one pass
  Callback,     \* the callbacks that may reach the shop
  NoOrder,      \* an order number this shop never issued
  Chat,         \* Telegram chats
  Admin,        \* administrators, each with at most one request in flight
  Recounted,    \* the variants whose stock an administrator edits
  LostReplies   \* may a provider open an invoice whose reply never arrives?

ASSUME BoundsAssumption == MaxStock \in Nat /\ Batch \in Nat \ {0}
ASSUME RecountedAssumption == Recounted \subseteq Variant
ASSUME LostRepliesAssumption == LostReplies \in BOOLEAN
ASSUME NoOrderAssumption == NoOrder \notin Order

\* What the shop reads off a callback. `verified`: its signature checks out;
\* `fullyPaid`: FullyPaid(pay_amount, actually_paid); `body`: tells apart two
\* callbacks that agree in everything else, as the raw payload does.
CallbackType ==
  [order : Order \cup {NoOrder}, raw : ProviderStatus, fullyPaid : BOOLEAN,
   body : Nat, verified : BOOLEAN]

ASSUME CallbackAssumption == Callback \subseteq CallbackType

VARIABLES
  \* product_variants
  stock, reserved,
  \* orders and order_items; "absent" is an order not placed yet
  status, lines, overdue,
  \* payments: the orders that have a row; payment_events: callbacks on file
  payments, events,
  \* telegram_links; notifications: rows ever queued; settings.shop_paused
  links, outbox, paused,
  \* rows of the analytics table events of type order_paid, counted by order
  funnel,
  \* requests in flight: checkout handlers, callbacks that still owe the
  \* order_paid event, administrators, Telegram updates
  checkout, unrecorded, request, linking,
  \* the provider's own state: orders it holds an invoice for
  invoiced,
  \* orders given up by their checkout (history: the row shows no trace)
  abandoned

variantVars == <<stock, reserved>>
paymentVars == <<payments, events>>
funnelVars == <<funnel, unrecorded>>
vars == <<stock, reserved, status, lines, overdue, payments, events, links, outbox,
          paused, funnel, checkout, unrecorded, request, linking, invoiced, abandoned>>

absent == "absent"
Idle == [phase |-> "idle"]

CheckoutPhase == {"idle", "placing", "invoicing", "attaching", "abandoning", "done"}
Request == {Idle} \cup [phase : {"judged"}, order : Order, from : Status, to : Status]
Linking == {Idle} \cup [phase : {"read"}, order : Order, status : Status]
Kind == {"order_linked", "status_changed"}
Notification == [order : Order, kind : Kind, status : Status, chat : Chat]

Placed == {o \in Order : status[o] # absent}

Init ==
  /\ stock \in [Variant -> 0..MaxStock]
  /\ reserved = [v \in Variant |-> 0]
  /\ status = [o \in Order |-> absent]
  /\ lines = [o \in Order |-> NoLines]
  /\ overdue = {} /\ payments = {} /\ events = {}
  /\ links = [o \in Order |-> {}] /\ outbox = {}
  /\ paused = FALSE
  /\ funnel = [o \in Order |-> 0] /\ unrecorded = {}
  /\ checkout = [o \in Order |-> "idle"]
  /\ request = [a \in Admin |-> Idle] /\ linking = [c \in Chat |-> Idle]
  /\ invoiced = {} /\ abandoned = {}

-----------------------------------------------------------------------------
(* Pieces several transactions share.                                      *)

\* releaseItems: every line of these orders is given back, clamped at zero.
ReleaseItems(os) ==
  /\ reserved' = [v \in Variant |-> Minus(reserved[v], Qty(os, lines, v))]
  /\ UNCHANGED stock

\* CommitVariantStock: the units of a paid order leave stock and reservation.
CommitItems(o) ==
  /\ stock' = [v \in Variant |-> Minus(stock[v], lines[o][v])]
  /\ reserved' = [v \in Variant |-> Minus(reserved[v], lines[o][v])]

\* RestockItems: the units of a paid order go back on the shelf.
RestockItems(o) ==
  /\ stock' = [v \in Variant |-> stock[v] + lines[o][v]]
  /\ UNCHANGED reserved

\* Fault (mutation run): a refund puts the units back on the shelf.
SettleStockRefundRestocks(o, to) ==
  \/ to = "paid" /\ CommitItems(o)
  \/ to = "expired" /\ ReleaseItems({o})
  \/ to = "refunded" /\ RestockItems(o)
  \/ to \notin {"paid", "expired", "refunded"} /\ UNCHANGED variantVars

\* The stock move behind a callback's transition. A refund moves no stock.
SettleStock(o, to) ==
  \/ to = "paid" /\ CommitItems(o)
  \/ to = "expired" /\ ReleaseItems({o})
  \/ to \notin {"paid", "expired"} /\ UNCHANGED variantVars

\* INSERT ... SELECT chat_id FROM telegram_links ... ON CONFLICT (dedup_key) DO
\* NOTHING. The key names the order, the kind and the status but not the chat:
\* whichever follower comes first takes the only row.
Enqueue(os, kind, st, followers) ==
  LET taken == {n.order : n \in {m \in outbox : m.kind = kind /\ m.status = st}}
      told == {o \in os : followers[o] # {} /\ o \notin taken}
  IN \E chat \in [told -> Chat] :
       /\ \A o \in told : chat[o] \in followers[o]
       /\ outbox' = outbox \cup
            {[order |-> o, kind |-> kind, status |-> st, chat |-> chat[o]] : o \in told}

\* SetOrderStatus and the message that announces it, in one transaction.
MoveTo(os, st) ==
  /\ status' = [o \in Order |-> IF o \in os THEN st ELSE status[o]]
  /\ Enqueue(os, "status_changed", st, links)

StatusUnmoved == UNCHANGED <<status, outbox>>

-----------------------------------------------------------------------------
(* The checkout handler: one request, several transactions and one call to *)
(* the provider. It may die between any two of them (a crash, a lost       *)
(* connection, a database error the handler only reports).                 *)

checkoutFrame == <<payments, events, links, paused, funnelVars, request, linking>>

\* checkoutView: the cart and the pause flag are read before anything else.
ReadCart(o, cart) ==
  /\ checkout[o] = "idle"
  /\ ~paused
  /\ lines' = [lines EXCEPT ![o] = cart]
  /\ checkout' = [checkout EXCEPT ![o] = "placing"]
  /\ UNCHANGED <<variantVars, status, overdue, outbox, invoiced, abandoned, checkoutFrame>>

\* Fault (mutation run): what others have reserved is not subtracted.
FitsStockAlone(o) == \A v \in Variant : stock[v] >= lines[o][v]

Fits(o) == \A v \in Variant : stock[v] - reserved[v] >= lines[o][v]

\* Create: the order and all of its units, or neither.
Create(o) ==
  /\ checkout[o] = "placing"
  /\ Fits(o)
  /\ status' = [status EXCEPT ![o] = "created"]
  /\ reserved' = [v \in Variant |-> reserved[v] + lines[o][v]]
  /\ checkout' = [checkout EXCEPT ![o] = "invoicing"]
  /\ UNCHANGED <<stock, lines, overdue, outbox, invoiced, abandoned, checkoutFrame>>

\* ErrOutOfStock rolls the whole transaction back; the buyer may start over.
OutOfStock(o) ==
  /\ checkout[o] = "placing"
  /\ ~Fits(o)
  /\ lines' = [lines EXCEPT ![o] = NoLines]
  /\ checkout' = [checkout EXCEPT ![o] = "idle"]
  /\ UNCHANGED <<variantVars, status, overdue, outbox, invoiced, abandoned, checkoutFrame>>

InvoiceCreated(o) ==
  /\ checkout[o] = "invoicing"
  /\ invoiced' = invoiced \cup {o}
  /\ checkout' = [checkout EXCEPT ![o] = "attaching"]
  /\ UNCHANGED <<variantVars, status, lines, overdue, outbox, abandoned, checkoutFrame>>

\* An error of the provider call. With LostReplies the provider may have opened
\* the invoice all the same.
InvoiceFailed(o) ==
  /\ checkout[o] = "invoicing"
  /\ \/ UNCHANGED invoiced
     \/ LostReplies /\ invoiced' = invoiced \cup {o}
  /\ checkout' = [checkout EXCEPT ![o] = "abandoning"]
  /\ UNCHANGED <<variantVars, status, lines, overdue, outbox, abandoned, checkoutFrame>>

\* Fault (mutation run): the order moves on but no payment row is written.
AttachPaymentWithoutRow(o) ==
  /\ checkout[o] = "attaching"
  /\ checkout' = [checkout EXCEPT ![o] = "done"]
  /\ \/ status[o] = "created" /\ MoveTo({o}, "awaiting_payment")
     \/ status[o] # "created" /\ StatusUnmoved
  /\ UNCHANGED <<variantVars, lines, overdue, payments, events, links, paused, funnelVars,
                 request, linking, invoiced, abandoned>>

\* AttachPayment: nothing is written when a callback moved the order first.
AttachPayment(o) ==
  /\ checkout[o] = "attaching"
  /\ checkout' = [checkout EXCEPT ![o] = "done"]
  /\ \/ /\ status[o] = "created"
        /\ payments' = payments \cup {o}
        /\ MoveTo({o}, "awaiting_payment")
     \/ status[o] # "created" /\ StatusUnmoved /\ UNCHANGED payments
  /\ UNCHANGED <<variantVars, lines, overdue, events, links, paused, funnelVars,
                 request, linking, invoiced, abandoned>>

\* Abandon, ReleaseReservation: the status is neither read nor written.
Abandon(o) ==
  /\ checkout[o] = "abandoning"
  /\ checkout' = [checkout EXCEPT ![o] = "done"]
  /\ ReleaseItems({o})
  /\ abandoned' = abandoned \cup {o}
  /\ UNCHANGED <<status, lines, overdue, outbox, invoiced, checkoutFrame>>

\* The handler stops where it is. AwaitPayment failing takes this way too: the
\* handler answers with an error page and gives nothing back.
CheckoutDies(o) ==
  /\ \/ /\ checkout[o] = "placing"
        /\ checkout' = [checkout EXCEPT ![o] = "idle"]
        /\ lines' = [lines EXCEPT ![o] = NoLines]
     \/ /\ checkout[o] \in {"invoicing", "attaching", "abandoning"}
        /\ checkout' = [checkout EXCEPT ![o] = "done"]
        /\ UNCHANGED lines
  /\ UNCHANGED <<variantVars, status, overdue, outbox, invoiced, abandoned, checkoutFrame>>

-----------------------------------------------------------------------------
(* The provider's callbacks. A callback is never used up: the provider     *)
(* redelivers, and deliveries overtake each other.                         *)

callbackFrame == <<lines, overdue, links, paused, checkout, request, linking, invoiced,
                   abandoned>>

\* RecordRejected: the signature failed, only the raw body is filed.
RecordRejected(c) ==
  /\ ~c.verified
  /\ events' = events \cup {c}
  /\ UNCHANGED <<variantVars, status, payments, outbox, funnelVars, callbackFrame>>

\* The callback names an order this shop does not have.
OrderMissing(c) ==
  /\ c.verified /\ c.order \notin Placed
  /\ events' = events \cup {c}
  /\ UNCHANGED <<variantVars, status, payments, outbox, funnelVars, callbackFrame>>

\* Fault (mutation run): every callback that says paid is counted as a purchase.
ApplyCountsEveryDelivery(c) ==
  LET o == c.order
      target == MapStatus(c.raw, c.fullyPaid)
      applied == c \notin events /\ Decides(status[o], target)
  IN /\ c.verified /\ o \in Placed
     /\ payments' = payments \cup {o}
     /\ events' = events \cup {c}
     /\ unrecorded' = IF target = "paid" THEN unrecorded \cup {o} ELSE unrecorded
     /\ \/ applied /\ SettleStock(o, target) /\ MoveTo({o}, target)
        \/ ~applied /\ UNCHANGED variantVars /\ StatusUnmoved
     /\ UNCHANGED <<funnel, callbackFrame>>

\* Apply: payment row, raw event, status, stock and message in one transaction.
\* The payment row is written before the event tells a redelivery apart.
Apply(c) ==
  LET o == c.order
      target == MapStatus(c.raw, c.fullyPaid)
      applied == c \notin events /\ Decides(status[o], target)
  IN /\ c.verified /\ o \in Placed
     /\ payments' = payments \cup {o}
     /\ events' = events \cup {c}
     /\ \/ /\ applied
           /\ SettleStock(o, target)
           /\ MoveTo({o}, target)
           /\ unrecorded' = IF target = "paid" THEN unrecorded \cup {o} ELSE unrecorded
        \/ ~applied /\ UNCHANGED <<variantVars, unrecorded>> /\ StatusUnmoved
     /\ UNCHANGED <<funnel, callbackFrame>>

\* The handler records the purchase after its transaction has committed ...
RecordOrderPaid(o) ==
  /\ o \in unrecorded
  /\ funnel' = [funnel EXCEPT ![o] = @ + 1]
  /\ unrecorded' = unrecorded \ {o}
  /\ UNCHANGED <<variantVars, status, outbox, paymentVars, callbackFrame>>

\* ... unless it fails or stops first, which is only logged, or finds no visit of
\* the buyer to file the event against.
PurchaseLost(o) ==
  /\ o \in unrecorded
  /\ unrecorded' = unrecorded \ {o}
  /\ UNCHANGED <<variantVars, status, outbox, paymentVars, funnel, callbackFrame>>

-----------------------------------------------------------------------------
(* The expiry worker and the clock it reads.                               *)

workerFrame == <<lines, paymentVars, links, paused, funnelVars, checkout, request,
                 linking, invoiced, abandoned>>

\* expires_at passes. Nothing reads it once an order has left these statuses.
DeadlinePasses(o) ==
  /\ status[o] \in {"created", "awaiting_payment"}
  /\ o \notin overdue
  /\ overdue' = overdue \cup {o}
  /\ UNCHANGED <<variantVars, status, outbox, workerFrame>>

\* Fault (mutation run): an order somebody began to pay is never due.
DueUnlessInvoiced == {o \in overdue : status[o] = "awaiting_payment" /\ o \notin payments}

\* ListDueOrders.
Due == {o \in overdue : status[o] = "awaiting_payment"}

\* Fault (mutation run): the worker expires without telling anyone.
ExpireDueSilently(os) ==
  /\ os \in SUBSET Due /\ os # {}
  /\ Cardinality(os) <= Batch
  /\ ReleaseItems(os)
  /\ status' = [o \in Order |-> IF o \in os THEN "expired" ELSE status[o]]
  /\ UNCHANGED <<outbox, overdue, workerFrame>>

\* One pass. Orders whose row another transaction has locked are skipped, so a
\* pass may take any of the due orders.
ExpireDue(os) ==
  /\ os \in SUBSET Due /\ os # {}
  /\ Cardinality(os) <= Batch
  /\ ReleaseItems(os)
  /\ MoveTo(os, "expired")
  /\ UNCHANGED <<overdue, workerFrame>>

-----------------------------------------------------------------------------
(* The admin panel.                                                        *)

adminFrame == <<lines, overdue, paymentVars, links, funnelVars, checkout, linking, invoiced,
                abandoned>>

\* ChangeStatus reads the order without a lock and judges the move on that.
JudgeMove(a, o, to) ==
  /\ request[a] = Idle
  /\ o \in Placed
  /\ to \in ManualTargets(status[o])
  /\ request' = [request EXCEPT ![a] =
                   [phase |-> "judged", order |-> o, from |-> status[o], to |-> to]]
  /\ UNCHANGED <<variantVars, status, outbox, paused, adminFrame>>

\* Fault (mutation run): cancelling an expired order releases its units again.
CancelStockUnlessPaid(o, from, to) ==
  \/ to = "cancelled" /\ from # "paid" /\ ReleaseItems({o})
  \/ to = "cancelled" /\ from = "paid" /\ RestockItems(o)
  \/ to # "cancelled" /\ UNCHANGED variantVars

\* What cancelling owes the shelf depends on where the units are.
CancelStock(o, from, to) ==
  \/ to = "cancelled" /\ from = "awaiting_payment" /\ ReleaseItems({o})
  \/ to = "cancelled" /\ from = "paid" /\ RestockItems(o)
  \/ (to # "cancelled" \/ from \notin {"awaiting_payment", "paid"}) /\ UNCHANGED variantVars

\* Fault (mutation run): the judged status is trusted instead of compared.
TransitionUnchecked(a) ==
  LET r == request[a]
  IN /\ r # Idle
     /\ request' = [request EXCEPT ![a] = Idle]
     /\ CancelStock(r.order, r.from, r.to)
     /\ MoveTo({r.order}, r.to)
     /\ UNCHANGED <<paused, adminFrame>>

\* Transition: under the order lock, and only from the status that was judged.
Transition(a) ==
  LET r == request[a]
  IN /\ r # Idle
     /\ request' = [request EXCEPT ![a] = Idle]
     /\ \/ /\ status[r.order] = r.from
           /\ CancelStock(r.order, r.from, r.to)
           /\ MoveTo({r.order}, r.to)
        \/ status[r.order] # r.from /\ UNCHANGED variantVars /\ StatusUnmoved
     /\ UNCHANGED <<paused, adminFrame>>

\* SetStock: an absolute number, refused below what is reserved.
SetStock(v, n) ==
  /\ n >= reserved[v]
  /\ stock' = [stock EXCEPT ![v] = n]
  /\ UNCHANGED <<reserved, status, outbox, paused, request, adminFrame>>

SetPaused(p) ==
  /\ p # paused
  /\ paused' = p
  /\ UNCHANGED <<variantVars, status, outbox, request, adminFrame>>

-----------------------------------------------------------------------------
(* LinkOrder: the status is read without a lock, then the link and the     *)
(* message that announces it are inserted.                                 *)

linkFrame == <<variantVars, status, lines, overdue, paymentVars, paused, funnelVars, checkout,
               request, invoiced, abandoned>>

ReadLinkedOrder(c, o) ==
  /\ linking[c] = Idle
  /\ o \in Placed
  /\ linking' = [linking EXCEPT ![c] = [phase |-> "read", order |-> o, status |-> status[o]]]
  /\ UNCHANGED <<links, outbox, linkFrame>>

InsertLink(c) ==
  LET o == linking[c].order
  IN /\ linking[c] # Idle
     /\ linking' = [linking EXCEPT ![c] = Idle]
     /\ links' = [links EXCEPT ![o] = @ \cup {c}]
     /\ Enqueue({o}, "order_linked", linking[c].status, links')
     /\ UNCHANGED linkFrame

-----------------------------------------------------------------------------
Checkout(o) ==
  \/ \E cart \in Cart : ReadCart(o, cart)
  \/ Create(o) \/ OutOfStock(o)
  \/ InvoiceCreated(o) \/ InvoiceFailed(o)
  \/ AttachPayment(o) \/ Abandon(o)

\* Anyone may send a body that fails its signature check. A verified callback is
\* the provider's: about an order it holds an invoice for, or (another shop on the
\* same account) about an order number unknown here.
Deliverable(c) == ~c.verified \/ c.order \in invoiced \cup {NoOrder}

Receive(c) == Deliverable(c) /\ (RecordRejected(c) \/ OrderMissing(c) \/ Apply(c))

Next ==
  \/ \E o \in Order : Checkout(o) \/ CheckoutDies(o) \/ DeadlinePasses(o)
  \/ \E c \in Callback : Receive(c)
  \/ \E o \in Order : RecordOrderPaid(o) \/ PurchaseLost(o)
  \/ \E os \in SUBSET Order : ExpireDue(os)
  \/ \E a \in Admin, o \in Order, to \in manualTargets : JudgeMove(a, o, to)
  \/ \E a \in Admin : Transition(a)
  \/ \E v \in Recounted, n \in 0..MaxStock : SetStock(v, n)
  \/ \E p \in BOOLEAN : SetPaused(p)
  \/ \E c \in Chat, o \in Order : ReadLinkedOrder(c, o)
  \/ \E c \in Chat : InsertLink(c)

Spec == Init /\ [][Next]_vars

\* The clock advances and the worker ticks every minute. A due order is locked by
\* others only for the length of a transaction and the oldest deadlines come
\* first, so the worker gets to every order that stays due. Buyers, the provider
\* and administrators owe nothing.
Fairness ==
  \A o \in Order :
    /\ WF_vars(DeadlinePasses(o))
    /\ WF_vars(\E os \in SUBSET Order : o \in os /\ ExpireDue(os))

\* A checkout handler that has started does not stop in the middle for ever: it
\* takes its next step or dies.
CheckoutFairness ==
  \A o \in Order :
    WF_vars(/\ checkout[o] \notin {"idle", "done"}
            /\ Checkout(o) \/ CheckoutDies(o))

FairSpec == Spec /\ Fairness /\ CheckoutFairness

-----------------------------------------------------------------------------
(* Invariants.                                                             *)

TypeOK ==
  /\ stock \in [Variant -> Nat]
  /\ reserved \in [Variant -> Nat]
  /\ status \in [Order -> Status \cup {absent}]
  /\ lines \in [Order -> Lines]
  /\ overdue \subseteq Order
  /\ payments \subseteq Order
  /\ events \subseteq Callback
  /\ links \in [Order -> SUBSET Chat]
  /\ outbox \subseteq Notification
  /\ paused \in BOOLEAN
  /\ funnel \in [Order -> Nat]
  /\ unrecorded \subseteq Order
  /\ checkout \in [Order -> CheckoutPhase]
  /\ request \in [Admin -> Request]
  /\ linking \in [Chat -> Linking]
  /\ invoiced \subseteq Order
  /\ abandoned \subseteq Order

\* "stock - reserved >= 0 for any sequence of operations" (tech.md 11.4): no
\* interleaving of checkouts, callbacks, expiry, cancellations and recounts - not
\* even one in which an abandoned order is paid - leaves a variant with more units
\* promised than it has.
NoOversell == \A v \in Variant : reserved[v] <= stock[v]

Sold == {"paid", "shipped", "delivered", "refunded"}

\* The orders whose units are reserved: written with their reservation and neither
\* paid, expired, cancelled nor given up by their checkout.
Holders == {o \in Order : /\ status[o] \in {"created", "awaiting_payment"}
                          /\ o \notin abandoned}

\* The counter kept by four different statements in five transactions is exactly
\* the units of the orders that still hold theirs: nothing leaks out of a
\* reservation, nothing is given back twice, and the clamps never hide either.
ReservedExactly ==
  \A v \in Variant : reserved[v] = Qty(Holders, lines, v)

\* "An order in awaiting_payment always has a payment row" (AttachPayment), and so
\* has every order beyond it: no order gets past created without one, whichever of
\* the checkout and the provider's first callback wins.
PastCreatedHasPayment ==
  \A o \in Placed : status[o] # "created" => o \in payments

\* The purchase is counted at most once per order, and only for an order that was
\* paid, however often the provider redelivers.
PurchaseCountedOnce ==
  \A o \in Order :
    /\ funnel[o] + (IF o \in unrecorded THEN 1 ELSE 0) <= 1
    /\ funnel[o] = 1 => status[o] \in Sold \cup {"cancelled"}

\* Whoever follows an order is told the status it is in: the bot answers a link
\* with the current status and every later transition queues a message.
FollowerKnowsStatus ==
  \A o \in Order : links[o] # {} => \E n \in outbox : n.order = o /\ n.status = status[o]

-----------------------------------------------------------------------------
(* Action properties.                                                      *)

\* However stale what an administrator, a checkout or a callback has read: an
\* order appears as created and then only moves along CanTransition.
OnlyLegalMoves ==
  [][\A o \in Order :
       status'[o] # status[o] =>
         \/ status[o] = absent /\ status'[o] = "created"
         \/ CanTransition(status[o], status'[o])]_vars

\* An order becomes paid only in the transaction that files, for the first time, a
\* callback about it that carries a valid signature and the full amount.
PaidOnlyByNewCallback ==
  [][\A o \in Order :
       status[o] # "paid" /\ status'[o] = "paid" =>
         \E c \in events' \ events :
           c.verified /\ c.order = o /\ c.fullyPaid /\ c.raw \in {"confirmed", "finished"}]_vars

\* A transition of a followed order and the message that announces it land in the
\* same step, whoever makes the transition (tech.md 5.4 rule 4).
MovesAnnounced ==
  [][\A o \in Order :
       status[o] # absent /\ status'[o] # status[o] /\ links[o] # {} =>
         \E n \in outbox' : /\ n.order = o /\ n.kind = "status_changed"
                            /\ n.status = status'[o] /\ n.chat \in links[o]]_vars

-----------------------------------------------------------------------------
(* Liveness.                                                               *)

\* A buyer who never pays does not keep the units: every order that awaits payment
\* is eventually settled, if by nothing else then by the worker.
AwaitingEnds ==
  \A o \in Order : status[o] = "awaiting_payment" ~> status[o] # "awaiting_payment"

\* The reservation of every order that is never paid ends.
ReservationEnds == \A o \in Order : o \in Holders ~> o \notin Holders

-----------------------------------------------------------------------------
(* OrderStock implements StockLedger when an order whose checkout failed   *)
(* is never called back (~LostReplies).                                    *)

custodyOf(o) ==
  CASE status[o] = absent -> "none"
    [] o \in Holders -> "held"
    [] status[o] \in Sold -> "sold"
    [] OTHER -> "back"

Ledger == INSTANCE StockLedger WITH
            available <- [v \in Variant |-> stock[v] - reserved[v]],
            custody <- [o \in Order |-> custodyOf(o)],
            asked <- [o \in Order |-> IF status[o] = absent THEN NoLines ELSE lines[o]]

\* Every step is a step of the ledger or moves no units: an order's units are taken
\* once and in full, sold or given back once, and put back on the shelf only by
\* the cancellation of a sold order.
LedgerSpec == Ledger!Spec
=============================================================================
