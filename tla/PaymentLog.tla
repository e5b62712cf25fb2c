----------------------------- MODULE PaymentLog -----------------------------
(***************************************************************************)
(* What one order keeps of its provider's callbacks: the payment rows, the *)
(* raw log and the status (postgres/payment.go, handler/webhook/           *)
(* nowpayments.go), and what the panel reads out of them (domain/payment/  *)
(* admin.go, sqlcgen/orderadmin.sql.go).                                   *)
(*                                                                         *)
(* OrderStock has the stock, the messages and the funnel that move with    *)
(* the status. Here a callback may fail halfway, its answer may get lost,  *)
(* and the provider may send any callback again at any time, an old one    *)
(* after a newer one included.                                             *)
(***************************************************************************)
EXTENDS OrderStatus, Naturals, FiniteSets, Sequences, SequencesExt

CONSTANTS
  Callback,       \* [payment, status, paid] the provider may send about the order
  Invoice,        \* the payment row the checkout itself writes
  Forged,         \* bodies whose signature does not verify
  Handler,        \* callbacks handled at the same time
  MaxDeliveries   \* bound on the callbacks delivered

ASSUME CallbackAssumption ==
  \A c \in Callback : c.status \in ProviderStatus /\ c.paid \in {"unread", "short", "full"}
\* A rejected body is filed under a key no accepted one can have.
ASSUME ForgedAssumption == Forged \cap Callback = {}
ASSUME MaxDeliveriesAssumption == MaxDeliveries \in Nat

VARIABLES
  order,      \* orders.status
  rows,       \* payments, by provider_payment_id
  log,        \* payment_events, in the order they were committed
  handler,    \* callbacks in progress
  clock,      \* moments at which a transaction has begun
  delivered,  \* callbacks delivered so far
  acked,      \* history: callbacks the provider has an answer 200 for
  early       \* history: callbacks filed before the checkout had attached its invoice

paymentVars == <<order, rows, log, handler, clock, delivered, acked, early>>

Payment == {Invoice} \cup {c.payment : c \in Callback}
NoPayment == [status |-> "none", paid |-> "unread"]
Idle == [phase |-> "idle"]
Events == [body : Callback \cup Forged, signed : BOOLEAN, received : Nat]

PaymentInit ==
  /\ order = "created" /\ log = <<>> /\ clock = 0 /\ delivered = 0 /\ acked = {} /\ early = {}
  /\ rows = [p \in Payment |-> NoPayment]
  /\ handler = [h \in Handler |-> Idle]

\* ON CONFLICT DO UPDATE: the status is replaced, an amount only by a readable one.
UpsertPayment(p, status, paid) ==
  [rows EXCEPT ![p] = [status |-> status, paid |-> IF paid = "unread" THEN @.paid ELSE paid]]

\* AttachInvoice: the checkout has its invoice.
AttachInvoice ==
  /\ order = "created"
  /\ order' = "awaiting_payment"
  /\ rows' = UpsertPayment(Invoice, "waiting", "unread")
  /\ UNCHANGED <<log, handler, clock, delivered, acked, early>>

\* The expiry worker, or an administrator.
Close(to) ==
  /\ order # "created" /\ CanTransition(order, to)
  /\ order' = to
  /\ UNCHANGED <<rows, log, handler, clock, delivered, acked, early>>

\* A request with a valid signature and a body that parses; the transaction begins, and
\* with it the moment now() stands for. The provider holds an invoice; whether the checkout
\* has attached it yet, no handler asks.
Receive(h, c) ==
  /\ handler[h] = Idle
  /\ delivered < MaxDeliveries
  /\ delivered' = delivered + 1
  /\ clock' = clock + 1
  /\ handler' = [handler EXCEPT ![h] = [phase |-> "begun", body |-> c, began |-> clock]]
  /\ UNCHANGED <<order, rows, log, acked, early>>

OnFile(body) == \E i \in 1..Len(log) : log[i].body = body

\* The dedup key is a digest of the whole body.
DedupKey(c) == c

\* InsertPaymentEvent ... ON CONFLICT (dedup_key) DO NOTHING.
recordEvent(body, signed, received) ==
  IF OnFile(DedupKey(body)) THEN log
  ELSE Append(log, [body |-> body, signed |-> signed, received |-> received])

\* A bad signature: the body is filed under a key of its own and nothing is parsed.
RecordRejected(f) ==
  /\ delivered < MaxDeliveries
  /\ delivered' = delivered + 1
  /\ clock' = clock + 1
  /\ log' = recordEvent(f, FALSE, clock)
  /\ UNCHANGED <<order, rows, handler, acked, early>>

FullyPaid(c) == c.paid = "full"

\* decide, under the lock of the order.
Decide(c) ==
  LET target == MapStatus(c.status, FullyPaid(c))
  IN IF Decides(order, target) THEN target ELSE order

\* Apply, committed: the payment row first, then the log, then - unless the callback is
\* on file already - the order.
Apply(h) ==
  LET c == handler[h].body
  IN /\ handler[h].phase = "begun"
     /\ rows' = UpsertPayment(c.payment, c.status, c.paid)
     /\ log' = recordEvent(c, TRUE, handler[h].began)
     /\ order' = IF OnFile(DedupKey(c)) THEN order ELSE Decide(c)
     /\ early' = IF order = "created" THEN early \cup {c} ELSE early
     /\ handler' = [handler EXCEPT ![h].phase = "applied"]
     /\ UNCHANGED <<clock, delivered, acked>>

\* Fault (mutation run): the event is filed in a transaction of its own.
ApplyFailsFiled(h) ==
  /\ handler[h].phase = "begun"
  /\ log' = recordEvent(handler[h].body, TRUE, handler[h].began)
  /\ handler' = [handler EXCEPT ![h] = Idle]
  /\ UNCHANGED <<order, rows, clock, delivered, acked, early>>

\* Fault (mutation run): the payment row is written in a transaction of its own.
ApplyFailsRowKept(h) ==
  /\ handler[h].phase = "begun"
  /\ rows' = LET c == handler[h].body IN UpsertPayment(c.payment, c.status, c.paid)
  /\ handler' = [handler EXCEPT ![h] = Idle]
  /\ UNCHANGED <<order, log, clock, delivered, acked, early>>

\* A statement fails or the process stops: the transaction is rolled back as a whole, and
\* the answer, if there is one, is a 500.
ApplyFails(h) ==
  /\ handler[h].phase = "begun"
  /\ handler' = [handler EXCEPT ![h] = Idle]
  /\ UNCHANGED <<order, rows, log, clock, delivered, acked, early>>

\* The 200 arrives, or gets lost.
Answered(h) ==
  /\ handler[h].phase = "applied"
  /\ acked' \in {acked, acked \cup {handler[h].body}}
  /\ handler' = [handler EXCEPT ![h] = Idle]
  /\ UNCHANGED <<order, rows, log, clock, delivered, early>>

PaymentNext ==
  \/ AttachInvoice
  \/ \E to \in {"expired", "cancelled"} : Close(to)
  \/ \E h \in Handler, c \in Callback : Receive(h, c)
  \/ \E h \in Handler : Apply(h) \/ ApplyFails(h) \/ Answered(h)
  \/ \E f \in Forged : RecordRejected(f)

PaymentSpec == PaymentInit /\ [][PaymentNext]_paymentVars

-----------------------------------------------------------------------------
(* What the panel shows.                                                   *)

\* The flag of the order list: EXISTS a payment of the order with that status.
PartiallyPaid == \E p \in Payment : rows[p].status = "partially_paid"

\* ListPaymentEventsByOrder: the events of the order's payments, each with the moment its
\* transaction began, which no two share, and beside the amounts its payment has now.
PaymentEventsByOrder ==
  {[status |-> log[i].body.status, received |-> log[i].received,
    paid |-> rows[log[i].body.payment].paid] : i \in {j \in 1..Len(log) : log[j].signed}}

\* The notice of the card reads the newest event only.
IsPartial(entries) ==
  \E e \in entries :
    e.status = "partially_paid" /\ \A other \in entries : other.received <= e.received

-----------------------------------------------------------------------------
(* Properties.                                                             *)

Settling(c) == MapStatus(c.status, FullyPaid(c)) = "paid"

\* "A callback that fails halfway leaves nothing behind and can be redelivered" (Apply):
\* once the provider has its answer to a full payment, and will not ask again, the order
\* is not waiting for a payment - however often the callback failed before. Not so when the
\* callback overtook the checkout: then it is filed and acknowledged and moves nothing.
SettledOnceAcknowledged ==
  \A c \in acked \ early : Settling(c) => order \notin {"created", "awaiting_payment"}

\* "confirmed|finished with actually_paid >= pay_amount -> paid" (tech.md 5.4, rule 3): a
\* full payment the shop has acknowledged is not waited for, whichever came first, the
\* payment or the checkout's own AttachPayment.
AcknowledgedIsSettled ==
  \A c \in acked : Settling(c) => order # "awaiting_payment"

\* The flag of the order list and the log on the card are read from different tables. They
\* tell one story: what the list flags, the card can show, and while a single callback is
\* on file the two agree, unless it came for the row that the checkout writes as well.
CardExplainsFlag ==
  LET entries == PaymentEventsByOrder
  IN /\ PartiallyPaid => \E e \in entries : e.status = "partially_paid"
     /\ Cardinality(entries) <= 1 /\ (\A c \in Callback : OnFile(c) => c.payment # Invoice)
          => (PartiallyPaid <=> IsPartial(entries))

\* "It is idempotent by construction: the dedup key stops redelivery" (Service): what the
\* payment row says is what the last callback that was filed for it said.
RowIsLastFiled ==
  \A p \in Payment :
    LET last == SelectLastInSeq(log, LAMBDA e : e.signed /\ e.body.payment = p)
    IN last # 0 => rows[p].status = log[last].body.status
=============================================================================
