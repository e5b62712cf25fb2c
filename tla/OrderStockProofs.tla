-------------------------- MODULE OrderStockProofs --------------------------
(***************************************************************************)
(* Theorems about OrderStock, for any number of orders, variants,          *)
(* callbacks, chats and administrators and any quantities. The last part   *)
(* is about its stock, counted: the reservation counter is exact, and with *)
(* it OrderStock implements StockLedger.                                   *)
(***************************************************************************)
EXTENDS OrderStock, FiniteSetTheorems, TLAPS

-----------------------------------------------------------------------------
(* Counting the units of a set of orders: a sum over orders grows and      *)
(* shrinks by exactly the lines of the orders that enter and leave the set.*)

\* The clamped subtraction stays a natural number, and is a plain subtraction
\* where there is enough to take from.
LEMMA MinusNat ==
  ASSUME NEW x \in Nat, NEW q \in Nat
  PROVE  /\ Minus(x, q) \in Nat
         /\ q <= x => Minus(x, q) = x - q
         /\ Minus(x, q) <= x
  BY DEF Minus

\* The units of a set of orders can be counted.
LEMMA UnitsFinite ==
  ASSUME NEW os \in SUBSET Order, NEW f, NEW v
  PROVE  IsFiniteSet(UnitsOf(os, f, v)) /\ Qty(os, f, v) \in Nat
<1>1. IsFiniteSet(os) /\ IsFiniteSet(1..MaxQty)
  BY OrderAssumption, MaxQtyAssumption, FS_Subset, FS_Interval
<1>2. IsFiniteSet(os \X (1..MaxQty))
  BY <1>1, FS_Product
<1>3. UnitsOf(os, f, v) \in SUBSET (os \X (1..MaxQty))
  BY DEF UnitsOf
<1>4. IsFiniteSet(UnitsOf(os, f, v))
  BY <1>2, <1>3, FS_Subset
<1> QED
  BY <1>4, FS_CardinalityType DEF Qty

\* One order has as many units of a variant as its line says.
LEMMA QtyOfOne ==
  ASSUME NEW o \in Order, NEW f \in [Order -> Lines], NEW v \in Variant
  PROVE  Qty({o}, f, v) = f[o][v]
<1>1. f[o][v] \in 0..MaxQty
  BY DEF Lines
<1> DEFINE q == f[o][v]
<1>2. UnitsOf({o}, f, v) = {o} \X (1..q)
  <2>1. ASSUME NEW u \in UnitsOf({o}, f, v)
        PROVE  u \in {o} \X (1..q)
    BY <1>1, MaxQtyAssumption DEF UnitsOf
  <2>2. ASSUME NEW u \in {o} \X (1..q)
        PROVE  u \in UnitsOf({o}, f, v)
    BY <1>1, MaxQtyAssumption DEF UnitsOf
  <2> QED
    BY <2>1, <2>2
<1>3. IsFiniteSet({o}) /\ Cardinality({o}) = 1
  BY FS_Singleton
<1>4. q \in Nat
  BY <1>1, MaxQtyAssumption
<1> HIDE DEF q
<1>5. IsFiniteSet(1..q) /\ Cardinality(1..q) = q
  <2>1. 1 \in Int /\ q \in Int
    BY <1>4
  <2>2. IsFiniteSet(1..q) /\ Cardinality(1..q) = IF 1 > q THEN 0 ELSE q - 1 + 1
    BY <2>1, FS_Interval
  <2> QED
    BY <1>4, <2>2
<1>6. Cardinality({o} \X (1..q)) = Cardinality({o}) * Cardinality(1..q)
  BY <1>3, <1>5, FS_Product
<1>7. Qty({o}, f, v) = 1 * q
  BY <1>2, <1>3, <1>5, <1>6 DEF Qty
<1> QED
  BY <1>4, <1>7 DEF q

\* Two disjoint sets of orders have their units apart.
LEMMA QtyOfUnion ==
  ASSUME NEW os \in SUBSET Order, NEW ps \in SUBSET Order, os \cap ps = {}, NEW f, NEW v
  PROVE  Qty(os \cup ps, f, v) = Qty(os, f, v) + Qty(ps, f, v)
<1> DEFINE U == UnitsOf(os, f, v)
           W == UnitsOf(ps, f, v)
<1>1. UnitsOf(os \cup ps, f, v) = U \cup W
  BY DEF UnitsOf
<1>2. U \cap W = {}
  BY DEF UnitsOf
<1>3. IsFiniteSet(U) /\ IsFiniteSet(W) /\ Cardinality(U) \in Nat /\ Cardinality(W) \in Nat
  BY UnitsFinite DEF Qty
<1>4. Cardinality(U \cup W) = Cardinality(U) + Cardinality(W) - Cardinality(U \cap W)
  BY <1>3, FS_Union
<1>5. Cardinality(U \cap W) = 0
  BY <1>2, FS_EmptySet
<1> HIDE DEF U, W
<1>6. Cardinality(U \cup W) = Cardinality(U) + Cardinality(W)
  BY <1>3, <1>4, <1>5
<1> QED
  BY <1>1, <1>6 DEF Qty, U, W

\* Orders that leave a set take exactly their own units with them.
LEMMA QtyOfDifference ==
  ASSUME NEW os \in SUBSET Order, NEW ps \in SUBSET os, NEW f, NEW v
  PROVE  /\ Qty(ps, f, v) <= Qty(os, f, v)
         /\ Qty(os \ ps, f, v) = Qty(os, f, v) - Qty(ps, f, v)
<1>1. (os \ ps) \cap ps = {} /\ os = (os \ ps) \cup ps
  OBVIOUS
<1>2. Qty(os, f, v) = Qty(os \ ps, f, v) + Qty(ps, f, v)
  BY <1>1, QtyOfUnion
<1>3. Qty(os \ ps, f, v) \in Nat /\ Qty(ps, f, v) \in Nat
  BY UnitsFinite
<1> QED
  BY <1>2, <1>3

\* Only the lines of the orders in the set count.
LEMMA QtyDependsOnMembers ==
  ASSUME NEW os \in SUBSET Order, NEW f, NEW g, NEW v, \A o \in os : f[o] = g[o]
  PROVE  Qty(os, f, v) = Qty(os, g, v)
<1>1. UnitsOf(os, f, v) = UnitsOf(os, g, v)
  BY DEF UnitsOf
<1> QED
  BY <1>1 DEF Qty

-----------------------------------------------------------------------------
(* Type correctness.                                                       *)

LEMMA NoLinesType == NoLines \in Lines
BY MaxQtyAssumption DEF NoLines, Lines

LEMMA InitType == Init => TypeOK
<1> SUFFICES ASSUME Init PROVE TypeOK
  OBVIOUS
<1>1. stock \in [Variant -> Nat] /\ reserved \in [Variant -> Nat]
  <2>1. \A n \in 0..MaxStock : n \in Nat
    BY BoundsAssumption
  <2> QED
    BY <2>1 DEF Init
<1>2. lines \in [Order -> Lines]
  BY NoLinesType DEF Init
<1>3. request \in [Admin -> Request] /\ linking \in [Chat -> Linking]
  BY DEF Init, Request, Linking
<1> QED
  BY <1>1, <1>2, <1>3 DEF Init, TypeOK, CheckoutPhase

\* What releasing, committing and restocking leave in the two stock columns.
LEMMA ReleaseType ==
  ASSUME TypeOK, NEW os \in SUBSET Order, ReleaseItems(os)
  PROVE  /\ stock' = stock
         /\ reserved' \in [Variant -> Nat]
         /\ \A v \in Variant : reserved'[v] <= reserved[v]
<1>1. ASSUME NEW v \in Variant
      PROVE  /\ Minus(reserved[v], Qty(os, lines, v)) \in Nat
             /\ Minus(reserved[v], Qty(os, lines, v)) <= reserved[v]
  BY MinusNat, UnitsFinite DEF TypeOK
<1> QED
  BY <1>1 DEF ReleaseItems

LEMMA CommitType ==
  ASSUME TypeOK, NEW o \in Order, CommitItems(o)
  PROVE  stock' \in [Variant -> Nat] /\ reserved' \in [Variant -> Nat]
<1>1. ASSUME NEW v \in Variant
      PROVE  Minus(stock[v], lines[o][v]) \in Nat /\ Minus(reserved[v], lines[o][v]) \in Nat
  <2>1. lines[o][v] \in Nat
    BY MaxQtyAssumption DEF TypeOK, Lines
  <2> QED
    BY <2>1, MinusNat DEF TypeOK
<1> QED
  BY <1>1 DEF CommitItems

LEMMA RestockType ==
  ASSUME TypeOK, NEW o \in Order, RestockItems(o)
  PROVE  /\ stock' \in [Variant -> Nat]
         /\ reserved' = reserved
         /\ \A v \in Variant : stock[v] <= stock'[v]
<1>1. ASSUME NEW v \in Variant
      PROVE  stock[v] + lines[o][v] \in Nat /\ stock[v] <= stock[v] + lines[o][v]
  BY MaxQtyAssumption DEF TypeOK, Lines
<1> QED
  BY <1>1 DEF RestockItems

LEMMA EnqueueType ==
  ASSUME TypeOK, NEW os \in SUBSET Order, NEW kind \in Kind, NEW st \in Status,
         NEW followers, Enqueue(os, kind, st, followers)
  PROVE  outbox' \subseteq Notification
BY DEF TypeOK, Enqueue, Notification

LEMMA MoveType ==
  ASSUME TypeOK, NEW os \in SUBSET Order, NEW st \in Status, MoveTo(os, st)
  PROVE  status' \in [Order -> Status \cup {absent}] /\ outbox' \subseteq Notification
BY EnqueueType DEF TypeOK, MoveTo, Kind

LEMMA CheckoutType ==
  ASSUME TypeOK, NEW o \in Order, Checkout(o) \/ CheckoutDies(o)
  PROVE  TypeOK'
<1>1. ASSUME NEW cart \in Cart, ReadCart(o, cart) PROVE TypeOK'
  BY <1>1 DEF ReadCart, checkoutFrame, funnelVars, variantVars, TypeOK, Cart, CheckoutPhase
<1>2. CASE Create(o)
  <2>1. \A v \in Variant : reserved[v] + lines[o][v] \in Nat
    BY MaxQtyAssumption DEF TypeOK, Lines
  <2> QED
    BY <1>2, <2>1 DEF Create, checkoutFrame, funnelVars, TypeOK, CheckoutPhase, Status
<1>3. CASE OutOfStock(o)
  BY <1>3, NoLinesType
     DEF OutOfStock, checkoutFrame, funnelVars, variantVars, TypeOK, CheckoutPhase
<1>4. CASE InvoiceCreated(o)
  BY <1>4 DEF InvoiceCreated, checkoutFrame, funnelVars, variantVars, TypeOK, CheckoutPhase
<1>5. CASE InvoiceFailed(o)
  BY <1>5 DEF InvoiceFailed, checkoutFrame, funnelVars, variantVars, TypeOK, CheckoutPhase
<1>6. CASE AttachPayment(o)
  <2>1. /\ status' \in [Order -> Status \cup {absent}] /\ outbox' \subseteq Notification
        /\ payments' \subseteq Order
    <3>1. "awaiting_payment" \in Status
      BY DEF Status
    <3> QED
      BY <1>6, <3>1, MoveType DEF AttachPayment, StatusUnmoved, TypeOK
  <2> QED
    BY <1>6, <2>1 DEF AttachPayment, funnelVars, variantVars, TypeOK, CheckoutPhase
<1>7. CASE Abandon(o)
  <2>1. stock' = stock /\ reserved' \in [Variant -> Nat]
    BY <1>7, ReleaseType DEF Abandon
  <2> QED
    BY <1>7, <2>1 DEF Abandon, checkoutFrame, funnelVars, TypeOK, CheckoutPhase
<1>8. CASE CheckoutDies(o)
  BY <1>8, NoLinesType
     DEF CheckoutDies, checkoutFrame, funnelVars, variantVars, TypeOK, CheckoutPhase
<1> QED
  BY <1>1, <1>2, <1>3, <1>4, <1>5, <1>6, <1>7, <1>8 DEF Checkout

\* A status a callback asks for is known wherever the machine lets it through.
LEMMA TransitionTargets ==
  ASSUME NEW from, NEW to, CanTransition(from, to)
  PROVE  from \in Status /\ to \in Status
BY DEF CanTransition, transitions, Status

LEMMA SettleType ==
  ASSUME TypeOK, NEW o \in Order, NEW to, SettleStock(o, to)
  PROVE  stock' \in [Variant -> Nat] /\ reserved' \in [Variant -> Nat]
BY CommitType, ReleaseType DEF SettleStock, variantVars, TypeOK

LEMMA ReceiveType ==
  ASSUME TypeOK, NEW c \in Callback, Receive(c)
  PROVE  TypeOK'
<1>1. CASE RecordRejected(c) \/ OrderMissing(c)
  BY <1>1 DEF RecordRejected, OrderMissing, callbackFrame, funnelVars, variantVars, TypeOK
<1>2. CASE Apply(c)
  <2> DEFINE o == c.order
             target == MapStatus(c.raw, c.fullyPaid)
             applied == c \notin events /\ Decides(status[o], target)
  <2>1. o \in Order
    BY <1>2 DEF Apply, Placed
  <2>2. CASE applied
    <3>1. target \in Status
      BY <2>2, TransitionTargets DEF Decides
    <3>2. /\ SettleStock(o, target)
          /\ MoveTo({o}, target)
          /\ unrecorded' \in {unrecorded, unrecorded \cup {o}}
      BY <1>2, <2>2 DEF Apply
    <3>3. /\ stock' \in [Variant -> Nat] /\ reserved' \in [Variant -> Nat]
          /\ status' \in [Order -> Status \cup {absent}] /\ outbox' \subseteq Notification
      BY <2>1, <3>1, <3>2, SettleType, MoveType
    <3> QED
      BY <1>2, <2>1, <3>2, <3>3 DEF Apply, callbackFrame, TypeOK
  <2>3. CASE ~applied
    BY <1>2, <2>1, <2>3 DEF Apply, callbackFrame, variantVars, StatusUnmoved, TypeOK
  <2> QED
    BY <2>2, <2>3
<1> QED
  BY <1>1, <1>2 DEF Receive

LEMMA PurchaseType ==
  ASSUME TypeOK, NEW o \in Order, RecordOrderPaid(o) \/ PurchaseLost(o)
  PROVE  TypeOK'
BY DEF RecordOrderPaid, PurchaseLost, callbackFrame, paymentVars, variantVars, TypeOK

LEMMA WorkerType ==
  ASSUME TypeOK,
         (\E o \in Order : DeadlinePasses(o)) \/ (\E os \in SUBSET Order : ExpireDue(os))
  PROVE  TypeOK'
<1>1. ASSUME NEW o \in Order, DeadlinePasses(o) PROVE TypeOK'
  BY <1>1 DEF DeadlinePasses, workerFrame, paymentVars, funnelVars, variantVars, TypeOK
<1>2. ASSUME NEW os \in SUBSET Order, ExpireDue(os) PROVE TypeOK'
  <2>1. stock' = stock /\ reserved' \in [Variant -> Nat]
    BY <1>2, ReleaseType DEF ExpireDue
  <2>2. "expired" \in Status
    BY DEF Status
  <2>3. status' \in [Order -> Status \cup {absent}] /\ outbox' \subseteq Notification
    BY <1>2, <2>2, MoveType DEF ExpireDue
  <2> QED
    BY <1>2, <2>1, <2>3 DEF ExpireDue, workerFrame, paymentVars, funnelVars, TypeOK
<1> QED
  BY <1>1, <1>2

LEMMA CancelType ==
  ASSUME TypeOK, NEW o \in Order, NEW from, NEW to, CancelStock(o, from, to)
  PROVE  stock' \in [Variant -> Nat] /\ reserved' \in [Variant -> Nat]
BY RestockType, ReleaseType DEF CancelStock, variantVars, TypeOK

LEMMA AdminType ==
  ASSUME TypeOK,
         \/ \E a \in Admin, o \in Order, to \in manualTargets : JudgeMove(a, o, to)
         \/ \E a \in Admin : Transition(a)
         \/ \E v \in Recounted, n \in 0..MaxStock : SetStock(v, n)
         \/ \E p \in BOOLEAN : SetPaused(p)
  PROVE  TypeOK'
<1>1. ASSUME NEW a \in Admin, NEW o \in Order, NEW to \in manualTargets, JudgeMove(a, o, to)
      PROVE  TypeOK'
  <2>1. [phase |-> "judged", order |-> o, from |-> status[o], to |-> to] \in Request
    BY <1>1 DEF JudgeMove, TypeOK, Placed, Request, manualTargets, Status
  <2>2. request' \in [Admin -> Request]
    BY <1>1, <2>1 DEF JudgeMove, TypeOK
  <2> QED
    BY <1>1, <2>2 DEF JudgeMove, adminFrame, paymentVars, funnelVars, variantVars, TypeOK
<1>2. ASSUME NEW a \in Admin, Transition(a)
      PROVE  TypeOK'
  <2> DEFINE r == request[a]
  <2>1. r \in [phase : {"judged"}, order : Order, from : Status, to : Status]
    BY <1>2 DEF Transition, TypeOK, Request
  <2>2. request' \in [Admin -> Request]
    BY <1>2 DEF Transition, TypeOK, Request
  <2>3. CASE status[r.order] = r.from
    <3>1. CancelStock(r.order, r.from, r.to) /\ MoveTo({r.order}, r.to)
      BY <1>2, <2>3 DEF Transition
    <3>2. /\ stock' \in [Variant -> Nat] /\ reserved' \in [Variant -> Nat]
          /\ status' \in [Order -> Status \cup {absent}] /\ outbox' \subseteq Notification
      BY <2>1, <3>1, CancelType, MoveType
    <3> QED
      BY <1>2, <2>2, <3>2 DEF Transition, adminFrame, paymentVars, funnelVars, TypeOK
  <2>4. CASE status[r.order] # r.from
    BY <1>2, <2>2, <2>4
       DEF Transition, StatusUnmoved, adminFrame, paymentVars, funnelVars, variantVars, TypeOK
  <2> QED
    BY <2>3, <2>4
<1>3. ASSUME NEW v \in Recounted, NEW n \in 0..MaxStock, SetStock(v, n)
      PROVE  TypeOK'
  <2>1. n \in Nat
    BY BoundsAssumption
  <2>2. stock' \in [Variant -> Nat]
    BY <1>3, <2>1 DEF SetStock, TypeOK
  <2> QED
    BY <1>3, <2>2 DEF SetStock, adminFrame, paymentVars, funnelVars, TypeOK
<1>4. ASSUME NEW p \in BOOLEAN, SetPaused(p)
      PROVE  TypeOK'
  BY <1>4 DEF SetPaused, adminFrame, paymentVars, funnelVars, variantVars, TypeOK
<1> QED
  BY <1>1, <1>2, <1>3, <1>4

LEMMA LinkType ==
  ASSUME TypeOK, NEW c \in Chat,
         (\E o \in Order : ReadLinkedOrder(c, o)) \/ InsertLink(c)
  PROVE  TypeOK'
<1>1. ASSUME NEW o \in Order, ReadLinkedOrder(c, o) PROVE TypeOK'
  <2>1. [phase |-> "read", order |-> o, status |-> status[o]] \in Linking
    BY <1>1 DEF ReadLinkedOrder, TypeOK, Placed, Linking
  <2> QED
    BY <1>1, <2>1 DEF ReadLinkedOrder, linkFrame, paymentVars, funnelVars, variantVars, TypeOK
<1>2. CASE InsertLink(c)
  <2>1. linking[c] \in [phase : {"read"}, order : Order, status : Status]
    BY <1>2 DEF InsertLink, TypeOK, Linking
  <2>2. linking' \in [Chat -> Linking] /\ links' \in [Order -> SUBSET Chat]
    BY <1>2, <2>1 DEF InsertLink, TypeOK, Linking
  <2>3. outbox' \subseteq Notification
    BY <1>2, <2>1, EnqueueType DEF InsertLink, Kind
  <2> QED
    BY <1>2, <2>2, <2>3 DEF InsertLink, linkFrame, paymentVars, funnelVars, variantVars, TypeOK
<1> QED
  BY <1>1, <1>2

LEMMA TypeStep ==
  ASSUME TypeOK, [Next]_vars
  PROVE  TypeOK'
<1>1. CASE UNCHANGED vars
  BY <1>1 DEF vars, TypeOK
<1>2. CASE Next
  BY <1>2, CheckoutType, ReceiveType, PurchaseType, WorkerType, AdminType, LinkType DEF Next
<1> QED
  BY <1>1, <1>2

\* Whatever the buyers, the provider, the administrators and the worker do, the
\* tables stay well formed: no column goes below zero, no status is invented.
THEOREM TypeCorrect == Spec => []TypeOK
<1>1. TypeOK /\ [Next]_vars => TypeOK'
  BY TypeStep
<1> QED
  BY <1>1, InitType, PTL DEF Spec

-----------------------------------------------------------------------------
(* Units promised never exceed units in stock. TypeOK is all it takes:     *)
(* whatever releases or commits lowers both columns by a clamped amount.   *)

LEMMA ReleaseSafe ==
  ASSUME TypeOK, NoOversell, NEW os \in SUBSET Order, ReleaseItems(os)
  PROVE  NoOversell'
<1> SUFFICES ASSUME NEW v \in Variant PROVE reserved'[v] <= stock'[v]
  BY DEF NoOversell
<1>1. stock' = stock /\ reserved'[v] <= reserved[v] /\ reserved'[v] \in Nat
  BY ReleaseType
<1> QED
  BY <1>1 DEF NoOversell, TypeOK

LEMMA CommitSafe ==
  ASSUME TypeOK, NoOversell, NEW o \in Order, CommitItems(o)
  PROVE  NoOversell'
<1> SUFFICES ASSUME NEW v \in Variant PROVE reserved'[v] <= stock'[v]
  BY DEF NoOversell
<1>1. lines[o][v] \in Nat /\ reserved[v] \in Nat /\ stock[v] \in Nat /\ reserved[v] <= stock[v]
  BY MaxQtyAssumption DEF TypeOK, Lines, NoOversell
<1>2. stock'[v] = Minus(stock[v], lines[o][v]) /\ reserved'[v] = Minus(reserved[v], lines[o][v])
  BY DEF CommitItems
<1> QED
  BY <1>1, <1>2 DEF Minus

LEMMA RestockSafe ==
  ASSUME TypeOK, NoOversell, NEW o \in Order, RestockItems(o)
  PROVE  NoOversell'
<1> SUFFICES ASSUME NEW v \in Variant PROVE reserved'[v] <= stock'[v]
  BY DEF NoOversell
<1>1. reserved' = reserved /\ stock[v] <= stock'[v] /\ stock'[v] \in Nat
  BY RestockType
<1> QED
  BY <1>1 DEF NoOversell, TypeOK

LEMMA CreateSafe ==
  ASSUME TypeOK, NoOversell, NEW o \in Order, Create(o)
  PROVE  NoOversell'
<1> SUFFICES ASSUME NEW v \in Variant PROVE reserved'[v] <= stock'[v]
  BY DEF NoOversell
<1>1. lines[o][v] \in Nat /\ reserved[v] \in Nat /\ stock[v] \in Nat
  BY MaxQtyAssumption DEF TypeOK, Lines
<1>2. stock[v] - reserved[v] >= lines[o][v]
  BY DEF Create, Fits
<1>3. reserved'[v] = reserved[v] + lines[o][v] /\ stock' = stock
  BY DEF Create
<1> QED
  BY <1>1, <1>2, <1>3

LEMMA StockUnmovedSafe ==
  ASSUME NoOversell, UNCHANGED variantVars
  PROVE  NoOversell'
BY DEF NoOversell, variantVars

LEMMA OversellStep ==
  ASSUME TypeOK, NoOversell, [Next]_vars
  PROVE  NoOversell'
<1>1. CASE UNCHANGED vars
  BY <1>1, StockUnmovedSafe DEF vars, variantVars
<1>2. ASSUME NEW o \in Order, Checkout(o) \/ CheckoutDies(o) \/ DeadlinePasses(o)
      PROVE  NoOversell'
  <2>1. CASE Create(o)
    BY <2>1, CreateSafe
  <2>2. CASE Abandon(o)
    BY <2>2, ReleaseSafe DEF Abandon
  <2>3. CASE UNCHANGED variantVars
    BY <2>3, StockUnmovedSafe
  <2>4. Create(o) \/ Abandon(o) \/ UNCHANGED variantVars
    BY <1>2 DEF Checkout, ReadCart, OutOfStock, InvoiceCreated, InvoiceFailed, AttachPayment,
                CheckoutDies, DeadlinePasses
  <2> QED
    BY <2>1, <2>2, <2>3, <2>4
<1>3. ASSUME NEW c \in Callback, Receive(c)
      PROVE  NoOversell'
  <2>1. CASE UNCHANGED variantVars
    BY <2>1, StockUnmovedSafe
  <2>2. CASE \E o \in Order : CommitItems(o)
    BY <2>2, CommitSafe
  <2>3. CASE \E o \in Order : ReleaseItems({o})
    BY <2>3, ReleaseSafe
  <2>4. \/ UNCHANGED variantVars
        \/ \E o \in Order : CommitItems(o)
        \/ \E o \in Order : ReleaseItems({o})
    BY <1>3 DEF Receive, RecordRejected, OrderMissing, Apply, Placed, SettleStock
  <2> QED
    BY <2>1, <2>2, <2>3, <2>4
<1>4. ASSUME NEW o \in Order, RecordOrderPaid(o) \/ PurchaseLost(o)
      PROVE  NoOversell'
  BY <1>4, StockUnmovedSafe DEF RecordOrderPaid, PurchaseLost
<1>5. ASSUME NEW os \in SUBSET Order, ExpireDue(os)
      PROVE  NoOversell'
  BY <1>5, ReleaseSafe DEF ExpireDue
<1>6. ASSUME NEW a \in Admin, NEW o \in Order, NEW to \in manualTargets, JudgeMove(a, o, to)
      PROVE  NoOversell'
  BY <1>6, StockUnmovedSafe DEF JudgeMove
<1>7. ASSUME NEW a \in Admin, Transition(a)
      PROVE  NoOversell'
  <2> DEFINE r == request[a]
  <2>1. r.order \in Order
    BY <1>7 DEF Transition, TypeOK, Request
  <2>2. CancelStock(r.order, r.from, r.to) \/ UNCHANGED variantVars
    BY <1>7 DEF Transition
  <2>3. CASE UNCHANGED variantVars
    BY <2>3, StockUnmovedSafe
  <2>4. CASE ReleaseItems({r.order})
    BY <2>1, <2>4, ReleaseSafe
  <2>5. CASE RestockItems(r.order)
    BY <2>1, <2>5, RestockSafe
  <2> QED
    BY <2>2, <2>3, <2>4, <2>5 DEF CancelStock
<1>8. ASSUME NEW v \in Recounted, NEW n \in 0..MaxStock, SetStock(v, n)
      PROVE  NoOversell'
  <2> SUFFICES ASSUME NEW w \in Variant PROVE reserved'[w] <= stock'[w]
    BY DEF NoOversell
  <2>1. reserved' = reserved /\ stock'[w] = IF w = v THEN n ELSE stock[w]
    BY <1>8 DEF SetStock, TypeOK
  <2>2. reserved[v] <= n
    BY <1>8, BoundsAssumption, RecountedAssumption DEF SetStock, TypeOK
  <2> QED
    BY <2>1, <2>2 DEF NoOversell
<1>9. ASSUME NEW p \in BOOLEAN, SetPaused(p)
      PROVE  NoOversell'
  BY <1>9, StockUnmovedSafe DEF SetPaused
<1>10. ASSUME NEW c \in Chat, (\E o \in Order : ReadLinkedOrder(c, o)) \/ InsertLink(c)
       PROVE  NoOversell'
  BY <1>10, StockUnmovedSafe DEF ReadLinkedOrder, InsertLink, linkFrame
<1> QED
  BY <1>1, <1>2, <1>3, <1>4, <1>5, <1>6, <1>7, <1>8, <1>9, <1>10 DEF Next

\* "stock - reserved >= 0" holds after any sequence of checkouts, callbacks, expiry
\* passes, cancellations and recounts, also when an abandoned order is paid.
THEOREM NoOversellHolds == Spec => []NoOversell
<1>1. Init => NoOversell
  <2>1. \A n \in 0..MaxStock : 0 <= n
    BY BoundsAssumption
  <2> QED
    BY <2>1 DEF Init, NoOversell
<1>2. TypeOK /\ NoOversell /\ [Next]_vars => NoOversell'
  BY OversellStep
<1> QED
  BY <1>1, <1>2, TypeCorrect, PTL DEF Spec

-----------------------------------------------------------------------------
(***************************************************************************)
(* How the status of an order moves, whoever moves it and however stale    *)
(* what it has read.                                                       *)
(*                                                                         *)
(* Two facts carry the proofs: the row of an order exists exactly from the *)
(* moment its checkout has created it (Placement), and a move an           *)
(* administrator asked for was legal from the status it was judged on      *)
(* (JudgedLegally), which Transition insists on.                           *)
(***************************************************************************)

\* Steps that leave orders, payments and reservations alone.
Quiet == UNCHANGED <<reserved, status, lines, payments, events, checkout, request,
                     invoiced, abandoned>>

LEMMA StepCases ==
  ASSUME [Next]_vars
  PROVE  \/ \E o \in Order : Checkout(o) \/ CheckoutDies(o)
         \/ \E c \in Callback : Receive(c)
         \/ \E os \in SUBSET Order : ExpireDue(os)
         \/ \E a \in Admin, o \in Order, to \in manualTargets : JudgeMove(a, o, to)
         \/ \E a \in Admin : Transition(a)
         \/ Quiet
<1>1. CASE UNCHANGED vars
  BY <1>1 DEF vars, Quiet
<1>2. ASSUME NEW o \in Order, DeadlinePasses(o) PROVE Quiet
  BY <1>2 DEF DeadlinePasses, workerFrame, paymentVars, variantVars, Quiet
<1>3. ASSUME NEW o \in Order, RecordOrderPaid(o) \/ PurchaseLost(o) PROVE Quiet
  BY <1>3 DEF RecordOrderPaid, PurchaseLost, callbackFrame, paymentVars, variantVars, Quiet
<1>4. ASSUME NEW v \in Recounted, NEW n \in 0..MaxStock, SetStock(v, n) PROVE Quiet
  BY <1>4 DEF SetStock, adminFrame, paymentVars, Quiet
<1>5. ASSUME NEW p \in BOOLEAN, SetPaused(p) PROVE Quiet
  BY <1>5 DEF SetPaused, adminFrame, paymentVars, variantVars, Quiet
<1>6. ASSUME NEW c \in Chat, (\E o \in Order : ReadLinkedOrder(c, o)) \/ InsertLink(c)
      PROVE  Quiet
  BY <1>6 DEF ReadLinkedOrder, InsertLink, linkFrame, paymentVars, variantVars, Quiet
<1> QED
  BY <1>1, <1>2, <1>3, <1>4, <1>5, <1>6 DEF Next

-----------------------------------------------------------------------------
(* The inductive invariant.                                                *)

Unplaced == {"idle", "placing"}

Placement == \A o \in Order : status[o] = absent <=> checkout[o] \in Unplaced

JudgedLegally ==
  \A a \in Admin : request[a] # Idle => request[a].to \in ManualTargets(request[a].from)

Lifecycle == TypeOK /\ Placement /\ JudgedLegally

\* A callback moves the order it names, to what it asks for, the first time it is filed.
MovedByCallback(o, c) ==
  /\ c.verified /\ c.order = o /\ c \in events' \ events
  /\ Deliverable(c) /\ Apply(c)
  /\ status'[o] = MapStatus(c.raw, c.fullyPaid)
  /\ CanTransition(status[o], status'[o])

\* Every way in which the status of an order can change.
Moved(o) ==
  \/ Create(o) /\ status[o] = absent /\ status'[o] = "created"
  \/ AttachPayment(o) /\ status[o] = "created" /\ status'[o] = "awaiting_payment"
  \/ \E c \in Callback : MovedByCallback(o, c)
  \/ status[o] = "awaiting_payment" /\ status'[o] = "expired"
  \/ /\ \E a \in Admin : Transition(a)
     /\ status'[o] \in manualTargets /\ CanTransition(status[o], status'[o])

LEMMA MoveToMoves ==
  ASSUME TypeOK, NEW os \in SUBSET Order, NEW st, MoveTo(os, st),
         NEW o \in Order, status'[o] # status[o]
  PROVE  o \in os /\ status'[o] = st
BY DEF MoveTo, TypeOK

LEMMA StatusMoves ==
  ASSUME Lifecycle, [Next]_vars, NEW o \in Order, status'[o] # status[o]
  PROVE  Moved(o)
<1> USE DEF Lifecycle
<1>1. ASSUME NEW p \in Order, Checkout(p) \/ CheckoutDies(p) PROVE Moved(o)
  <2>1. CASE Create(p)
    <3>1. p = o /\ status'[o] = "created" /\ checkout[o] = "placing"
      BY <2>1 DEF Create, TypeOK
    <3> QED
      BY <2>1, <3>1 DEF Moved, Placement, Unplaced
  <2>2. CASE AttachPayment(p)
    <3>1. status[p] = "created" /\ MoveTo({p}, "awaiting_payment")
      BY <2>2 DEF AttachPayment, StatusUnmoved
    <3>2. p = o /\ status'[o] = "awaiting_payment"
      BY <3>1, MoveToMoves
    <3> QED
      BY <2>2, <3>1, <3>2 DEF Moved
  <2>3. CASE status' = status
    BY <2>3
  <2>4. Create(p) \/ AttachPayment(p) \/ status' = status
    BY <1>1 DEF Checkout, ReadCart, OutOfStock, InvoiceCreated, InvoiceFailed, Abandon,
                CheckoutDies
  <2> QED
    BY <2>1, <2>2, <2>3, <2>4
<1>2. ASSUME NEW c \in Callback, Receive(c) PROVE Moved(o)
  <2> DEFINE target == MapStatus(c.raw, c.fullyPaid)
  <2>1. Apply(c) /\ Deliverable(c)
    BY <1>2 DEF Receive, RecordRejected, OrderMissing
  <2>2. c \notin events /\ CanTransition(status[c.order], target) /\ MoveTo({c.order}, target)
    BY <2>1 DEF Apply, StatusUnmoved, Decides
  <2>3. c.verified /\ c.order \in Order /\ c \in events' \ events
    BY <2>1, <2>2 DEF Apply, Placed
  <2>4. c.order = o /\ status'[o] = target
    BY <2>2, <2>3, MoveToMoves
  <2>5. MovedByCallback(o, c)
    BY <2>1, <2>2, <2>3, <2>4 DEF MovedByCallback
  <2> QED
    BY <2>5 DEF Moved
<1>3. ASSUME NEW os \in SUBSET Order, ExpireDue(os) PROVE Moved(o)
  <2>1. o \in os /\ status'[o] = "expired"
    BY <1>3, MoveToMoves DEF ExpireDue
  <2>2. status[o] = "awaiting_payment"
    BY <1>3, <2>1 DEF ExpireDue, Due
  <2> QED
    BY <2>1, <2>2 DEF Moved
<1>4. ASSUME NEW a \in Admin, NEW p \in Order, NEW to \in manualTargets, JudgeMove(a, p, to)
      PROVE  Moved(o)
  BY <1>4 DEF JudgeMove
<1>5. ASSUME NEW a \in Admin, Transition(a) PROVE Moved(o)
  <2> DEFINE r == request[a]
  <2>1. r.order \in Order /\ r.to \in ManualTargets(r.from)
    BY <1>5 DEF Transition, TypeOK, Request, JudgedLegally
  <2>2. status[r.order] = r.from /\ MoveTo({r.order}, r.to)
    BY <1>5 DEF Transition, StatusUnmoved
  <2>3. o = r.order /\ status'[o] = r.to
    BY <2>1, <2>2, MoveToMoves
  <2> QED
    BY <1>5, <2>1, <2>2, <2>3 DEF Moved, ManualTargets
<1> QED
  BY <1>1, <1>2, <1>3, <1>4, <1>5, StepCases DEF Quiet

\* A checkout reaches its later phases through Create, and never comes back.
LEMMA PhaseMoves ==
  ASSUME Lifecycle, [Next]_vars, NEW o \in Order
  PROVE  \/ Create(o)
         \/ checkout'[o] \in Unplaced <=> checkout[o] \in Unplaced
<1> USE DEF Lifecycle
<1>1. ASSUME NEW p \in Order, Checkout(p) \/ CheckoutDies(p)
      PROVE  Create(o) \/ (checkout'[o] \in Unplaced <=> checkout[o] \in Unplaced)
  BY <1>1 DEF Checkout, ReadCart, Create, OutOfStock, InvoiceCreated, InvoiceFailed,
              AttachPayment, Abandon, CheckoutDies, TypeOK, Unplaced
<1>2. CASE \E c \in Callback : Receive(c)
  BY <1>2 DEF Receive, RecordRejected, OrderMissing, Apply, callbackFrame
<1>3. CASE \E os \in SUBSET Order : ExpireDue(os)
  BY <1>3 DEF ExpireDue, workerFrame
<1>4. CASE \/ \E a \in Admin, p \in Order, to \in manualTargets : JudgeMove(a, p, to)
           \/ \E a \in Admin : Transition(a)
  BY <1>4 DEF JudgeMove, Transition, adminFrame
<1> QED
  BY <1>1, <1>2, <1>3, <1>4, StepCases DEF Quiet

LEMMA PlacementStep ==
  ASSUME Lifecycle, [Next]_vars
  PROVE  Placement'
<1> SUFFICES ASSUME NEW o \in Order
             PROVE  status'[o] = absent <=> checkout'[o] \in Unplaced
  BY DEF Placement
<1>1. CASE Create(o)
  BY <1>1 DEF Create, Lifecycle, TypeOK, Unplaced, absent
<1>2. CASE ~Create(o)
  <2>1. checkout'[o] \in Unplaced <=> checkout[o] \in Unplaced
    BY <1>2, PhaseMoves
  <2>2. status[o] # absent <=> status'[o] # absent
    <3>1. CASE status'[o] = status[o]
      BY <3>1
    <3>2. CASE status'[o] # status[o]
      <4>1. Moved(o)
        BY <3>2, StatusMoves
      <4>2. absent \notin Status
        BY DEF absent, Status
      <4> QED
        BY <1>2, <4>1, <4>2, TransitionTargets DEF Moved, MovedByCallback, absent
    <3> QED
      BY <3>1, <3>2
  <2> QED
    BY <2>1, <2>2 DEF Lifecycle, Placement
<1> QED
  BY <1>1, <1>2

LEMMA JudgedStep ==
  ASSUME Lifecycle, [Next]_vars
  PROVE  JudgedLegally'
<1> USE DEF Lifecycle
<1> SUFFICES ASSUME NEW a \in Admin, request'[a] # Idle
             PROVE  request'[a].to \in ManualTargets(request'[a].from)
  BY DEF JudgedLegally
<1>1. ASSUME NEW b \in Admin, NEW o \in Order, NEW to \in manualTargets, JudgeMove(b, o, to)
      PROVE  request'[a].to \in ManualTargets(request'[a].from)
  BY <1>1 DEF JudgeMove, TypeOK, JudgedLegally
<1>2. ASSUME NEW b \in Admin, Transition(b)
      PROVE  request'[a].to \in ManualTargets(request'[a].from)
  BY <1>2 DEF Transition, TypeOK, JudgedLegally
<1>3. CASE request' = request
  BY <1>3 DEF JudgedLegally
<1>4. ASSUME \/ \E o \in Order : Checkout(o) \/ CheckoutDies(o)
             \/ \E c \in Callback : Receive(c)
             \/ \E os \in SUBSET Order : ExpireDue(os)
             \/ Quiet
      PROVE  request' = request
  BY <1>4 DEF Checkout, ReadCart, Create, OutOfStock, InvoiceCreated, InvoiceFailed,
              AttachPayment, Abandon, CheckoutDies, checkoutFrame, Receive, RecordRejected,
              OrderMissing, Apply, callbackFrame, ExpireDue, workerFrame, Quiet
<1> QED
  BY <1>1, <1>2, <1>3, <1>4, StepCases

\* Orders exist once created by their checkout, and what administrators wait to
\* carry out was legal when it was judged.
THEOREM LifecycleHolds == Spec => []Lifecycle
<1>1. Init => Lifecycle
  <2>1. Init => Placement /\ JudgedLegally
    BY DEF Init, Placement, Unplaced, JudgedLegally
  <2> QED
    BY <2>1, InitType DEF Lifecycle
<1>2. Lifecycle /\ [Next]_vars => Lifecycle'
  <2> SUFFICES ASSUME Lifecycle, [Next]_vars PROVE Lifecycle'
    OBVIOUS
  <2>1. TypeOK'
    BY TypeStep DEF Lifecycle
  <2> QED
    BY <2>1, PlacementStep, JudgedStep DEF Lifecycle
<1> QED
  BY <1>1, <1>2, PTL DEF Spec

\* However stale what an administrator, a checkout or a callback has read, an order
\* only moves along CanTransition.
THEOREM OnlyLegalMovesHold == Spec => OnlyLegalMoves
<1>1. Lifecycle /\ [Next]_vars =>
        [\A o \in Order :
           status'[o] # status[o] =>
             \/ status[o] = absent /\ status'[o] = "created"
             \/ CanTransition(status[o], status'[o])]_vars
  <2> SUFFICES ASSUME Lifecycle, [Next]_vars, NEW o \in Order, status'[o] # status[o]
               PROVE  \/ status[o] = absent /\ status'[o] = "created"
                      \/ CanTransition(status[o], status'[o])
    OBVIOUS
  <2>1. Moved(o)
    BY StatusMoves
  <2> QED
    BY <2>1 DEF Moved, MovedByCallback, CanTransition, transitions
<1> QED
  BY <1>1, LifecycleHolds, PTL DEF Spec, OnlyLegalMoves

\* What a callback asks for is paid only for a final status and the full amount.
LEMMA PaidNeedsFullPayment ==
  ASSUME NEW raw, NEW fullyPaid \in BOOLEAN, MapStatus(raw, fullyPaid) = "paid"
  PROVE  fullyPaid /\ raw \in {"confirmed", "finished"}
<1>1. CASE raw \in {"waiting", "confirming", "sending", "partially_paid"}
  BY <1>1 DEF MapStatus
<1>2. CASE raw \in {"confirmed", "finished"}
  BY <1>2 DEF MapStatus
<1>3. CASE raw \in {"failed", "expired"}
  BY <1>3 DEF MapStatus
<1>4. CASE raw = "refunded"
  BY <1>4 DEF MapStatus
<1>5. CASE raw \notin {"waiting", "confirming", "sending", "partially_paid", "confirmed",
                       "finished", "failed", "expired", "refunded"}
  BY <1>5 DEF MapStatus, unknown
<1> QED
  BY <1>1, <1>2, <1>3, <1>4, <1>5

\* An order becomes paid only in the transaction that files, for the first time, a
\* signed callback about it with the full amount.
THEOREM PaidOnlyByNewCallbackHolds == Spec => PaidOnlyByNewCallback
<1>1. Lifecycle /\ [Next]_vars =>
        [\A o \in Order :
           status[o] # "paid" /\ status'[o] = "paid" =>
             \E c \in events' \ events :
               c.verified /\ c.order = o /\ c.fullyPaid /\ c.raw \in {"confirmed", "finished"}]_vars
  <2> SUFFICES ASSUME Lifecycle, [Next]_vars, NEW o \in Order,
                      status[o] # "paid", status'[o] = "paid"
               PROVE  \E c \in events' \ events :
                        c.verified /\ c.order = o /\ c.fullyPaid
                        /\ c.raw \in {"confirmed", "finished"}
    OBVIOUS
  <2>1. PICK c \in Callback : MovedByCallback(o, c)
    BY StatusMoves DEF Moved, manualTargets
  <2>2. c.fullyPaid \in BOOLEAN
    BY CallbackAssumption DEF CallbackType
  <2>3. MapStatus(c.raw, c.fullyPaid) = "paid"
    BY <2>1 DEF MovedByCallback
  <2> QED
    BY <2>1, <2>2, <2>3, PaidNeedsFullPayment DEF MovedByCallback
<1> QED
  BY <1>1, LifecycleHolds, PTL DEF Spec, PaidOnlyByNewCallback

\* Payment rows are never deleted.
LEMMA PaymentsGrow ==
  ASSUME [Next]_vars
  PROVE  payments \subseteq payments'
<1>1. CASE \E o \in Order : Checkout(o) \/ CheckoutDies(o)
  BY <1>1 DEF Checkout, ReadCart, Create, OutOfStock, InvoiceCreated, InvoiceFailed,
              AttachPayment, Abandon, CheckoutDies, checkoutFrame
<1>2. CASE \E c \in Callback : Receive(c)
  BY <1>2 DEF Receive, RecordRejected, OrderMissing, Apply
<1>3. CASE \E os \in SUBSET Order : ExpireDue(os)
  BY <1>3 DEF ExpireDue, workerFrame, paymentVars
<1>4. CASE \/ \E a \in Admin, o \in Order, to \in manualTargets : JudgeMove(a, o, to)
           \/ \E a \in Admin : Transition(a)
  BY <1>4 DEF JudgeMove, Transition, adminFrame, paymentVars
<1> QED
  BY <1>1, <1>2, <1>3, <1>4, StepCases DEF Quiet

\* No order gets past created without a payment row, whether its checkout or the
\* provider's first callback wins.
THEOREM PastCreatedHasPaymentHolds == Spec => []PastCreatedHasPayment
<1>1. Init => PastCreatedHasPayment
  BY DEF Init, PastCreatedHasPayment, Placed
<1>2. Lifecycle /\ PastCreatedHasPayment /\ [Next]_vars => PastCreatedHasPayment'
  <2> SUFFICES ASSUME Lifecycle, PastCreatedHasPayment, [Next]_vars,
                      NEW o \in Order, status'[o] \notin {absent, "created"}
               PROVE  o \in payments'
    BY DEF PastCreatedHasPayment, Placed
  <2>1. CASE o \in payments
    BY <2>1, PaymentsGrow
  <2>2. CASE o \notin payments
    <3>1. status[o] \in {absent, "created"}
      BY <2>2 DEF PastCreatedHasPayment, Placed
    <3>2. Moved(o)
      BY <3>1, StatusMoves
    <3>3. ~CanTransition(absent, status'[o])
      BY TransitionTargets DEF absent, Status
    <3>4. AttachPayment(o) \/ \E c \in Callback : c.order = o /\ Apply(c)
      BY <3>1, <3>2, <3>3 DEF Moved, MovedByCallback, manualTargets, CanTransition, transitions,
                              absent
    <3> QED
      BY <3>1, <3>4 DEF AttachPayment, Apply, StatusUnmoved
  <2> QED
    BY <2>1, <2>2
<1> QED
  BY <1>1, <1>2, LifecycleHolds, PTL DEF Spec

-----------------------------------------------------------------------------
(* The purchase event. It is owed from the step that makes the order paid  *)
(* and, as nothing leads back to awaiting_payment, owed only once.         *)

Bought == Sold \cup {"cancelled"}

Counted ==
  \A o \in Order :
    /\ funnel[o] + (IF o \in unrecorded THEN 1 ELSE 0) <= 1
    /\ funnel[o] # 0 \/ o \in unrecorded => status[o] \in Bought

LEMMA FunnelMoves ==
  ASSUME Lifecycle, [Next]_vars, NEW o \in Order
  PROVE  \/ funnel'[o] = funnel[o] /\ (o \in unrecorded' => o \in unrecorded)
         \/ funnel'[o] = funnel[o] + 1 /\ o \in unrecorded /\ o \notin unrecorded'
         \/ /\ funnel'[o] = funnel[o]
            /\ CanTransition(status[o], "paid") /\ status'[o] = "paid"
<1> DEFINE Goal == \/ funnel'[o] = funnel[o] /\ (o \in unrecorded' => o \in unrecorded)
                   \/ funnel'[o] = funnel[o] + 1 /\ o \in unrecorded /\ o \notin unrecorded'
                   \/ /\ funnel'[o] = funnel[o]
                      /\ CanTransition(status[o], "paid") /\ status'[o] = "paid"
<1>1. CASE UNCHANGED funnelVars
  BY <1>1 DEF funnelVars
<1>2. ASSUME NEW c \in Callback, Receive(c) PROVE Goal
  <2>1. CASE RecordRejected(c) \/ OrderMissing(c)
    BY <2>1 DEF RecordRejected, OrderMissing, funnelVars
  <2>2. CASE Apply(c)
    <3>1. funnel' = funnel
      BY <2>2 DEF Apply
    <3>2. CASE o \in unrecorded' /\ o \notin unrecorded
      <4>1. /\ c.order = o /\ MapStatus(c.raw, c.fullyPaid) = "paid"
            /\ Decides(status[o], "paid") /\ MoveTo({o}, "paid")
        BY <2>2, <3>2 DEF Apply
      <4>2. status'[o] = "paid"
        BY <4>1 DEF MoveTo
      <4> QED
        BY <3>1, <4>1, <4>2 DEF Decides
    <3> QED
      BY <3>1, <3>2
  <2> QED
    BY <1>2, <2>1, <2>2 DEF Receive
<1>3. ASSUME NEW p \in Order, RecordOrderPaid(p) \/ PurchaseLost(p) PROVE Goal
  BY <1>3 DEF RecordOrderPaid, PurchaseLost, Lifecycle, TypeOK
<1>4. ASSUME NEW p \in Order, Checkout(p) \/ CheckoutDies(p) \/ DeadlinePasses(p)
      PROVE  UNCHANGED funnelVars
  BY <1>4 DEF Checkout, ReadCart, Create, OutOfStock, InvoiceCreated, InvoiceFailed,
              AttachPayment, Abandon, CheckoutDies, checkoutFrame, DeadlinePasses, workerFrame
<1>5. CASE \E os \in SUBSET Order : ExpireDue(os)
  BY <1>1, <1>5 DEF ExpireDue, workerFrame
<1>6. CASE \/ \E a \in Admin, p \in Order, to \in manualTargets : JudgeMove(a, p, to)
           \/ \E a \in Admin : Transition(a)
           \/ \E v \in Recounted, n \in 0..MaxStock : SetStock(v, n)
           \/ \E b \in BOOLEAN : SetPaused(b)
  BY <1>1, <1>6 DEF JudgeMove, Transition, SetStock, SetPaused, adminFrame
<1>7. CASE \E c \in Chat : (\E p \in Order : ReadLinkedOrder(c, p)) \/ InsertLink(c)
  BY <1>1, <1>7 DEF ReadLinkedOrder, InsertLink, linkFrame
<1> QED
  BY <1>1, <1>2, <1>3, <1>4, <1>5, <1>6, <1>7 DEF Next, vars, funnelVars

LEMMA CountedStep ==
  ASSUME Lifecycle, Counted, [Next]_vars
  PROVE  Counted'
<1> SUFFICES ASSUME NEW o \in Order
             PROVE  /\ funnel'[o] + (IF o \in unrecorded' THEN 1 ELSE 0) <= 1
                    /\ funnel'[o] # 0 \/ o \in unrecorded' => status'[o] \in Bought
  BY DEF Counted
<1>1. funnel[o] \in Nat
  BY DEF Lifecycle, TypeOK
<1>2. status[o] \in Bought => status'[o] \in Bought
  BY StatusMoves DEF Moved, MovedByCallback, Bought, Sold, CanTransition, transitions, absent
<1>3. CanTransition(status[o], "paid") => status[o] \notin Bought
  BY DEF CanTransition, transitions, Bought, Sold
<1> QED
  BY <1>1, <1>2, <1>3, FunnelMoves DEF Counted, Bought, Sold

\* However often the provider redelivers, an order's purchase is counted at most
\* once and only if the order was paid.
THEOREM PurchaseCountedOnceHolds == Spec => []PurchaseCountedOnce
<1>1. Init => Counted
  BY DEF Init, Counted
<1>2. Lifecycle /\ Counted /\ [Next]_vars => Counted'
  BY CountedStep
<1>3. Counted => PurchaseCountedOnce
  BY DEF Counted, PurchaseCountedOnce, Bought
<1> QED
  BY <1>1, <1>2, <1>3, LifecycleHolds, PTL DEF Spec

-----------------------------------------------------------------------------
(* The messages of the outbox. A row may stand for a transition that is    *)
(* made a second time only if it was told to somebody who still follows    *)
(* the order, so links are part of the invariant.                          *)

\* Every message went to somebody who follows its order; nobody stops following.
Announced == \A n \in outbox : n.chat \in links[n.order]

\* What Enqueue leaves behind: new rows to followers of the orders it is about, and a row,
\* new or old, for every one of these orders that somebody follows.
LEMMA EnqueueAdds ==
  ASSUME NEW os, NEW kind, NEW st, NEW followers, Enqueue(os, kind, st, followers)
  PROVE  /\ outbox \subseteq outbox'
         /\ \A n \in outbox' \ outbox :
              /\ n.order \in os /\ n.kind = kind /\ n.status = st
              /\ n.chat \in followers[n.order]
         /\ \A o \in os : followers[o] # {} =>
              \E n \in outbox' : n.order = o /\ n.kind = kind /\ n.status = st
<1> DEFINE taken == {n.order : n \in {m \in outbox : m.kind = kind /\ m.status = st}}
           told == {o \in os : followers[o] # {} /\ o \notin taken}
<1>1. PICK chat \in [told -> Chat] :
        /\ \A o \in told : chat[o] \in followers[o]
        /\ outbox' = outbox \cup
             {[order |-> o, kind |-> kind, status |-> st, chat |-> chat[o]] : o \in told}
  BY DEF Enqueue
<1> DEFINE row(o) == [order |-> o, kind |-> kind, status |-> st, chat |-> chat[o]]
<1>2. \A o : row(o).order = o /\ row(o).kind = kind /\ row(o).status = st /\ row(o).chat = chat[o]
  OBVIOUS
<1>3. outbox' = outbox \cup {row(o) : o \in told}
  BY <1>1
<1>4. \A o \in told : o \in os /\ chat[o] \in followers[o]
  BY <1>1
<1>5. \A o \in os : followers[o] # {} =>
        o \in told \/ \E m \in outbox : m.order = o /\ m.kind = kind /\ m.status = st
  OBVIOUS
<1> HIDE DEF told, row
<1>6. \A n \in outbox' \ outbox : \E o \in told : n = row(o)
  BY <1>3
<1>7. \A n \in outbox' \ outbox : n.order \in told /\ n = row(n.order)
  BY <1>2, <1>6
<1> QED
  BY <1>2, <1>3, <1>4, <1>5, <1>7

\* A step moves orders with their messages, links a chat, or tells nobody anything.
LEMMA OutboxCases ==
  ASSUME TypeOK, [Next]_vars
  PROVE  \/ /\ outbox' = outbox /\ links' = links
            /\ \A o \in Order : status'[o] # status[o] => \E p \in Order : Create(p)
         \/ links' = links /\ \E os \in SUBSET Order : \E st : MoveTo(os, st)
         \/ status' = status /\ \E c \in Chat : InsertLink(c)
<1> DEFINE Goal == \/ /\ outbox' = outbox /\ links' = links
                      /\ \A o \in Order : status'[o] # status[o] => \E p \in Order : Create(p)
                   \/ links' = links /\ \E os \in SUBSET Order : \E st : MoveTo(os, st)
                   \/ status' = status /\ \E c \in Chat : InsertLink(c)
<1>1. CASE UNCHANGED <<status, outbox, links>>
  BY <1>1
<1>2. ASSUME NEW o \in Order, Checkout(o) \/ CheckoutDies(o) \/ DeadlinePasses(o) PROVE Goal
  <2>1. CASE Create(o)
    BY <2>1 DEF Create, checkoutFrame
  <2>2. CASE AttachPayment(o)
    BY <2>2 DEF AttachPayment, StatusUnmoved
  <2>3. CASE ~Create(o) /\ ~AttachPayment(o)
    BY <1>1, <1>2, <2>3 DEF Checkout, ReadCart, OutOfStock, InvoiceCreated, InvoiceFailed, Abandon,
       CheckoutDies, DeadlinePasses, checkoutFrame, workerFrame
  <2> QED
    BY <2>1, <2>2, <2>3
<1>3. ASSUME NEW c \in Callback, Receive(c) PROVE Goal
  <2>1. CASE RecordRejected(c) \/ OrderMissing(c)
    BY <1>1, <2>1 DEF RecordRejected, OrderMissing, callbackFrame
  <2>2. CASE Apply(c)
    <3>1. links' = links /\ c.order \in Order
      BY <2>2 DEF Apply, callbackFrame, Placed
    <3>2. StatusUnmoved \/ \E st : MoveTo({c.order}, st)
      BY <2>2 DEF Apply
    <3> QED
      BY <1>1, <3>1, <3>2 DEF StatusUnmoved
  <2> QED
    BY <1>3, <2>1, <2>2 DEF Receive
<1>4. ASSUME NEW o \in Order, RecordOrderPaid(o) \/ PurchaseLost(o) PROVE Goal
  BY <1>1, <1>4 DEF RecordOrderPaid, PurchaseLost, callbackFrame
<1>5. ASSUME NEW os \in SUBSET Order, ExpireDue(os) PROVE Goal
  BY <1>5 DEF ExpireDue, workerFrame
<1>6. ASSUME NEW a \in Admin, NEW o \in Order, NEW to \in manualTargets, JudgeMove(a, o, to)
      PROVE  Goal
  BY <1>1, <1>6 DEF JudgeMove, adminFrame
<1>7. ASSUME NEW v \in Recounted, NEW n \in 0..MaxStock, SetStock(v, n) PROVE Goal
  BY <1>1, <1>7 DEF SetStock, adminFrame
<1>8. ASSUME NEW p \in BOOLEAN, SetPaused(p) PROVE Goal
  BY <1>1, <1>8 DEF SetPaused, adminFrame
<1>9. ASSUME NEW c \in Chat, (\E o \in Order : ReadLinkedOrder(c, o)) \/ InsertLink(c) PROVE Goal
  BY <1>1, <1>9 DEF ReadLinkedOrder, InsertLink, linkFrame
<1>10. ASSUME NEW a \in Admin, Transition(a) PROVE Goal
  <2>1. links' = links
    BY <1>10 DEF Transition, adminFrame
  <2>2. StatusUnmoved \/ MoveTo({request[a].order}, request[a].to)
    BY <1>10 DEF Transition
  <2>3. request[a].order \in Order
    BY <1>10 DEF Transition, TypeOK, Request
  <2> QED
    BY <1>1, <2>1, <2>2, <2>3 DEF StatusUnmoved
<1>11. CASE UNCHANGED vars
  BY <1>1, <1>11 DEF vars
<1> QED
  BY <1>2, <1>3, <1>4, <1>5, <1>6, <1>7, <1>8, <1>9, <1>10, <1>11 DEF Next

LEMMA AnnouncedStep ==
  ASSUME TypeOK, TypeOK', Announced, [Next]_vars
  PROVE  Announced'
<1>1. \A n \in outbox : n.order \in Order
  BY DEF TypeOK, Notification
<1>2. ASSUME NEW os, NEW kind, NEW st, Enqueue(os, kind, st, links'),
             \A o \in Order : links[o] \subseteq links'[o]
      PROVE  Announced'
  BY <1>1, <1>2, EnqueueAdds DEF Announced
<1>3. CASE outbox' = outbox /\ links' = links
  BY <1>3 DEF Announced
<1>4. CASE links' = links /\ \E os \in SUBSET Order : \E st : MoveTo(os, st)
  BY <1>2, <1>4 DEF MoveTo
<1>5. ASSUME NEW c \in Chat, InsertLink(c) PROVE Announced'
  <2>1. \A o \in Order : links[o] \subseteq links'[o]
    BY <1>5 DEF InsertLink, TypeOK
  <2> QED
    BY <1>2, <1>5, <2>1 DEF InsertLink
<1> QED
  BY <1>3, <1>4, <1>5, OutboxCases

LEMMA AnnouncedHolds == Spec => []Announced
<1>1. Init => Announced
  BY DEF Init, Announced
<1>2. TypeOK /\ TypeOK' /\ Announced /\ [Next]_vars => Announced'
  BY AnnouncedStep
<1> QED
  BY <1>1, <1>2, TypeCorrect, PTL DEF Spec

\* A transition of an order somebody follows has its message in the same step, and it went
\* to somebody who follows the order.
THEOREM MovesAnnouncedHold == Spec => MovesAnnounced
<1>1. Lifecycle /\ Announced' /\ [Next]_vars =>
        [\A o \in Order :
           status[o] # absent /\ status'[o] # status[o] /\ links[o] # {} =>
             \E n \in outbox' : /\ n.order = o /\ n.kind = "status_changed"
                                /\ n.status = status'[o] /\ n.chat \in links[o]]_vars
  <2> SUFFICES ASSUME Lifecycle, Announced', [Next]_vars, NEW o \in Order,
                      status[o] # absent, status'[o] # status[o], links[o] # {}
               PROVE  \E n \in outbox' : /\ n.order = o /\ n.kind = "status_changed"
                                         /\ n.status = status'[o] /\ n.chat \in links[o]
    OBVIOUS
  <2>1. TypeOK
    BY DEF Lifecycle
  <2>2. ~(\E p \in Order : Create(p))
    <3> SUFFICES ASSUME NEW p \in Order, Create(p) PROVE FALSE
      OBVIOUS
    <3>1. checkout[p] = "placing" /\ p = o
      BY <2>1 DEF Create, TypeOK
    <3> QED
      BY <3>1 DEF Lifecycle, Placement, Unplaced
  <2>3. PICK os \in SUBSET Order : \E st : MoveTo(os, st) /\ links' = links
    BY <2>1, <2>2, OutboxCases
  <2>4. PICK st : MoveTo(os, st) /\ links' = links
    BY <2>3
  <2>5. o \in os /\ status'[o] = st
    BY <2>1, <2>4, MoveToMoves
  <2>6. PICK n \in outbox' : n.order = o /\ n.kind = "status_changed" /\ n.status = st
    BY <2>4, <2>5, EnqueueAdds DEF MoveTo
  <2>7. n.chat \in links[o]
    BY <2>4, <2>6 DEF Announced
  <2> QED
    BY <2>5, <2>6, <2>7
<1> QED
  BY <1>1, LifecycleHolds, AnnouncedHolds, PTL DEF Spec, MovesAnnounced

-----------------------------------------------------------------------------
(***************************************************************************)
(* The reservation counter is exact: reserved[v] is the sum of the lines   *)
(* of the orders that hold their units, for any number of orders, lines    *)
(* and actors, as long as an order whose checkout gave it up is never      *)
(* called back (~LostReplies).                                             *)
(*                                                                         *)
(* Exactness is not inductive on its own. A callback commits or releases   *)
(* the units of the order it names; that these are still reserved follows  *)
(* from Invoices: the provider calls back about invoiced orders only, and  *)
(* the handler gives up only orders without an invoice.                    *)
(***************************************************************************)

Invoices ==
  \A o \in Order :
    /\ checkout[o] \in {"invoicing", "abandoning"} => o \notin invoiced \cup abandoned
    /\ checkout[o] = "attaching" => o \in invoiced
    /\ o \in invoiced => o \notin abandoned /\ checkout[o] \notin Unplaced
    /\ o \in abandoned => checkout[o] = "done"
    /\ status[o] \notin {absent, "created"} => o \in invoiced

LEMMA StageMoves ==
  ASSUME Lifecycle, [Next]_vars, NEW o \in Order
  PROVE  \/ Checkout(o) \/ CheckoutDies(o)
         \/ /\ checkout'[o] = checkout[o]
            /\ o \in invoiced' <=> o \in invoiced
            /\ o \in abandoned' <=> o \in abandoned
<1>1. CASE UNCHANGED <<checkout, invoiced, abandoned>>
  BY <1>1
<1>2. ASSUME NEW p \in Order, p # o, Checkout(p) \/ CheckoutDies(p)
      PROVE  /\ checkout'[o] = checkout[o]
             /\ o \in invoiced' <=> o \in invoiced
             /\ o \in abandoned' <=> o \in abandoned
  BY <1>2 DEF Checkout, ReadCart, Create, OutOfStock, InvoiceCreated, InvoiceFailed,
              AttachPayment, Abandon, CheckoutDies, Lifecycle, TypeOK
<1>3. CASE \E c \in Callback : Receive(c)
  BY <1>1, <1>3 DEF Receive, RecordRejected, OrderMissing, Apply, callbackFrame
<1>4. CASE \E os \in SUBSET Order : ExpireDue(os)
  BY <1>1, <1>4 DEF ExpireDue, workerFrame
<1>5. CASE \/ \E a \in Admin, p \in Order, to \in manualTargets : JudgeMove(a, p, to)
           \/ \E a \in Admin : Transition(a)
  BY <1>1, <1>5 DEF JudgeMove, Transition, adminFrame
<1> QED
  BY <1>1, <1>2, <1>3, <1>4, <1>5, StepCases DEF Quiet

LEMMA InvoicesStep ==
  ASSUME LostReplies = FALSE, Lifecycle, Invoices, [Next]_vars
  PROVE  Invoices'
<1> SUFFICES ASSUME NEW o \in Order
             PROVE  /\ checkout'[o] \in {"invoicing", "abandoning"} => o \notin invoiced' \cup abandoned'
                    /\ checkout'[o] = "attaching" => o \in invoiced'
                    /\ o \in invoiced' => o \notin abandoned' /\ checkout'[o] \notin Unplaced
                    /\ o \in abandoned' => checkout'[o] = "done"
                    /\ status'[o] \notin {absent, "created"} => o \in invoiced'
  BY DEF Invoices
<1>1. /\ checkout'[o] \in {"invoicing", "abandoning"} => o \notin invoiced' \cup abandoned'
      /\ checkout'[o] = "attaching" => o \in invoiced'
      /\ o \in invoiced' => o \notin abandoned' /\ checkout'[o] \notin Unplaced
      /\ o \in abandoned' => checkout'[o] = "done"
      /\ o \in invoiced => o \in invoiced'
  <2>1. CASE Checkout(o) \/ CheckoutDies(o)
    BY <2>1 DEF Checkout, ReadCart, Create, OutOfStock, InvoiceCreated, InvoiceFailed,
                AttachPayment, Abandon, CheckoutDies, Invoices, Unplaced, Lifecycle, TypeOK
  <2>2. CASE ~(Checkout(o) \/ CheckoutDies(o))
    BY <2>2, StageMoves DEF Invoices
  <2> QED
    BY <2>1, <2>2
<1>2. status'[o] \notin {absent, "created"} => o \in invoiced
  <2>1. CASE status'[o] = status[o]
    BY <2>1 DEF Invoices
  <2>2. CASE status'[o] # status[o]
    <3>1. CASE Create(o) /\ status'[o] = "created"
      BY <3>1
    <3>2. CASE AttachPayment(o)
      BY <3>2 DEF AttachPayment, Invoices
    <3>3. ASSUME NEW c \in Callback, MovedByCallback(o, c) PROVE o \in invoiced
      BY <3>3, NoOrderAssumption DEF MovedByCallback, Deliverable
    <3>4. CASE status[o] = "awaiting_payment"
      BY <3>4 DEF Invoices, absent
    <3>5. CASE status'[o] \in manualTargets /\ CanTransition(status[o], status'[o])
      BY <3>5 DEF Invoices, manualTargets, CanTransition, transitions, absent
    <3> QED
      BY <2>2, <3>1, <3>2, <3>3, <3>4, <3>5, StatusMoves DEF Moved
  <2> QED
    BY <2>1, <2>2
<1> QED
  BY <1>1, <1>2

-----------------------------------------------------------------------------
(* How the sum moves with the set of holders.                              *)

LEMMA HoldersType == Holders \in SUBSET Order
BY DEF Holders

\* Orders that hold their units leave with exactly those: no clamp bites.
LEMMA HoldersLeave ==
  ASSUME TypeOK, ReservedExactly, NEW os \in SUBSET Holders,
         Holders' = Holders \ os, lines' = lines,
         \A v \in Variant : reserved'[v] = Minus(reserved[v], Qty(os, lines, v))
  PROVE  ReservedExactly'
<1> SUFFICES ASSUME NEW v \in Variant
             PROVE  reserved'[v] = Qty(Holders', lines', v)
  BY DEF ReservedExactly
<1>1. reserved[v] = Qty(Holders, lines, v) /\ reserved[v] \in Nat
  BY DEF ReservedExactly, TypeOK
<1>2. Qty(os, lines, v) \in Nat
  BY HoldersType, UnitsFinite
<1>3. /\ Qty(os, lines, v) <= Qty(Holders, lines, v)
      /\ Qty(Holders \ os, lines, v) = Qty(Holders, lines, v) - Qty(os, lines, v)
  BY HoldersType, QtyOfDifference
<1> QED
  BY <1>1, <1>2, <1>3, MinusNat

\* An order that begins to hold adds its lines.
LEMMA HoldersJoin ==
  ASSUME TypeOK, ReservedExactly, NEW o \in Order \ Holders,
         Holders' = Holders \cup {o}, lines' = lines,
         \A v \in Variant : reserved'[v] = reserved[v] + lines[o][v]
  PROVE  ReservedExactly'
<1> SUFFICES ASSUME NEW v \in Variant
             PROVE  reserved'[v] = Qty(Holders', lines', v)
  BY DEF ReservedExactly
<1>1. reserved[v] = Qty(Holders, lines, v)
  BY DEF ReservedExactly
<1>2. Qty({o}, lines, v) = lines[o][v]
  BY QtyOfOne DEF TypeOK
<1>3. Qty(Holders \cup {o}, lines, v) = Qty(Holders, lines, v) + Qty({o}, lines, v)
  BY HoldersType, QtyOfUnion
<1> QED
  BY <1>1, <1>2, <1>3

LEMMA HoldersStay ==
  ASSUME ReservedExactly, Holders' = Holders, reserved' = reserved,
         \A o \in Holders : lines'[o] = lines[o]
  PROVE  ReservedExactly'
<1> SUFFICES ASSUME NEW v \in Variant
             PROVE  reserved'[v] = Qty(Holders', lines', v)
  BY DEF ReservedExactly
<1>1. Qty(Holders, lines, v) = Qty(Holders, lines', v)
  BY HoldersType, QtyDependsOnMembers
<1> QED
  BY <1>1 DEF ReservedExactly

-----------------------------------------------------------------------------
(* The steps that move reservations.                                       *)

Reservations == Lifecycle /\ Invoices /\ ReservedExactly

LEMMA CheckoutReserves ==
  ASSUME Reservations, NEW o \in Order, Checkout(o) \/ CheckoutDies(o)
  PROVE  ReservedExactly'
<1> USE DEF Reservations, Lifecycle
<1>1. CASE Create(o)
  <2>1. o \notin Holders /\ o \notin abandoned
    BY <1>1 DEF Create, Placement, Invoices, Unplaced, Holders, absent
  <2>2. Holders' = Holders \cup {o}
    BY <1>1, <2>1 DEF Create, Holders, TypeOK
  <2>3. lines' = lines /\ \A v \in Variant : reserved'[v] = reserved[v] + lines[o][v]
    BY <1>1 DEF Create
  <2> QED
    BY <2>1, <2>2, <2>3, HoldersJoin
<1>2. CASE Abandon(o)
  <2>1. status[o] = "created" /\ o \notin abandoned
    BY <1>2 DEF Abandon, Placement, Invoices, Unplaced
  <2>2. {o} \in SUBSET Holders
    BY <2>1 DEF Holders
  <2>3. Holders' = Holders \ {o}
    BY <1>2 DEF Abandon, Holders
  <2>4. lines' = lines /\ \A v \in Variant : reserved'[v] = Minus(reserved[v], Qty({o}, lines, v))
    BY <1>2 DEF Abandon, ReleaseItems
  <2> QED
    BY <2>2, <2>3, <2>4, HoldersLeave
<1>3. CASE AttachPayment(o)
  <2>1. reserved' = reserved /\ lines' = lines /\ abandoned' = abandoned
    BY <1>3 DEF AttachPayment, variantVars
  <2>2. \/ status' = status
        \/ /\ status[o] = "created"
           /\ status' = [p \in Order |-> IF p \in {o} THEN "awaiting_payment" ELSE status[p]]
    BY <1>3 DEF AttachPayment, MoveTo, StatusUnmoved
  <2>3. Holders' = Holders
    BY <2>1, <2>2 DEF Holders
  <2> QED
    BY <2>1, <2>3, HoldersStay
<1>4. ASSUME NEW cart \in Cart, ReadCart(o, cart) PROVE ReservedExactly'
  <2>1. o \notin Holders
    BY <1>4 DEF ReadCart, Placement, Unplaced, Holders, absent
  <2>2. Holders' = Holders /\ reserved' = reserved /\ \A p \in Holders : lines'[p] = lines[p]
    BY <1>4, <2>1 DEF ReadCart, variantVars, Holders, TypeOK
  <2> QED
    BY <2>2, HoldersStay
<1>5. CASE OutOfStock(o)
  <2>1. o \notin Holders
    BY <1>5 DEF OutOfStock, Placement, Unplaced, Holders, absent
  <2>2. Holders' = Holders /\ reserved' = reserved /\ \A p \in Holders : lines'[p] = lines[p]
    BY <1>5, <2>1 DEF OutOfStock, variantVars, Holders, TypeOK
  <2> QED
    BY <2>2, HoldersStay
<1>6. CASE InvoiceCreated(o) \/ InvoiceFailed(o)
  <2>1. Holders' = Holders /\ reserved' = reserved /\ lines' = lines
    BY <1>6 DEF InvoiceCreated, InvoiceFailed, variantVars, Holders
  <2> QED
    BY <2>1, HoldersStay
<1>7. CASE CheckoutDies(o)
  <2>1. Holders' = Holders /\ reserved' = reserved
    BY <1>7 DEF CheckoutDies, variantVars, Holders
  <2>2. \A p \in Holders : lines'[p] = lines[p]
    BY <1>7 DEF CheckoutDies, Placement, Unplaced, Holders, absent, TypeOK
  <2> QED
    BY <2>1, <2>2, HoldersStay
<1> QED
  BY <1>1, <1>2, <1>3, <1>4, <1>5, <1>6, <1>7 DEF Checkout

LEMMA CallbackReserves ==
  ASSUME Reservations, NEW c \in Callback, Receive(c)
  PROVE  ReservedExactly'
<1> USE DEF Reservations, Lifecycle
<1> DEFINE o == c.order
           target == MapStatus(c.raw, c.fullyPaid)
<1>1. lines' = lines /\ abandoned' = abandoned
  BY DEF Receive, RecordRejected, OrderMissing, Apply, callbackFrame
<1>2. CASE UNCHANGED variantVars /\ status' = status
  <2>1. Holders' = Holders /\ reserved' = reserved
    BY <1>1, <1>2 DEF Holders, variantVars
  <2> QED
    BY <1>1, <2>1, HoldersStay
<1>3. CASE /\ Apply(c) /\ Deliverable(c)
           /\ CanTransition(status[o], target) /\ SettleStock(o, target) /\ MoveTo({o}, target)
  <2>1. o \in Order /\ o \in invoiced
    BY <1>3, NoOrderAssumption DEF Apply, Deliverable, Placed
  <2>2. o \notin abandoned
    BY <2>1 DEF Invoices
  <2>3. status' = [p \in Order |-> IF p = o THEN target ELSE status[p]]
    BY <1>3 DEF MoveTo
  <2> HIDE DEF target
  <2>4. CASE target \in {"paid", "expired"}
    <3>1. status[o] = "awaiting_payment"
      BY <1>3, <2>4 DEF CanTransition, transitions
    <3>2. {o} \in SUBSET Holders
      BY <2>1, <2>2, <3>1 DEF Holders
    <3>3. Holders' = Holders \ {o}
      BY <1>1, <2>3, <2>4 DEF Holders
    <3>4. \A v \in Variant : reserved'[v] = Minus(reserved[v], Qty({o}, lines, v))
      <4>1. CASE target = "paid"
        <5>1. \A v \in Variant : Qty({o}, lines, v) = lines[o][v]
          BY <2>1, QtyOfOne DEF TypeOK
        <5>2. CommitItems(o)
          BY <1>3, <4>1 DEF SettleStock
        <5> QED
          BY <5>1, <5>2 DEF CommitItems
      <4>2. CASE target = "expired"
        BY <1>3, <4>2 DEF SettleStock, ReleaseItems
      <4> QED
        BY <2>4, <4>1, <4>2
    <3> QED
      BY <1>1, <3>2, <3>3, <3>4, HoldersLeave
  <2>5. CASE target \notin {"paid", "expired"}
    <3>1. reserved' = reserved
      BY <1>3, <2>5 DEF SettleStock, variantVars
    <3>2. \/ status[o] = "created" /\ target = "awaiting_payment"
          \/ status[o] \notin {"created", "awaiting_payment"} /\ target # "created"
             /\ target # "awaiting_payment"
          \/ status[o] = "awaiting_payment" /\ target = "cancelled"
      BY <1>3, <2>5 DEF CanTransition, transitions
    <3>3. target # "cancelled"
      BY DEF target, MapStatus, unknown
    <3>4. Holders' = Holders
      BY <1>1, <2>3, <3>2, <3>3 DEF Holders
    <3> QED
      BY <1>1, <3>1, <3>4, HoldersStay
  <2> QED
    BY <2>4, <2>5
<1>4. \/ UNCHANGED variantVars /\ status' = status
      \/ /\ Apply(c) /\ Deliverable(c)
         /\ CanTransition(status[o], target) /\ SettleStock(o, target) /\ MoveTo({o}, target)
  BY DEF Receive, RecordRejected, OrderMissing, Apply, StatusUnmoved, Decides
<1> QED
  BY <1>2, <1>3, <1>4

LEMMA WorkerReserves ==
  ASSUME Reservations, NEW os \in SUBSET Order, ExpireDue(os)
  PROVE  ReservedExactly'
<1> USE DEF Reservations, Lifecycle
<1>1. ASSUME NEW o \in os PROVE status[o] = "awaiting_payment" /\ o \in Holders
  BY DEF ExpireDue, Due, Invoices, Holders, absent
<1>2. os \in SUBSET Holders
  BY <1>1
<1>3. /\ lines' = lines /\ abandoned' = abandoned
      /\ status' = [o \in Order |-> IF o \in os THEN "expired" ELSE status[o]]
      /\ \A v \in Variant : reserved'[v] = Minus(reserved[v], Qty(os, lines, v))
  BY DEF ExpireDue, MoveTo, ReleaseItems, workerFrame
<1>4. Holders' = Holders \ os
  BY <1>3 DEF Holders
<1> QED
  BY <1>2, <1>3, <1>4, HoldersLeave

LEMMA AdminReserves ==
  ASSUME Reservations, NEW a \in Admin, Transition(a)
  PROVE  ReservedExactly'
<1> USE DEF Reservations, Lifecycle
<1> DEFINE r == request[a]
           o == r.order
<1>1. o \in Order /\ r.to \in manualTargets /\ CanTransition(r.from, r.to)
  BY DEF Transition, TypeOK, Request, JudgedLegally, ManualTargets
<1>2. lines' = lines /\ abandoned' = abandoned
  BY DEF Transition, adminFrame
<1>3. CASE UNCHANGED variantVars /\ status' = status
  <2>1. Holders' = Holders /\ reserved' = reserved
    BY <1>2, <1>3 DEF Holders, variantVars
  <2> QED
    BY <1>2, <2>1, HoldersStay
<1>4. CASE status[o] = r.from /\ CancelStock(o, r.from, r.to) /\ MoveTo({o}, r.to)
  <2>1. status' = [p \in Order |-> IF p = o THEN r.to ELSE status[p]]
    BY <1>4 DEF MoveTo
  <2>2. CASE r.to = "cancelled" /\ r.from = "awaiting_payment"
    <3>1. {o} \in SUBSET Holders
      BY <1>1, <1>4, <2>2 DEF Holders, Invoices, absent
    <3>2. Holders' = Holders \ {o}
      BY <1>2, <2>1, <2>2 DEF Holders
    <3>3. \A v \in Variant : reserved'[v] = Minus(reserved[v], Qty({o}, lines, v))
      BY <1>4, <2>2 DEF CancelStock, ReleaseItems
    <3> QED
      BY <1>2, <3>1, <3>2, <3>3, HoldersLeave
  <2>3. CASE ~(r.to = "cancelled" /\ r.from = "awaiting_payment")
    <3>1. reserved' = reserved
      BY <1>4, <2>3 DEF CancelStock, RestockItems, variantVars
    <3>2. r.from \notin {"created", "awaiting_payment"}
      BY <1>1, <2>3 DEF manualTargets, CanTransition, transitions
    <3>3. Holders' = Holders
      BY <1>1, <1>2, <1>4, <2>1, <3>2 DEF Holders, manualTargets
    <3> QED
      BY <1>2, <3>1, <3>3, HoldersStay
  <2> QED
    BY <2>2, <2>3
<1>5. \/ UNCHANGED variantVars /\ status' = status
      \/ status[o] = r.from /\ CancelStock(o, r.from, r.to) /\ MoveTo({o}, r.to)
  BY DEF Transition, StatusUnmoved
<1> QED
  BY <1>3, <1>4, <1>5

LEMMA ReservedStep ==
  ASSUME Reservations, [Next]_vars
  PROVE  ReservedExactly'
<1>1. CASE Quiet
  <2>1. Holders' = Holders /\ reserved' = reserved /\ lines' = lines
    BY <1>1 DEF Quiet, Holders
  <2> QED
    BY <2>1, HoldersStay DEF Reservations
<1>2. ASSUME NEW a \in Admin, NEW o \in Order, NEW to \in manualTargets, JudgeMove(a, o, to)
      PROVE  ReservedExactly'
  <2>1. Holders' = Holders /\ reserved' = reserved /\ lines' = lines
    BY <1>2 DEF JudgeMove, adminFrame, variantVars, Holders
  <2> QED
    BY <2>1, HoldersStay DEF Reservations
<1> QED
  BY <1>1, <1>2, StepCases, CheckoutReserves, CallbackReserves, WorkerReserves, AdminReserves

\* Nothing leaks out of a reservation, nothing is given back twice and no clamp
\* ever hides it, as long as an abandoned order is not called back.
THEOREM ReservedExactlyHolds ==
  ASSUME LostReplies = FALSE
  PROVE  Spec => []ReservedExactly
<1>1. Init => Invoices /\ ReservedExactly
  <2>1. ASSUME Init PROVE Invoices
    BY <2>1 DEF Init, Invoices, Unplaced, absent
  <2>2. ASSUME Init, NEW v \in Variant PROVE reserved[v] = Qty(Holders, lines, v)
    <3>1. Holders = {}
      BY <2>2 DEF Init, Holders, absent
    <3>2. UnitsOf({}, lines, v) = {}
      BY DEF UnitsOf
    <3>3. Qty({}, lines, v) = 0
      BY <3>2, FS_EmptySet DEF Qty
    <3> QED
      BY <2>2, <3>1, <3>3 DEF Init
  <2> QED
    BY <2>1, <2>2 DEF ReservedExactly
<1>2. Lifecycle /\ Invoices /\ ReservedExactly /\ [Next]_vars => (Invoices /\ ReservedExactly)'
  BY InvoicesStep, ReservedStep DEF Reservations
<1> QED
  BY <1>1, <1>2, LifecycleHolds, PTL DEF Spec

-----------------------------------------------------------------------------
(***************************************************************************)
(* OrderStock implements StockLedger as long as an order whose checkout    *)
(* gave it up is never called back (~LostReplies): whatever interleaves,   *)
(* every order takes its units once, in full, and they go back at most     *)
(* once.                                                                   *)
(*                                                                         *)
(* A step that releases, commits or restocks maps to a step of the ledger  *)
(* because the counter is exact (ReservedExactlyHolds): the clamped        *)
(* subtractions are plain ones.                                            *)
(***************************************************************************)

\* The ledger's state, read off the tables (the refinement mapping of OrderStock).
Available == [v \in Variant |-> stock[v] - reserved[v]]
CustodyNow == [o \in Order |-> custodyOf(o)]
Asked == [o \in Order |-> IF status[o] = absent THEN NoLines ELSE lines[o]]

\* A checkout places a cart, not an empty order.
Carts == \A o \in Order : checkout[o] = "placing" => lines[o] \in Cart

Inv == Reservations /\ NoOversell /\ Carts

LEMMA CartsStep ==
  ASSUME Lifecycle, Carts, [Next]_vars
  PROVE  Carts'
<1> USE DEF Lifecycle
<1> SUFFICES ASSUME NEW o \in Order, checkout'[o] = "placing"
             PROVE  lines'[o] \in Cart
  BY DEF Carts
<1>1. CASE UNCHANGED <<checkout, lines>>
  BY <1>1 DEF Carts
<1>2. ASSUME NEW p \in Order, Checkout(p) \/ CheckoutDies(p)
      PROVE  lines'[o] \in Cart
  <2>1. ASSUME NEW cart \in Cart, ReadCart(p, cart) PROVE lines'[o] \in Cart
    BY <2>1 DEF ReadCart, TypeOK, Carts
  <2>2. CASE Create(p) \/ OutOfStock(p) \/ CheckoutDies(p)
    BY <2>2 DEF Create, OutOfStock, CheckoutDies, TypeOK, Carts
  <2>3. CASE InvoiceCreated(p) \/ InvoiceFailed(p) \/ AttachPayment(p) \/ Abandon(p)
    BY <2>3 DEF InvoiceCreated, InvoiceFailed, AttachPayment, Abandon, TypeOK, Carts
  <2> QED
    BY <1>2, <2>1, <2>2, <2>3 DEF Checkout
<1>3. CASE \E c \in Callback : Receive(c)
  BY <1>1, <1>3 DEF Receive, RecordRejected, OrderMissing, Apply, callbackFrame
<1>4. CASE \E os \in SUBSET Order : ExpireDue(os)
  BY <1>1, <1>4 DEF ExpireDue, workerFrame
<1>5. CASE \/ \E a \in Admin, p \in Order, to \in manualTargets : JudgeMove(a, p, to)
           \/ \E a \in Admin : Transition(a)
  BY <1>1, <1>5 DEF JudgeMove, Transition, adminFrame
<1> QED
  BY <1>1, <1>2, <1>3, <1>4, <1>5, StepCases DEF Quiet

\* The inductive invariant behind the refinement.
THEOREM InvHolds ==
  ASSUME LostReplies = FALSE
  PROVE  Spec => []Inv
<1>1. Init => Invoices /\ Carts
  BY DEF Init, Invoices, Carts, Unplaced, absent
<1>2. Lifecycle /\ Invoices /\ [Next]_vars => Invoices'
  BY InvoicesStep
<1>3. Lifecycle /\ Carts /\ [Next]_vars => Carts'
  BY CartsStep
<1> QED
  BY <1>1, <1>2, <1>3, LifecycleHolds, ReservedExactlyHolds, NoOversellHolds, PTL
     DEF Spec, Inv, Reservations

-----------------------------------------------------------------------------
(* Steps of the ledger, in terms of the mapping.                           *)

LEMMA LedgerTakes ==
  ASSUME NEW o \in Order, NEW cart \in Cart,
         CustodyNow[o] = "none",
         \A v \in Variant : cart[v] <= Available[v],
         Available' = [v \in Variant |-> Available[v] - cart[v]],
         CustodyNow' = [CustodyNow EXCEPT ![o] = "held"],
         Asked' = [Asked EXCEPT ![o] = cart]
  PROVE  Ledger!Next
<1>1. cart \in Ledger!Cart
  BY DEF Cart, Lines, NoLines, Ledger!Cart, Ledger!Lines, Ledger!NoLines
<1>2. Ledger!Take(o, cart)
  BY DEF Ledger!Take, Available, CustodyNow, Asked
<1> QED
  BY <1>1, <1>2 DEF Ledger!Next

\* Both modules count units alike.
LEMMA LedgerCounts ==
  ASSUME NEW os, NEW f, NEW v
  PROVE  Qty(os, f, v) = Ledger!Qty(os, f, v)
<1>1. ASSUME NEW S PROVE Cardinality(S) = Ledger!Cardinality(S)
  BY DEF Cardinality, Ledger!Cardinality
<1> QED
  BY <1>1 DEF Qty, UnitsOf, Ledger!Qty, Ledger!UnitsOf

LEMMA LedgerGivesBack ==
  ASSUME NEW os \in SUBSET Order, os # {},
         \A o \in os : CustodyNow[o] = "held",
         Available' = [v \in Variant |-> Available[v] + Qty(os, Asked, v)],
         CustodyNow' = [o \in Order |-> IF o \in os THEN "back" ELSE CustodyNow[o]],
         Asked' = Asked
  PROVE  Ledger!Next
<1>1. \A v \in Variant : Qty(os, Asked, v) = Ledger!Qty(os, Asked, v)
  BY LedgerCounts
<1>2. Ledger!GiveBack(os)
  BY <1>1 DEF Ledger!GiveBack, Available, CustodyNow, Asked
<1> QED
  BY <1>2 DEF Ledger!Next

LEMMA LedgerSells ==
  ASSUME NEW o \in Order, CustodyNow[o] = "held",
         Available' = Available, Asked' = Asked,
         CustodyNow' = [CustodyNow EXCEPT ![o] = "sold"]
  PROVE  Ledger!Next
<1>1. Ledger!Sell(o)
  BY DEF Ledger!Sell, Available, CustodyNow, Asked
<1> QED
  BY <1>1 DEF Ledger!Next

LEMMA LedgerRestocks ==
  ASSUME NEW o \in Order, CustodyNow[o] = "sold",
         Available' = [v \in Variant |-> Available[v] + Asked[o][v]],
         CustodyNow' = [CustodyNow EXCEPT ![o] = "back"],
         Asked' = Asked
  PROVE  Ledger!Next
<1>1. Ledger!Restock(o)
  BY DEF Ledger!Restock, Available, CustodyNow, Asked
<1> QED
  BY <1>1 DEF Ledger!Next

LEMMA LedgerRecounts ==
  ASSUME NEW v \in Recounted, Available'[v] \in Nat,
         Available' = [Available EXCEPT ![v] = Available'[v]],
         CustodyNow' = CustodyNow, Asked' = Asked
  PROVE  Ledger!Next
<1>1. Ledger!Recount(v)
  BY DEF Ledger!Recount, Available, CustodyNow, Asked
<1> QED
  BY <1>1 DEF Ledger!Next

LEMMA LedgerStutters ==
  ASSUME Available' = Available, CustodyNow' = CustodyNow, Asked' = Asked
  PROVE  UNCHANGED Ledger!ledgerVars
BY DEF Ledger!ledgerVars, Available, CustodyNow, Asked

-----------------------------------------------------------------------------
(* Every step of OrderStock is one of these.                               *)

LEMMA AsksWhatItHas ==
  ASSUME NEW os \in SUBSET Placed, NEW v
  PROVE  Qty(os, Asked, v) = Qty(os, lines, v)
BY QtyDependsOnMembers DEF Asked, Placed

\* Holders that move to a status without units give back exactly theirs.
LEMMA HoldersGiveBack ==
  ASSUME Inv, NEW os \in SUBSET Holders, os # {}, stock' = stock,
         \A v \in Variant : reserved'[v] = Minus(reserved[v], Qty(os, lines, v)),
         CustodyNow' = [o \in Order |-> IF o \in os THEN "back" ELSE CustodyNow[o]],
         Asked' = Asked
  PROVE  Ledger!Next
<1>1. os \in SUBSET Order /\ os \in SUBSET Placed
  BY DEF Holders, Placed, absent
<1>2. \A o \in os : CustodyNow[o] = "held"
  BY <1>1 DEF CustodyNow, custodyOf, Holders, Sold, absent
<1>3. ASSUME NEW v \in Variant
      PROVE  stock'[v] - reserved'[v] = Available[v] + Qty(os, Asked, v)
  <2>1. stock[v] \in Nat /\ reserved[v] \in Nat /\ Qty(os, lines, v) \in Nat
    BY <1>1, UnitsFinite DEF Inv, Reservations, Lifecycle, TypeOK
  <2>2. Qty(os, lines, v) <= reserved[v]
    <3>1. reserved[v] = Qty(Holders, lines, v)
      BY DEF Inv, Reservations, ReservedExactly
    <3>2. Qty(os, lines, v) <= Qty(Holders, lines, v)
      BY HoldersType, QtyOfDifference
    <3> QED
      BY <3>1, <3>2
  <2>3. reserved'[v] = reserved[v] - Qty(os, lines, v)
    BY <2>1, <2>2, MinusNat
  <2>4. Qty(os, Asked, v) = Qty(os, lines, v)
    BY <1>1, AsksWhatItHas
  <2> QED
    BY <2>1, <2>3, <2>4 DEF Available
<1>4. Available' = [v \in Variant |-> Available[v] + Qty(os, Asked, v)]
  BY <1>3 DEF Available
<1> QED
  BY <1>1, <1>2, <1>4, LedgerGivesBack

\* Nothing the ledger sees has changed.
LEMMA NoUnitsMove ==
  ASSUME UNCHANGED variantVars,
         \A o \in Order : custodyOf(o)' = custodyOf(o),
         \A o \in Order : status'[o] = absent <=> status[o] = absent,
         \A o \in Order : status[o] # absent => lines'[o] = lines[o]
  PROVE  [Ledger!Next]_Ledger!ledgerVars
<1>1. Available' = Available
  BY DEF Available, variantVars
<1>2. CustodyNow' = CustodyNow
  BY DEF CustodyNow
<1>3. Asked' = Asked
  BY DEF Asked
<1> QED
  BY <1>1, <1>2, <1>3, LedgerStutters

LEMMA CheckoutImplements ==
  ASSUME Inv, NEW o \in Order, Checkout(o) \/ CheckoutDies(o)
  PROVE  [Ledger!Next]_Ledger!ledgerVars
<1> USE DEF Inv, Reservations, Lifecycle
<1>1. CASE Create(o)
  <2>1. status[o] = absent /\ o \notin abandoned /\ lines[o] \in Cart
    BY <1>1 DEF Create, Placement, Invoices, Unplaced, Carts
  <2>2. CustodyNow[o] = "none"
    BY <2>1 DEF CustodyNow, custodyOf, Holders, Sold, absent
  <2>3. \A v \in Variant : lines[o][v] \in Nat /\ stock[v] \in Nat /\ reserved[v] \in Nat
    BY MaxQtyAssumption DEF TypeOK, Lines
  <2>4. \A v \in Variant : lines[o][v] <= Available[v]
    BY <1>1, <2>3 DEF Create, Fits, Available
  <2>5. Available' = [v \in Variant |-> Available[v] - lines[o][v]]
    BY <1>1, <2>3 DEF Create, Available
  <2>6. CustodyNow' = [CustodyNow EXCEPT ![o] = "held"]
    BY <1>1, <2>1 DEF Create, CustodyNow, custodyOf, Holders, Sold, TypeOK, absent
  <2>7. Asked' = [Asked EXCEPT ![o] = lines[o]]
    BY <1>1 DEF Create, Asked, TypeOK, absent
  <2> QED
    BY <2>1, <2>2, <2>4, <2>5, <2>6, <2>7, LedgerTakes
<1>2. CASE Abandon(o)
  <2>1. status[o] = "created" /\ o \notin abandoned
    BY <1>2 DEF Abandon, Placement, Invoices, Unplaced
  <2>2. {o} \in SUBSET Holders
    BY <2>1 DEF Holders
  <2>3. /\ stock' = stock
        /\ \A v \in Variant : reserved'[v] = Minus(reserved[v], Qty({o}, lines, v))
    BY <1>2 DEF Abandon, ReleaseItems
  <2>4. CustodyNow' = [p \in Order |-> IF p \in {o} THEN "back" ELSE CustodyNow[p]]
    BY <1>2, <2>1 DEF Abandon, CustodyNow, custodyOf, Holders, Sold, absent
  <2>5. Asked' = Asked
    BY <1>2 DEF Abandon, Asked
  <2> QED
    BY <2>2, <2>3, <2>4, <2>5, HoldersGiveBack
<1>3. CASE AttachPayment(o)
  <2>1. UNCHANGED variantVars /\ lines' = lines /\ abandoned' = abandoned
    BY <1>3 DEF AttachPayment
  <2>2. \/ status' = status
        \/ /\ status[o] = "created"
           /\ status' = [p \in Order |-> IF p \in {o} THEN "awaiting_payment" ELSE status[p]]
    BY <1>3 DEF AttachPayment, MoveTo, StatusUnmoved
  <2>3. o \notin abandoned
    BY <1>3 DEF AttachPayment, Invoices
  <2>4. \A p \in Order : custodyOf(p)' = custodyOf(p)
    BY <2>1, <2>2, <2>3 DEF custodyOf, Holders, Sold, absent
  <2> QED
    BY <2>1, <2>2, <2>4, NoUnitsMove DEF absent
<1>4. CASE \/ \E cart \in Cart : ReadCart(o, cart)
           \/ OutOfStock(o) \/ InvoiceCreated(o) \/ InvoiceFailed(o) \/ CheckoutDies(o)
  <2>1. UNCHANGED <<variantVars, status, abandoned>>
    BY <1>4 DEF ReadCart, OutOfStock, InvoiceCreated, InvoiceFailed, CheckoutDies
  <2>2. \A p \in Order : status[p] # absent => lines'[p] = lines[p]
    BY <1>4 DEF ReadCart, OutOfStock, InvoiceCreated, InvoiceFailed, CheckoutDies,
                Placement, Unplaced, TypeOK
  <2>3. \A p \in Order : custodyOf(p)' = custodyOf(p)
    BY <2>1 DEF custodyOf, Holders
  <2> QED
    BY <2>1, <2>2, <2>3, NoUnitsMove
<1> QED
  BY <1>1, <1>2, <1>3, <1>4 DEF Checkout

LEMMA CallbackImplements ==
  ASSUME Inv, NEW c \in Callback, Receive(c)
  PROVE  [Ledger!Next]_Ledger!ledgerVars
<1> USE DEF Inv, Reservations, Lifecycle
<1> DEFINE o == c.order
           target == MapStatus(c.raw, c.fullyPaid)
<1>1. lines' = lines /\ abandoned' = abandoned
  BY DEF Receive, RecordRejected, OrderMissing, Apply, callbackFrame
<1>2. CASE UNCHANGED variantVars /\ status' = status
  <2>1. \A p \in Order : custodyOf(p)' = custodyOf(p)
    BY <1>1, <1>2 DEF custodyOf, Holders
  <2> QED
    BY <1>1, <1>2, <2>1, NoUnitsMove
<1>3. CASE /\ Apply(c) /\ Deliverable(c)
           /\ CanTransition(status[o], target) /\ SettleStock(o, target) /\ MoveTo({o}, target)
  <2>1. o \in Placed /\ o \in Order /\ o \in invoiced
    BY <1>3, NoOrderAssumption DEF Apply, Deliverable, Placed
  <2>2. o \notin abandoned
    BY <2>1 DEF Invoices
  <2>3. status' = [p \in Order |-> IF p = o THEN target ELSE status[p]]
    BY <1>3 DEF MoveTo
  <2>4. target \in {"awaiting_payment", "paid", "expired", "refunded"}
    BY <1>3 DEF MapStatus, CanTransition, transitions, unknown
  <2> HIDE DEF target, o
  <2>5. Asked' = Asked
    BY <1>1, <2>1, <2>3, <2>4 DEF Asked, Placed, absent
  <2>6. CASE target = "paid"
    <3>1. status[o] = "awaiting_payment" /\ o \in Holders
      BY <1>3, <2>1, <2>2, <2>6 DEF CanTransition, transitions, Holders
    <3>2. CustodyNow[o] = "held"
      BY <2>1, <3>1 DEF CustodyNow, custodyOf, Sold, absent
    <3>3. CustodyNow' = [CustodyNow EXCEPT ![o] = "sold"]
      BY <1>1, <2>1, <2>3, <2>6 DEF CustodyNow, custodyOf, Holders, Sold, absent
    <3>4. ASSUME NEW v \in Variant PROVE stock'[v] - reserved'[v] = stock[v] - reserved[v]
      <4>1. stock[v] \in Nat /\ reserved[v] \in Nat /\ lines[o][v] \in Nat
        BY <2>1, MaxQtyAssumption DEF TypeOK, Lines
      <4>2. lines[o][v] <= reserved[v]
        <5>1. lines[o][v] = Qty({o}, lines, v)
          BY <2>1, QtyOfOne DEF TypeOK
        <5>2. Qty({o}, lines, v) <= Qty(Holders, lines, v)
          BY <3>1, HoldersType, QtyOfDifference
        <5>3. reserved[v] = Qty(Holders, lines, v)
          BY DEF ReservedExactly
        <5> QED
          BY <5>1, <5>2, <5>3
      <4>3. reserved[v] <= stock[v]
        BY DEF NoOversell
      <4>4. stock'[v] = Minus(stock[v], lines[o][v]) /\ reserved'[v] = Minus(reserved[v], lines[o][v])
        BY <1>3, <2>6 DEF SettleStock, CommitItems
      <4>5. stock'[v] = stock[v] - lines[o][v] /\ reserved'[v] = reserved[v] - lines[o][v]
        BY <4>1, <4>2, <4>3, <4>4, MinusNat
      <4> QED
        BY <4>1, <4>5
    <3>5. Available' = Available
      BY <3>4 DEF Available
    <3> QED
      BY <2>1, <2>5, <3>2, <3>3, <3>5, LedgerSells
  <2>7. CASE target = "expired"
    <3>1. {o} \in SUBSET Holders
      BY <1>3, <2>1, <2>2, <2>7 DEF CanTransition, transitions, Holders
    <3>2. /\ stock' = stock
          /\ \A v \in Variant : reserved'[v] = Minus(reserved[v], Qty({o}, lines, v))
      BY <1>3, <2>7 DEF SettleStock, ReleaseItems
    <3>3. CustodyNow' = [p \in Order |-> IF p \in {o} THEN "back" ELSE CustodyNow[p]]
      BY <1>1, <2>1, <2>3, <2>7 DEF CustodyNow, custodyOf, Holders, Sold, absent
    <3> QED
      BY <2>5, <3>1, <3>2, <3>3, HoldersGiveBack
  <2>8. CASE target \in {"awaiting_payment", "refunded"}
    <3>1. UNCHANGED variantVars
      BY <1>3, <2>8 DEF SettleStock
    <3>2. \/ status[o] = "created" /\ target = "awaiting_payment"
          \/ status[o] = "paid" /\ target = "refunded"
      BY <1>3, <2>8 DEF CanTransition, transitions
    <3>3. \A p \in Order : custodyOf(p)' = custodyOf(p)
      BY <1>1, <2>1, <2>2, <2>3, <3>2 DEF custodyOf, Holders, Sold, absent
    <3>4. \A p \in Order : status'[p] = absent <=> status[p] = absent
      BY <2>3, <3>2 DEF absent
    <3> QED
      BY <1>1, <3>1, <3>3, <3>4, NoUnitsMove
  <2> QED
    BY <2>4, <2>6, <2>7, <2>8
<1>4. \/ UNCHANGED variantVars /\ status' = status
      \/ /\ Apply(c) /\ Deliverable(c)
         /\ CanTransition(status[o], target) /\ SettleStock(o, target) /\ MoveTo({o}, target)
  BY DEF Receive, RecordRejected, OrderMissing, Apply, StatusUnmoved, Decides
<1> QED
  BY <1>2, <1>3, <1>4

LEMMA WorkerImplements ==
  ASSUME Inv, NEW os \in SUBSET Order, ExpireDue(os)
  PROVE  [Ledger!Next]_Ledger!ledgerVars
<1> USE DEF Inv, Reservations, Lifecycle
<1>1. ASSUME NEW o \in os PROVE status[o] = "awaiting_payment" /\ o \in Holders
  BY DEF ExpireDue, Due, Invoices, Holders, absent
<1>2. os \in SUBSET Holders /\ os # {}
  BY <1>1 DEF ExpireDue
<1>3. /\ lines' = lines /\ abandoned' = abandoned /\ stock' = stock
      /\ status' = [o \in Order |-> IF o \in os THEN "expired" ELSE status[o]]
      /\ \A v \in Variant : reserved'[v] = Minus(reserved[v], Qty(os, lines, v))
  BY DEF ExpireDue, MoveTo, ReleaseItems, workerFrame
<1>4. CustodyNow' = [o \in Order |-> IF o \in os THEN "back" ELSE CustodyNow[o]]
  BY <1>3 DEF CustodyNow, custodyOf, Holders, Sold, absent
<1>5. Asked' = Asked
  BY <1>1, <1>3 DEF Asked, absent
<1> QED
  BY <1>2, <1>3, <1>4, <1>5, HoldersGiveBack

LEMMA AdminImplements ==
  ASSUME Inv, NEW a \in Admin, Transition(a)
  PROVE  [Ledger!Next]_Ledger!ledgerVars
<1> USE DEF Inv, Reservations, Lifecycle
<1> DEFINE r == request[a]
           o == r.order
<1>1. o \in Order /\ r.to \in manualTargets /\ CanTransition(r.from, r.to)
  BY DEF Transition, TypeOK, Request, JudgedLegally, ManualTargets
<1>2. lines' = lines /\ abandoned' = abandoned
  BY DEF Transition, adminFrame
<1>3. CASE UNCHANGED variantVars /\ status' = status
  <2>1. \A p \in Order : custodyOf(p)' = custodyOf(p)
    BY <1>2, <1>3 DEF custodyOf, Holders
  <2> QED
    BY <1>2, <1>3, <2>1, NoUnitsMove
<1>4. CASE status[o] = r.from /\ CancelStock(o, r.from, r.to) /\ MoveTo({o}, r.to)
  <2> HIDE DEF o
  <2>1. status' = [p \in Order |-> IF p = o THEN r.to ELSE status[p]]
    BY <1>4 DEF MoveTo
  <2>2. status[o] # absent
    BY <1>1, <1>4 DEF CanTransition, transitions, absent
  <2>3. Asked' = Asked
    BY <1>1, <1>2, <2>1, <2>2 DEF Asked, absent, manualTargets
  <2>4. CASE r.to = "cancelled" /\ r.from = "awaiting_payment"
    <3>1. {o} \in SUBSET Holders
      BY <1>1, <1>4, <2>4 DEF Holders, Invoices, absent
    <3>2. /\ stock' = stock
          /\ \A v \in Variant : reserved'[v] = Minus(reserved[v], Qty({o}, lines, v))
      BY <1>4, <2>4 DEF CancelStock, ReleaseItems
    <3>3. CustodyNow' = [p \in Order |-> IF p \in {o} THEN "back" ELSE CustodyNow[p]]
      BY <1>2, <2>1, <2>4 DEF CustodyNow, custodyOf, Holders, Sold, absent
    <3> QED
      BY <2>3, <3>1, <3>2, <3>3, HoldersGiveBack
  <2>5. CASE r.to = "cancelled" /\ r.from = "paid"
    <3>1. CustodyNow[o] = "sold"
      BY <1>1, <1>4, <2>5 DEF CustodyNow, custodyOf, Holders, Sold, absent
    <3>2. CustodyNow' = [CustodyNow EXCEPT ![o] = "back"]
      BY <1>1, <1>2, <2>1, <2>5 DEF CustodyNow, custodyOf, Holders, Sold, absent
    <3>3. RestockItems(o)
      BY <1>4, <2>5 DEF CancelStock
    <3>4. Asked[o] = lines[o]
      BY <1>1, <2>2 DEF Asked
    <3>5. \A v \in Variant : stock[v] \in Nat /\ reserved[v] \in Nat /\ lines[o][v] \in Nat
      BY <1>1, MaxQtyAssumption DEF TypeOK, Lines
    <3>6. Available' = [v \in Variant |-> Available[v] + Asked[o][v]]
      BY <3>3, <3>4, <3>5 DEF RestockItems, Available
    <3> QED
      BY <1>1, <2>3, <3>1, <3>2, <3>6, LedgerRestocks
  <2>6. CASE r.to # "cancelled" \/ r.from \notin {"awaiting_payment", "paid"}
    <3>1. UNCHANGED variantVars
      BY <1>4, <2>6 DEF CancelStock
    <3>2. \/ r.from = "paid" /\ r.to = "shipped"
          \/ r.from = "shipped" /\ r.to = "delivered"
          \/ r.from = "expired" /\ r.to = "cancelled"
      BY <1>1, <2>6 DEF manualTargets, CanTransition, transitions
    <3>3. \A p \in Order : custodyOf(p)' = custodyOf(p)
      BY <1>1, <1>2, <1>4, <2>1, <3>2 DEF custodyOf, Holders, Sold, absent
    <3>4. \A p \in Order : status'[p] = absent <=> status[p] = absent
      BY <2>1, <2>2, <3>2 DEF absent
    <3> QED
      BY <1>2, <3>1, <3>3, <3>4, NoUnitsMove
  <2> QED
    BY <2>4, <2>5, <2>6
<1>5. \/ UNCHANGED variantVars /\ status' = status
      \/ status[o] = r.from /\ CancelStock(o, r.from, r.to) /\ MoveTo({o}, r.to)
  BY DEF Transition, StatusUnmoved
<1> QED
  BY <1>3, <1>4, <1>5

LEMMA RecountImplements ==
  ASSUME Inv, NEW v \in Recounted, NEW n \in 0..MaxStock, SetStock(v, n)
  PROVE  [Ledger!Next]_Ledger!ledgerVars
<1> USE DEF Inv, Reservations, Lifecycle
<1>1. v \in Variant /\ stock \in [Variant -> Nat] /\ reserved \in [Variant -> Nat] /\ n \in Nat
  BY RecountedAssumption, BoundsAssumption DEF TypeOK
<1>2. reserved' = reserved /\ stock' = [stock EXCEPT ![v] = n] /\ n >= reserved[v]
  BY DEF SetStock
<1>3. Available' = [Available EXCEPT ![v] = n - reserved[v]]
  BY <1>1, <1>2 DEF Available
<1>4. Available'[v] = n - reserved[v] /\ n - reserved[v] \in Nat
  BY <1>1, <1>2, <1>3 DEF Available
<1>5. CustodyNow' = CustodyNow /\ Asked' = Asked
  BY DEF SetStock, adminFrame, CustodyNow, custodyOf, Holders, Asked
<1> QED
  BY <1>3, <1>4, <1>5, LedgerRecounts

\* What moves no units and no order is invisible to the ledger.
LEMMA FrameImplements ==
  ASSUME UNCHANGED <<variantVars, status, lines, abandoned>>
  PROVE  [Ledger!Next]_Ledger!ledgerVars
<1>1. \A p \in Order : custodyOf(p)' = custodyOf(p)
  BY DEF custodyOf, Holders
<1> QED
  BY <1>1, NoUnitsMove

LEMMA StepImplements ==
  ASSUME Inv, [Next]_vars
  PROVE  [Ledger!Next]_Ledger!ledgerVars
<1>1. CASE UNCHANGED vars
  BY <1>1, FrameImplements DEF vars, variantVars
<1>2. ASSUME NEW o \in Order, DeadlinePasses(o)
      PROVE  [Ledger!Next]_Ledger!ledgerVars
  BY <1>2, FrameImplements DEF DeadlinePasses, workerFrame
<1>3. ASSUME NEW o \in Order, RecordOrderPaid(o) \/ PurchaseLost(o)
      PROVE  [Ledger!Next]_Ledger!ledgerVars
  BY <1>3, FrameImplements DEF RecordOrderPaid, PurchaseLost, callbackFrame
<1>4. ASSUME NEW a \in Admin, NEW o \in Order, NEW to \in manualTargets, JudgeMove(a, o, to)
      PROVE  [Ledger!Next]_Ledger!ledgerVars
  BY <1>4, FrameImplements DEF JudgeMove, adminFrame
<1>5. ASSUME NEW p \in BOOLEAN, SetPaused(p)
      PROVE  [Ledger!Next]_Ledger!ledgerVars
  BY <1>5, FrameImplements DEF SetPaused, adminFrame
<1>6. ASSUME NEW c \in Chat, (\E o \in Order : ReadLinkedOrder(c, o)) \/ InsertLink(c)
      PROVE  [Ledger!Next]_Ledger!ledgerVars
  BY <1>6, FrameImplements DEF ReadLinkedOrder, InsertLink, linkFrame
<1> QED
  BY <1>1, <1>2, <1>3, <1>4, <1>5, <1>6, CheckoutImplements, CallbackImplements,
     WorkerImplements, AdminImplements, RecountImplements DEF Next

\* The detailed system implements the ledger for every number of orders, variants,
\* callbacks and administrators: every order takes its units once and in full and
\* gives them back at most once, provided that an invoice whose reply is lost is
\* not paid.
THEOREM ImplementsLedger ==
  ASSUME LostReplies = FALSE
  PROVE  Spec => LedgerSpec
<1>1. Init => Ledger!Init
  <2> SUFFICES ASSUME Init PROVE Ledger!Init
    OBVIOUS
  <2>1. \A v \in Variant : stock[v] - reserved[v] \in Nat
    BY BoundsAssumption DEF Init
  <2>2. [v \in Variant |-> stock[v] - reserved[v]] \in [Variant -> Nat]
    BY <2>1
  <2>3. [o \in Order |-> custodyOf(o)] = [o \in Order |-> "none"]
    BY DEF Init, custodyOf, Holders, Sold, absent
  <2>4. [o \in Order |-> IF status[o] = absent THEN NoLines ELSE lines[o]] = [o \in Order |-> NoLines]
    BY DEF Init
  <2> QED
    BY <2>2, <2>3, <2>4 DEF Ledger!Init, NoLines, Ledger!NoLines
<1>2. Inv /\ [Next]_vars => [Ledger!Next]_Ledger!ledgerVars
  BY StepImplements
<1> QED
  BY <1>1, <1>2, InvHolds, PTL DEF Spec, LedgerSpec, Ledger!Spec
=============================================================================
