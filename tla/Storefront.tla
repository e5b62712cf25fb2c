----------------------------- MODULE Storefront -----------------------------
(***************************************************************************)
(* What one browser does in the shop while the back office works: adding,  *)
(* changing and removing cart lines and checking out, from several tabs at *)
(* once, against price changes and settings saves.                         *)
(*                                                                         *)
(* None of the cart code runs in a transaction. A request is a sequence of *)
(* statements, and every other request may run between two of them; the    *)
(* cookies its answer sets or clears reach the browser only at the end, or *)
(* never. A tab is one request in flight.                                  *)
(***************************************************************************)
EXTENDS Carts, ShopSettings, PriceTrail

CONSTANTS
  Tab,            \* requests of the browser that may be in flight at once
  MaxAvailable,   \* bound on the units of a size on sale
  MaxOrders       \* bound on the orders placed

ASSUME StoreBoundsAssumption == MaxAvailable \in Nat /\ MaxOrders \in Nat

VARIABLES
  available,   \* stock - reserved of each size
  cartCookie,  \* the cart the browser carries, or NoCart
  tab,         \* the request in flight in each tab
  orders       \* orders placed, with the snapshot order_items keeps

shopVars == <<available, cartCookie, tab, orders>>
storeVars == <<cartVars, settingsVars, trailVars, shopVars>>

Idle == [phase |-> "idle"]

StoreInit ==
  /\ CartsInit /\ SettingsInit /\ TrailInit
  /\ available \in [Variant -> {0, MaxAvailable}]
  /\ cartCookie = NoCart
  /\ tab = [t \in Tab |-> Idle]
  /\ orders = <<>>

\* A request of the browser begins: no other one has been in flight alone with it any
\* more (history: LoneAddIsKept speaks of adds nobody disturbed).
Disturbed(u) ==
  IF "alone" \in DOMAIN tab[u] THEN [tab[u] EXCEPT !.alone = FALSE] ELSE tab[u]
Begins(t, request) ==
  tab' = [u \in Tab |-> IF u = t THEN request ELSE Disturbed(u)]
Goes(t, request) == tab' = [tab EXCEPT ![t] = request]
Ends(t) == Goes(t, Idle)

Alone(t) == \A u \in Tab \ {t} : tab[u] = Idle

-----------------------------------------------------------------------------
(* Adding to the cart: AddItem and Service.Add.                            *)

\* What an answer carries to the browser: it may set the cart cookie. An answer of
\* success also carries what LoneAddIsKept is about.
Refusal(r) == [phase |-> "answering", cart |-> r.cart, sets |-> r.sets, alone |-> FALSE]
Success(r) ==
  [phase |-> "answering", cart |-> r.cart, sets |-> r.sets, alone |-> r.alone,
   variant |-> r.variant, kept |-> r.before + r.qty]

\* ensureCart comes before the form is read: it keeps the cart of the cookie or opens a
\* new one. A form without a size or with a bad quantity goes no further; else the size
\* is looked up (VariantByID) and its units counted.
AddItem(t, v, q) ==
  LET c == IF CartExists(cartCookie) THEN cartCookie ELSE NextCart
      r == [phase |-> "counting", cart |-> c, variant |-> v, qty |-> q,
            before |-> QtyOf(cartCookie, v), alone |-> Alone(t), sets |-> c # cartCookie,
            seen |-> available[v]]
  IN  /\ tab[t] = Idle
      /\ CartExists(cartCookie) \/ CanCreateCart
      /\ carts' = carts \cup {c}
      /\ Begins(t, IF ValidQty(q) THEN r ELSE Refusal(r))
      /\ UNCHANGED <<items, settingsVars, trailVars, available, cartCookie, orders>>

\* QtyOf, then the caps on the quantity the line would have.
ReadQty(t) ==
  LET r == tab[t]
      wanted == QtyOf(r.cart, r.variant) + r.qty
  IN  /\ r.phase = "counting"
      /\ Goes(t, IF ValidQty(wanted) /\ r.seen >= wanted
                 THEN [phase |-> "writing", cart |-> r.cart, variant |-> r.variant,
                       qty |-> r.qty, before |-> r.before, alone |-> r.alone,
                       sets |-> r.sets, wanted |-> wanted]
                 ELSE Refusal(r))
      /\ UNCHANGED <<cartVars, settingsVars, trailVars, available, cartCookie, orders>>

\* CartRepo.AddItem: the quantity is written as a number, not as an increment. TouchCart
\* follows as a statement of its own; when it fails the answer is an error, and the
\* line stays.
WriteLine(t) ==
  LET r == tab[t] IN
    /\ r.phase = "writing"
    /\ CanInsertItem(r.cart, r.variant)
    /\ items' = InsertCartItem(r.cart, r.variant, r.wanted)
    /\ Goes(t, Success(r)) \/ Goes(t, Refusal(r))
    /\ UNCHANGED <<carts, settingsVars, trailVars, available, cartCookie, orders>>

\* Fault (mutation run): the cookie is renewed on every add.
AddAnsweredRenewing(t) ==
  LET r == tab[t] IN
    /\ r.phase = "answering"
    /\ cartCookie' = r.cart
    /\ Ends(t)
    /\ UNCHANGED <<cartVars, settingsVars, trailVars, available, orders>>

\* The answer reaches the browser: Set-Cookie when the cart is not the one the request
\* came with. A browser that has meanwhile got another cart keeps the last one set.
AddAnswered(t) ==
  LET r == tab[t] IN
    /\ r.phase = "answering"
    /\ cartCookie' = IF r.sets THEN r.cart ELSE cartCookie
    /\ Ends(t)
    /\ UNCHANGED <<cartVars, settingsVars, trailVars, available, orders>>

-----------------------------------------------------------------------------
(* Changing and removing a line: any row id a page ever showed.            *)

\* UpdateItem and Service.SetQty: the cart is listed, the line looked up in it and the
\* units compared; a request without a cart or a line of another cart is a 404.
UpdateItem(t, i, q) ==
  /\ tab[t] = Idle
  /\ ValidQty(q)
  /\ OwnedBy(cartCookie, i) /\ available[items[i].variant] >= q
  /\ Begins(t, [phase |-> "setting", cart |-> cartCookie, item |-> i, qty |-> q])
  /\ UNCHANGED <<cartVars, settingsVars, trailVars, available, cartCookie, orders>>

\* UPDATE ... WHERE id AND cart_id; the row may be gone by now.
SetQty(t) ==
  LET r == tab[t] IN
    /\ r.phase = "setting"
    /\ items' = UpdateCartItemQty(r.cart, r.item, r.qty)
    /\ Ends(t)
    /\ UNCHANGED <<carts, settingsVars, trailVars, available, cartCookie, orders>>

\* One statement does it all; it counts as a request that came and went.
RemoveItem(t, i) ==
  /\ tab[t] = Idle
  /\ items' = DeleteCartItem(cartCookie, i)
  /\ Begins(t, Idle)
  /\ UNCHANGED <<carts, settingsVars, trailVars, available, cartCookie, orders>>

-----------------------------------------------------------------------------
(* Checkout: the handler up to the answer that clears the cart cookie. What*)
(* happens to the units and the payment is OrderStock's subject.           *)

Priced(c) == {[variant |-> items[i].variant, qty |-> items[i].qty, unit |-> price]
              : i \in ListCartItems(c)}

\* checkoutView: the lines with their prices in one query. An empty cart is sent away.
\* `paused` is history: the shop has been paused ever since the request began.
Checkout(t) ==
  /\ tab[t] = Idle
  /\ ListCartItems(cartCookie) # {}
  /\ Begins(t, [phase |-> "pricing", cart |-> cartCookie, lines |-> Priced(cartCookie),
                paused |-> Paused])
  /\ UNCHANGED <<cartVars, settingsVars, trailVars, available, cartCookie, orders>>

\* Totals asks the settings for the shipping fee and adds up; a negative fee counts as none.
Totals(t) ==
  LET r == tab[t]
      fee == IF ShippingCents < 0 THEN 0 ELSE ShippingCents IN
    /\ r.phase = "pricing"
    /\ Goes(t, [phase |-> "deciding", cart |-> r.cart, lines |-> r.lines, paused |-> r.paused,
                shipping |-> fee, total |-> Subtotal(r.lines) + fee])
    /\ UNCHANGED <<cartVars, settingsVars, trailVars, available, cartCookie, orders>>

\* Fault (mutation run): only the form shows the pause, the submit does not look at it.
ReadPausedIgnored(t) ==
  LET r == tab[t] IN
    /\ r.phase = "deciding"
    /\ \/ Goes(t, [r EXCEPT !.phase = "placing"])
       \/ Ends(t)
    /\ UNCHANGED <<cartVars, settingsVars, trailVars, available, cartCookie, orders>>

\* Values: the last of its three reads is the pause flag. A paused shop, a form without
\* consent or with a bad field ends the request.
ReadPaused(t) ==
  LET r == tab[t] IN
    /\ r.phase = "deciding"
    /\ \/ ~Paused /\ Goes(t, [r EXCEPT !.phase = "placing"])
       \/ Ends(t)
    /\ UNCHANGED <<cartVars, settingsVars, trailVars, available, cartCookie, orders>>

\* Fault (mutation run): the order takes its prices from the catalogue as it places.
OrderRepriced(r) ==
  [cart |-> r.cart, lines |-> {[l EXCEPT !.unit = price] : l \in r.lines},
   shipping |-> r.shipping, total |-> r.total, redirected |-> FALSE]

\* placeInput: the order is what the view showed.
OrderOf(r) ==
  [cart |-> r.cart, lines |-> r.lines, shipping |-> r.shipping, total |-> r.total,
   redirected |-> FALSE]

\* Place and OrderRepo.Create, one transaction that takes the units of every line.
PlaceOrder(t) ==
  LET r == tab[t] IN
    /\ r.phase = "placing"
    /\ Len(orders) < MaxOrders
    /\ \A l \in r.lines : available[l.variant] >= l.qty
    /\ orders' = Append(orders, OrderOf(r))
    /\ available' = [v \in Variant |->
         available[v] - MapThenSumSet(LAMBDA l : l.qty, {l \in r.lines : l.variant = v})]
    /\ Goes(t, [phase |-> "invoicing", order |-> Len(orders) + 1])
    /\ UNCHANGED <<cartVars, settingsVars, trailVars, cartCookie>>

\* Out of stock, a failed statement, or a request that stops.
CheckoutFails(t) ==
  /\ tab[t].phase \in {"pricing", "deciding", "placing", "invoicing"}
  /\ Ends(t)
  /\ UNCHANGED <<cartVars, settingsVars, trailVars, available, cartCookie, orders>>

\* CreateInvoice and AwaitPayment succeed, and the answer sends the browser to the
\* provider with its cart cookie cleared.
CheckoutAnswered(t) ==
  LET r == tab[t] IN
    /\ r.phase = "invoicing"
    /\ cartCookie' = NoCart
    /\ orders' = [orders EXCEPT ![r.order].redirected = TRUE]
    /\ Ends(t)
    /\ UNCHANGED <<cartVars, settingsVars, trailVars, available>>

-----------------------------------------------------------------------------
\* Any answer may get lost: the browser's cookies stay as they are.
AnswerLost(t) ==
  /\ tab[t].phase = "answering"
  /\ Ends(t)
  /\ UNCHANGED <<cartVars, settingsVars, trailVars, available, cartCookie, orders>>

\* Other buyers and the workers take units and give them back (OrderStock): the size
\* sells out, or all of it is on sale again.
OthersTrade(v) ==
  /\ \E n \in {0, MaxAvailable} : available' = [available EXCEPT ![v] = n]
  /\ UNCHANGED <<cartVars, settingsVars, trailVars, cartCookie, tab, orders>>

TabStep(t) ==
  \/ \E v \in Variant, q \in 0..MaxQty + 1 : AddItem(t, v, q)
  \/ ReadQty(t) \/ WriteLine(t) \/ AddAnswered(t) \/ AnswerLost(t)
  \/ \E i \in DOMAIN items, q \in Qty : UpdateItem(t, i, q)
  \/ SetQty(t)
  \/ \E i \in DOMAIN items : RemoveItem(t, i)
  \/ Checkout(t) \/ Totals(t) \/ ReadPaused(t) \/ PlaceOrder(t)
  \/ CheckoutFails(t) \/ CheckoutAnswered(t)

\* The shop is resumed: nobody in flight has seen it paused all along any more.
Resumed ==
  tab' = [t \in Tab |->
    IF "paused" \in DOMAIN tab[t] THEN [tab[t] EXCEPT !.paused = @ /\ Paused'] ELSE tab[t]]

OfficeStep(a) ==
  \/ /\ a \in Saver /\ SaverStep(a) /\ Resumed
     /\ UNCHANGED <<cartVars, trailVars, available, cartCookie, orders>>
  \/ /\ a \in Pricer /\ PricerStep(a)
     /\ UNCHANGED <<cartVars, settingsVars, shopVars>>

StoreNext ==
  \/ \E t \in Tab : TabStep(t)
  \/ \E a \in Saver \cup Pricer : OfficeStep(a)
  \/ \E v \in Variant : OthersTrade(v)

StoreSpec == StoreInit /\ [][StoreNext]_storeVars
-----------------------------------------------------------------------------
(* Properties.                                                             *)

\* A tee put into the cart is there: an add that is answered with success while no other
\* request of the browser was in flight leaves the browser with a cart that holds what
\* it held before and the added units - whether the cart was opened for it or not, and
\* whatever line, stock or answer got lost before.
LoneAddIsKept ==
  [][\A t \in Tab, v \in Variant :
       LET r == tab[t] IN
         AddAnswered(t) /\ r.alone /\ r.variant = v
           => (QtyOf(cartCookie, v))' = r.kept]_storeVars

\* "A fresh cart keeps the buyer from ordering the same tees twice by pressing back"
\* (Checkout): once a checkout has sent the browser to the invoice, no answer that was
\* under way gives the browser the ordered cart again.
SpentCartIsGone == \A i \in DOMAIN orders : orders[i].redirected => cartCookie # orders[i].cart

\* "The order keeps the price it was placed at" (orderItems): what an order charges is
\* the sum of what it lists, at prices the product has had, whatever the office changes
\* between the view and the order and afterwards.
OrderAddsUp ==
  \A i \in DOMAIN orders :
    /\ orders[i].total = Subtotal(orders[i].lines) + orders[i].shipping
    /\ \A l \in orders[i].lines :
         l.unit \in {FirstPrice} \cup {trail[k].new : k \in DOMAIN trail}

\* "A paused shop has to stay paused from the moment the operator says so" (settings.go):
\* a checkout that begins in a paused shop places no order while it stays paused. One
\* that read the flag before may still place one after.
PauseStopsLaterCheckouts ==
  [][\A t \in Tab :
       tab[t].phase = "placing" /\ tab'[t].phase = "invoicing" => ~tab[t].paused]_storeVars
=============================================================================
