-------------------------------- MODULE Pages --------------------------------
(***************************************************************************)
(* What an open page offers, and what the shop makes of it when the form   *)
(* is sent. A page is drawn from the tables once and stays in its tab      *)
(* while buyers, the provider and administrators go on; its handler judges *)
(* the form by the tables as they are by then. Only the status page of an  *)
(* order asks again by itself (web/static/js/order.js).                    *)
(*                                                                         *)
(* The steps inside one handler are the business of Storefront and         *)
(* OrderStock: here a request is one step.                                 *)
(***************************************************************************)
EXTENDS Naturals, OrderStatus

CONSTANTS
  Tab,       \* tabs of buyers and administrators
  Size,      \* the sizes of the product
  MaxQty,    \* cart.MaxQty
  MaxStock   \* bound on the units of a size

ASSUME PagesAssumption == MaxQty \in Nat \ {0} /\ MaxStock \in Nat

VARIABLES
  stock, reserved,  \* product_variants
  onSale,           \* products.is_active
  paused,           \* settings.shop_paused
  inCart,           \* cart_items: the units of each size, 0 for no line
  status, overdue,  \* one order: its status, and whether its deadline has passed
  \* per tab: the page in it. `fresh` and `lines` are history: whether nothing the page
  \* was drawn from has changed since, and the sizes whose line in it is still the same
  shown,
  refused           \* history: the tab and the form the last step refused

shelfVars == <<stock, reserved, onSale, paused>>
orderVars == <<status, overdue>>
pagesVars == <<shelfVars, inCart, orderVars, shown, refused>>

PageKind == {"home", "product", "cart", "checkout", "status", "card", "products"}

NoForm == <<>>

Blank == [kind |-> "blank", forms |-> {}, lines |-> {}, status |-> "none", fresh |-> TRUE]

PagesInit ==
  /\ stock = [s \in Size |-> MaxStock] /\ reserved = [s \in Size |-> 0]
  /\ onSale = TRUE /\ paused = FALSE
  /\ inCart = [s \in Size |-> 0]
  /\ status = "created" /\ overdue = FALSE
  /\ shown = [t \in Tab |-> Blank] /\ refused = NoForm

-----------------------------------------------------------------------------
(* What the pages offer.                                                   *)

Available(s) == stock[s] - reserved[s]

\* The sizes that are not marked as sold out.
sizeOptions == {s \in Size : Available(s) > 0}

inStock == \E s \in Size : Available(s) > 0

\* Fault (mutation run): a size is offered by its stock, reserved or not.
AddFormsOfStock == {<<"add", s>> : s \in {z \in Size : stock[z] > 0}}

\* The form that adds one unit of a size, on the product page and on each card of the
\* front page.
AddForms == IF inStock THEN {<<"add", s>> : s \in sizeOptions} ELSE {}

\* ListActive and BySlug: the storefront finds a product only while it is on sale.
Found == onSale

\* The front page has a card for each product it finds.
HomeForms == IF Found THEN AddForms ELSE {}

\* The lines of the cart, wherever its panel is drawn.
Lines == {s \in Size : inCart[s] > 0}
CartFragment == {<<"update", s>> : s \in Lines} \cup {<<"remove", s>> : s \in Lines}

\* The button is there even when the page says that the shop is on pause.
CheckoutForms == {<<"place">>}

Expired == overdue /\ status \in {"created", "awaiting_payment"}
Payable == status = "awaiting_payment" /\ ~Expired
InvoiceLink == IF Payable THEN {<<"pay">>} ELSE {}

MoveButtons == {<<"move", to>> : to \in ManualTargets(status)}

StockForms == {<<"stock", s>> : s \in Size}

FormsOf(kind) ==
  CASE kind = "home" -> HomeForms \cup CartFragment
    [] kind = "product" -> AddForms \cup CartFragment
    [] kind = "cart" -> CartFragment
    [] kind = "checkout" -> CheckoutForms
    [] kind = "status" -> InvoiceLink
    [] kind = "card" -> MoveButtons
    [] kind = "products" -> StockForms

\* What the offers of a page depend on.
Basis(kind) ==
  CASE kind = "home" -> <<onSale, [s \in Size |-> Available(s)], inCart>>
    [] kind \in {"product", "cart"} -> <<[s \in Size |-> Available(s)], inCart>>
    [] kind = "checkout" -> <<paused, [s \in Size |-> Available(s)], inCart>>
    [] kind \in {"status", "card"} -> <<status>>
    [] kind = "products" -> <<stock, reserved>>

Drawn(kind) ==
  [kind |-> kind, forms |-> FormsOf(kind), lines |-> Lines,
   status |-> IF kind = "status" THEN status ELSE "none", fresh |-> TRUE]

\* The kinds of page this step has made stale.
Changed == {kind \in PageKind : Basis(kind)' # Basis(kind)}

\* The pages after a step that draws none of them.
Aged ==
  [t \in Tab |-> [shown[t] EXCEPT
     !.fresh = @ /\ shown[t].kind \notin Changed,
     !.lines = @ \cap Lines']]

Draw(t, page) == shown' = [Aged EXCEPT ![t] = page]

\* The answer to a cart form is the panel alone, drawn anew: what else the page offers
\* stays, and is as true as it was.
SwapPanel(t) ==
  shown' = [Aged EXCEPT
    ![t].forms = {f \in @ : f[1] = "add"} \cup CartFragment',
    ![t].lines = Lines', ![t].fresh = shown[t].fresh]

Judged(t, form, ok) == refused' = IF ok THEN NoForm ELSE <<t, form>>

-----------------------------------------------------------------------------
(* Opening a page.                                                         *)

Untouched == UNCHANGED <<shelfVars, inCart, orderVars>> /\ refused' = NoForm

Home(t) == Untouched /\ Draw(t, Drawn("home"))

\* A product that is not on sale is not found.
Product(t) == Untouched /\ Draw(t, IF Found THEN Drawn("product") ELSE Blank)

CartPage(t) == Untouched /\ Draw(t, Drawn("cart"))

\* An empty cart is sent back to /cart.
CheckoutForm(t) == Untouched /\ Draw(t, Drawn(IF Lines = {} THEN "cart" ELSE "checkout"))

OrderPage(t) == Untouched /\ Draw(t, Drawn("status"))

Order(t) == Untouched /\ Draw(t, Drawn("card"))

Products(t) == Untouched /\ Draw(t, Drawn("products"))

\* The tab is closed.
Leave(t) == shown[t] # Blank /\ Untouched /\ Draw(t, Blank)

-----------------------------------------------------------------------------
(* Sending a form.                                                         *)

Offers(t, form) == form \in shown[t].forms

\* POST /cart/items: one unit more, capped by the shelf and by MaxQty. The size is
\* looked up whether its product is on sale or not.
AddItem(t, s) ==
  LET wanted == inCart[s] + 1
      ok == wanted <= MaxQty /\ wanted <= Available(s)
  IN /\ Offers(t, <<"add", s>>)
     /\ inCart' = IF ok THEN [inCart EXCEPT ![s] = wanted] ELSE inCart
     /\ UNCHANGED <<shelfVars, orderVars>>
     /\ SwapPanel(t) /\ Judged(t, <<"add", s>>, ok)

\* PATCH /cart/items/{id}: any quantity the form takes, for a line that is still there.
UpdateItem(t, s, qty) ==
  LET ok == s \in shown[t].lines /\ qty <= Available(s)
  IN /\ Offers(t, <<"update", s>>)
     /\ inCart' = IF ok THEN [inCart EXCEPT ![s] = qty] ELSE inCart
     /\ UNCHANGED <<shelfVars, orderVars>>
     /\ SwapPanel(t) /\ Judged(t, <<"update", s, qty>>, ok)

\* DELETE /cart/items/{id}
RemoveItem(t, s) ==
  LET ok == s \in shown[t].lines
  IN /\ Offers(t, <<"remove", s>>)
     /\ inCart' = IF ok THEN [inCart EXCEPT ![s] = 0] ELSE inCart
     /\ UNCHANGED <<shelfVars, orderVars>>
     /\ SwapPanel(t) /\ Judged(t, <<"remove", s>>, ok)

\* Every line of the cart still fits.
Fits == \A s \in Size : inCart[s] <= Available(s)

\* POST /checkout: the cart as it is now is ordered, whatever the page showed. The buyer
\* is sent to the invoice, or back to the form with the reason.
Checkout(t) ==
  LET ok == Lines # {} /\ ~paused /\ Fits
  IN /\ Offers(t, <<"place">>)
     /\ UNCHANGED <<stock, onSale, paused, orderVars>>
     /\ IF ok
        THEN /\ reserved' = [s \in Size |-> reserved[s] + inCart[s]]
             /\ inCart' = [s \in Size |-> 0]
             /\ Draw(t, Blank)
        ELSE /\ UNCHANGED <<reserved, inCart>>
             /\ Draw(t, Drawn(IF Lines = {} THEN "cart" ELSE "checkout"))
     /\ Judged(t, <<"place">>, ok)

\* The invoice could not be created: the units go back and the form is shown again.
CheckoutUninvoiced(t) ==
  /\ Offers(t, <<"place">>)
  /\ Lines # {} /\ ~paused /\ Fits
  /\ Untouched /\ Draw(t, Drawn("checkout"))

\* POST /admin/orders/{id}/status: the card is shown again, moved or with the reason.
MoveOrder(t, to) ==
  LET ok == to \in ManualTargets(status)
  IN /\ Offers(t, <<"move", to>>)
     /\ status' = IF ok THEN to ELSE status
     /\ UNCHANGED <<shelfVars, inCart, overdue>>
     /\ Draw(t, Drawn("card")') /\ Judged(t, <<"move", to>>, ok)

\* POST /admin/products/{id}/stock: an absolute number, refused below the reservations.
SetStock(t, s, units) ==
  LET ok == reserved[s] <= units
  IN /\ Offers(t, <<"stock", s>>)
     /\ stock' = IF ok THEN [stock EXCEPT ![s] = units] ELSE stock
     /\ UNCHANGED <<reserved, onSale, paused, inCart, orderVars>>
     /\ Draw(t, Drawn("products")') /\ Judged(t, <<"stock", s, units>>, ok)

\* The link to the invoice. The provider takes the money whatever the order has become, but
\* only an order that still awaits it is paid by it.
FollowInvoice(t) ==
  /\ Offers(t, <<"pay">>)
  /\ UNCHANGED <<shelfVars, inCart, orderVars>>
  /\ Draw(t, Blank) /\ Judged(t, <<"pay">>, status = "awaiting_payment")

-----------------------------------------------------------------------------
(* The status page asks every ten seconds.                                 *)

\* Fault (mutation run): once the page shows that the order is paid it asks no more.
PollUntilPaid(t) ==
  /\ shown[t].kind = "status" /\ shown[t].status # "paid"
  /\ shown[t].status # status
  /\ Untouched /\ Draw(t, [Blank EXCEPT !.kind = "loading"])

\* The answer of /order/{token}/status.
OrderStatusAnswer == status

\* The answer names another status: the page is loaded again. An answer that names the
\* same status, and one that fails, change nothing.
Poll(t) ==
  /\ shown[t].kind = "status"
  /\ shown[t].status # OrderStatusAnswer
  /\ Untouched /\ Draw(t, [Blank EXCEPT !.kind = "loading"])

\* The reload: the page as it is by then, or an error and no page that would ask again.
Reload(t) ==
  /\ shown[t].kind = "loading"
  /\ Untouched
  /\ Draw(t, Drawn("status")) \/ Draw(t, Blank)

-----------------------------------------------------------------------------
(* Everybody else.                                                         *)

\* Other buyers' checkouts, releases and payments.
OthersTrade(s) ==
  /\ \/ Available(s) > 0 /\ reserved' = [reserved EXCEPT ![s] = @ + 1] /\ UNCHANGED stock
     \/ reserved[s] > 0 /\ reserved' = [reserved EXCEPT ![s] = @ - 1] /\ UNCHANGED stock
     \/ /\ reserved[s] > 0
        /\ reserved' = [reserved EXCEPT ![s] = @ - 1] /\ stock' = [stock EXCEPT ![s] = @ - 1]
  /\ UNCHANGED <<onSale, paused, inCart, orderVars>>
  /\ shown' = Aged /\ refused' = NoForm

\* The product is taken off sale or put back, by hand in the database.
TurnSale ==
  /\ onSale' = ~onSale
  /\ UNCHANGED <<stock, reserved, paused, inCart, orderVars>>
  /\ shown' = Aged /\ refused' = NoForm

TurnPause ==
  /\ paused' = ~paused
  /\ UNCHANGED <<stock, reserved, onSale, inCart, orderVars>>
  /\ shown' = Aged /\ refused' = NoForm

\* The checkout, a callback, the worker or another administrator moves the order.
OrderMoves ==
  /\ \E to \in Status : CanTransition(status, to) /\ status' = to
  /\ UNCHANGED <<shelfVars, inCart, overdue>>
  /\ shown' = Aged /\ refused' = NoForm

DeadlinePasses ==
  /\ ~overdue /\ overdue' = TRUE
  /\ UNCHANGED <<shelfVars, inCart, status>>
  /\ shown' = Aged /\ refused' = NoForm

-----------------------------------------------------------------------------

BuyerStep ==
  \/ \E t \in Tab : Home(t) \/ Product(t) \/ CartPage(t) \/ CheckoutForm(t) \/ Leave(t)
  \/ \E t \in Tab, s \in Size :
       AddItem(t, s) \/ RemoveItem(t, s) \/ \E qty \in 1..MaxQty : UpdateItem(t, s, qty)
  \/ \E t \in Tab : Checkout(t) \/ CheckoutUninvoiced(t)

ShelfStep ==
  \/ \E t \in Tab : Products(t)
  \/ \E t \in Tab, s \in Size, units \in 0..MaxStock : SetStock(t, s, units)
  \/ \E s \in Size : OthersTrade(s)
  \/ TurnSale \/ TurnPause

OrderStep ==
  \/ \E t \in Tab : OrderPage(t) \/ Order(t) \/ Leave(t) \/ FollowInvoice(t)
       \/ Poll(t) \/ Reload(t)
  \/ \E t \in Tab, to \in manualTargets : MoveOrder(t, to)
  \/ OrderMoves \/ DeadlinePasses

PagesNext == BuyerStep \/ ShelfStep \/ OrderStep

PagesSpec == PagesInit /\ [][PagesNext]_pagesVars

\* A page that is open keeps asking, and the network does not fail it for ever.
PagesFairness == \A t \in Tab : WF_pagesVars(Poll(t))

-----------------------------------------------------------------------------
(* Properties.                                                             *)

Least(m, n) == IF m < n THEN m ELSE n

\* What a page could not have known: what the cart already holds is all there is, more is
\* asked for than there is, or the page itself said that the shop is on pause.
Excused(form) ==
  CASE form[1] = "add" -> inCart[form[2]] > 0 /\ inCart[form[2]] + 1 > Least(MaxQty, Available(form[2]))
    [] form[1] = "update" -> form[3] > Available(form[2])
    [] form[1] = "place" -> paused \/ ~Fits
    [] form[1] = "stock" -> form[3] < reserved[form[2]]
    [] OTHER -> FALSE

\* The offers of a page and the handlers that judge them agree: "sold out" is derived from
\* Available alone (sizeAvailability), "the judge is still CanTransition" (ManualTargets).
\* So a form is refused only when something its page was drawn from has changed since.
OffersAreHonoured ==
  [][\A t \in Tab :
       refused' # NoForm /\ refused'[1] = t /\ shown[t].fresh
         => Excused(refused'[2])]_pagesVars

\* "The browser only polls it every ten seconds and reloads the page when it changes"
\* (OrderStatus): in the end no status page shows a status its order has left, whatever
\* page was loaded when and whatever moved the order meanwhile.
StatusPageCatchesUp ==
  <>[](\A t \in Tab : shown[t].kind = "status" => shown[t].status = status)
=============================================================================
