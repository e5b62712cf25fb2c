---------------------------- MODULE Attribution ----------------------------
(***************************************************************************)
(* Where buyers come from: the visitor and session cookies, the visits and *)
(* the funnel events they leave behind, and the touch an order is credited *)
(* to (middleware/attribution.go, postgres/analytics.go, handler/shop/     *)
(* events.go, handler/shop/checkout.go).                                   *)
(*                                                                         *)
(* A request is one step: nothing here depends on what other requests do   *)
(* between its visit and its event. Time is a number of days; sessions are *)
(* shorter than a day and end when their cookie lapses.                    *)
(***************************************************************************)
EXTENDS OrderStatus, Naturals, Sequences, SequencesExt

CONSTANTS
  Browser,
  Visitor,    \* visitor ids
  SessionId,  \* session ids
  None,       \* no cookie
  Origin,     \* what a link into the shop is tagged with, or "direct"
  Total,      \* orders.total_cents
  LastDay,    \* bound on the days
  MaxOrders   \* bound on the orders

ASSUME NoneAssumption == None \notin Visitor \cup SessionId
ASSUME TotalAssumption == Total \in Nat
ASSUME OriginAssumption == "own page" \notin Origin /\ "direct" \in Origin
ASSUME DayAssumption == LastDay \in Nat /\ MaxOrders \in Nat

VARIABLES
  vid,     \* the visitor cookie of a browser
  sid,     \* its session cookie
  bot,     \* what looksLikeBot says of its User-Agent
  visits,  \* visits, in the order they were written
  events,  \* events
  orders,  \* what analytics reads of the orders; came is history: where their session came from
  today

attributionVars == <<vid, sid, bot, visits, events, orders, today>>

\* The funnel knows four of the event types; "page_view" stands for the others.
EventType == {"page_view", "product_view", "add_to_cart", "checkout_started",
              "payment_created", "order_paid"}

AttributionInit ==
  /\ vid = [b \in Browser |-> None] /\ sid = [b \in Browser |-> None]
  /\ bot \in [Browser -> BOOLEAN]
  /\ visits = <<>> /\ events = {} /\ orders = <<>> /\ today = 1

VisitorsUsed == {visits[i].visitor : i \in DOMAIN visits} \cup {e.visitor : e \in events}
                \cup {orders[i].visitor : i \in DOMAIN orders} \cup {vid[b] : b \in Browser}
SessionsUsed == {visits[i].session : i \in DOMAIN visits} \cup {e.session : e \in events}
                \cup {sid[b] : b \in Browser}

\* readOrIssueUUID: the id in the cookie, or one nobody ever had.
ReadOrIssue(cookie, all, used) == IF cookie # None THEN {cookie} ELSE all \ used

\* RecordVisit may fail, which is logged and no more.
RecordVisit(v, s, origin, isBot) ==
  {visits, Append(visits, [visitor |-> v, session |-> s, origin |-> origin, bot |-> isBot,
                           at |-> today])}

RecordEvent(v, s, type, isBot) ==
  IF isBot THEN {events}
  ELSE {events, events \cup {[visitor |-> v, session |-> s, type |-> type, at |-> today]}}

\* Attribution: both cookies are there afterwards, and a page request that starts a
\* session records a visit. A post never does, even if its session is new.
Attributed(b, v, s, isPage, origin) ==
  /\ v \in ReadOrIssue(vid[b], Visitor, VisitorsUsed)
  /\ s \in ReadOrIssue(sid[b], SessionId, SessionsUsed)
  /\ vid' = [vid EXCEPT ![b] = v]
  /\ sid' = [sid EXCEPT ![b] = s]
  /\ visits' \in IF sid[b] = None /\ isPage THEN RecordVisit(v, s, origin, bot[b]) ELSE {visits}

\* A page, reached by a link from outside or from a page of the shop itself.
Page(b, type, origin) ==
  /\ \E v \in Visitor, s \in SessionId :
       /\ Attributed(b, v, s, TRUE, origin)
       /\ events' \in RecordEvent(v, s, type, bot[b])
  /\ UNCHANGED <<bot, orders, today>>

\* The form of a product page.
AddToCart(b) ==
  /\ \E v \in Visitor, s \in SessionId :
       /\ Attributed(b, v, s, FALSE, "own page")
       /\ events' \in RecordEvent(v, s, "add_to_cart", bot[b])
  /\ UNCHANGED <<bot, orders, today>>

\* placeInput: the last touch is the touch of the request that places the order, a post
\* of the shop's own checkout form. A browser may leave the Referer out.
TouchOfPost == {"own page", "direct"}

OriginOf(s) == {visits[i].origin : i \in {j \in DOMAIN visits : visits[j].session = s}}

\* Checkout: the order is there whether or not its invoice, and so the event, come about.
Checkout(b) ==
  /\ Len(orders) < MaxOrders
  /\ \E v \in Visitor, s \in SessionId, touch \in TouchOfPost :
       /\ Attributed(b, v, s, FALSE, touch)
       /\ orders' = Append(orders, [visitor |-> v, lastTouch |-> touch, came |-> OriginOf(s),
                                    status |-> "awaiting_payment", total |-> Total, at |-> today])
       /\ events' \in RecordEvent(v, s, "payment_created", bot[b])
  /\ UNCHANGED <<bot, today>>

\* InsertOrderPaidEvent: filed under the last visit of the order's visitor, a bot's too.
OrderPaidEvents(o) ==
  LET i == SelectLastInSeq(visits, LAMBDA visit : visit.visitor = orders[o].visitor)
  IN IF i = 0 THEN {events} ELSE RecordEvent(visits[i].visitor, visits[i].session, "order_paid", FALSE)

\* A callback or an administrator moves the order on; a payment closes the funnel.
Move(o, to) ==
  /\ CanTransition(orders[o].status, to)
  /\ orders' = [orders EXCEPT ![o].status = to]
  /\ events' \in IF to = "paid" THEN OrderPaidEvents(o) ELSE {events}
  /\ UNCHANGED <<vid, sid, bot, visits, today>>

\* Thirty minutes without a request.
SessionLapses(b) ==
  /\ sid[b] # None
  /\ sid' = [sid EXCEPT ![b] = None]
  /\ UNCHANGED <<vid, bot, visits, events, orders, today>>

\* A year after its first request, in the middle of a session perhaps: the cookie is never
\* renewed.
VisitorLapses(b) ==
  /\ vid[b] # None
  /\ vid' = [vid EXCEPT ![b] = None]
  /\ UNCHANGED <<sid, bot, visits, events, orders, today>>

\* Sessions go on over midnight.
NextDay ==
  /\ today < LastDay
  /\ today' = today + 1
  /\ UNCHANGED <<vid, sid, bot, visits, events, orders>>

AttributionNext ==
  \/ \E b \in Browser, type \in {"page_view", "product_view", "checkout_started"},
        origin \in Origin \cup {"own page"} : Page(b, type, origin)
  \/ \E b \in Browser : AddToCart(b) \/ Checkout(b) \/ SessionLapses(b) \/ VisitorLapses(b)
  \/ \E o \in DOMAIN orders, to \in Status : Move(o, to)
  \/ NextDay

AttributionSpec == AttributionInit /\ [][AttributionNext]_attributionVars

-----------------------------------------------------------------------------
(* Properties.                                                             *)

\* "last_touch is taken from the current visit" (tech.md 5.6): an order is credited to
\* what the visit of its session came from.
CreditedToItsVisit ==
  \A o \in DOMAIN orders : orders[o].came \subseteq {orders[o].lastTouch}
=============================================================================
