------------------------------ MODULE OrderBook ------------------------------
(***************************************************************************)
(* The order list of the panel: filter, pages and links, while orders      *)
(* arrive and change their status (handler/admin/orders.go, ListForAdmin,  *)
(* Pagination). Each page is one query of its own, so an administrator who *)
(* goes from page to page reads several lists as if they were one.         *)
(*                                                                         *)
(* Orders are listed by created_at, the beginning of the transaction that  *)
(* placed them: an order is its place in that sequence, and may become     *)
(* visible after a later one.                                              *)
(***************************************************************************)
EXTENDS Integers, FiniteSets

CONSTANTS
  MaxOrders,        \* bound on the orders
  DefaultPageSize,  \* rows of a page
  MaxPageSize,
  Bars              \* the filter bars that are submitted

\* The filter bar: by status, and by period, model or number, which an order never changes.
\* An input may hold something the panel cannot read.
OrderFilterForm == [status : {"", "asked", "unreadable"}, fixed : {"", "asked", "unreadable"}]

ASSUME BookAssumption ==
  /\ MaxOrders \in Nat /\ DefaultPageSize \in Nat /\ MaxPageSize \in Nat
  /\ 0 < DefaultPageSize /\ DefaultPageSize <= MaxPageSize
  /\ Bars \subseteq OrderFilterForm

VARIABLES
  placed,   \* the orders whose transaction has committed
  wanted,   \* those with the status the filter bar may ask for
  screen,   \* the page in front of the administrator
  walk      \* history: how far he has gone from the first page, link by link

bookVars == <<placed, wanted, screen, walk>>

Orders == 1..MaxOrders

\* The orders a filter on something fixed finds.
Fixed == {o \in Orders : o % 3 # 0}

NoScreen == [form |-> [status |-> "", fixed |-> ""], page |-> 0, rows |-> {}, total |-> 0]

\* `page` is the last page read in sequence, 0 when the sequence was left; `due` the
\* orders that matched when it began and `seen` those listed since; `departed` says that an
\* order has ceased to match meanwhile.
NoWalk == [page |-> 0, due |-> {}, seen |-> {}, departed |-> FALSE]

BookInit ==
  /\ placed = {} /\ wanted = {}
  /\ screen = NoScreen /\ walk = NoWalk

-----------------------------------------------------------------------------
\* An input that cannot be read is dropped, and the others still count.
parseOrderFilter(form) == {field \in DOMAIN form : form[field] = "asked"}

\* The page number of the query: anything that is not a number above one means the first.
PageOf(typed) == IF typed > 1 THEN typed ELSE 1

\* The size of a page, as List keeps it within bounds.
PageSizeOf(size) ==
  IF size <= 0 THEN DefaultPageSize ELSE IF size > MaxPageSize THEN MaxPageSize ELSE size

PageSize == PageSizeOf(DefaultPageSize)

Matching(form) ==
  {o \in placed : /\ "status" \in parseOrderFilter(form) => o \in wanted
                  /\ "fixed" \in parseOrderFilter(form) => o \in Fixed}

Offset(page) == (page - 1) * PageSize

\* Newest first: how many orders are listed before o.
Before(o, found) == Cardinality({x \in found : x > o})

\* The total travels with the rows: a page past the end has none, and says 0.
ListAdminOrders(form, page) ==
  LET found == Matching(form)
      rows == {o \in found : Before(o, found) \in Offset(page)..(Offset(page) + PageSize - 1)}
  IN [form |-> form, page |-> page, rows |-> rows,
      total |-> IF rows = {} THEN 0 ELSE Cardinality(found)]

\* Fault (mutation run): a last page that is not full does not count.
TotalPagesWhole(list) == IF list.total <= 0 THEN 1 ELSE list.total \div PageSize

TotalPages(list) == IF list.total <= 0 THEN 1 ELSE (list.total + PageSize - 1) \div PageSize

pageRange(page, total) == {p \in 1..total : page - 2 <= p /\ p <= page + 2}

HasNext(list) == list.page < TotalPages(list)

\* The links under the table, and there is none under an empty one.
Pagination(list) ==
  IF list.rows = {} \/ TotalPages(list) <= 1 THEN {}
  ELSE (IF list.page > 1 THEN {list.page - 1} ELSE {})
       \cup (pageRange(list.page, TotalPages(list)) \ {list.page})
       \cup (IF HasNext(list) THEN {list.page + 1} ELSE {})

-----------------------------------------------------------------------------
Walked(list) ==
  walk' = CASE list.page = 1 ->
                 [page |-> 1, due |-> Matching(list.form), seen |-> list.rows, departed |-> FALSE]
            [] walk.page > 0 /\ list.form = screen.form /\ list.page = walk.page + 1 ->
                 [walk EXCEPT !.page = list.page, !.seen = @ \cup list.rows]
            [] OTHER -> NoWalk

Show(form, page) ==
  /\ screen' = ListAdminOrders(form, page)
  /\ Walked(ListAdminOrders(form, page))
  /\ UNCHANGED <<placed, wanted>>

\* The filter bar is submitted: it has no page number.
Filter == \E form \in Bars : Show(form, 1)

\* A link keeps the inputs as they were typed.
FollowLink == \E page \in Pagination(screen) : Show(screen.form, page)

\* The page number is typed into the address.
TypePage == screen # NoScreen /\ \E typed \in 0..MaxOrders : Show(screen.form, PageOf(typed))

Departs(found) ==
  walk' = [walk EXCEPT !.departed = @ \/ (walk.page > 0 /\ ~(found \subseteq Matching(screen.form)'))]

\* An order becomes visible, whenever its transaction began.
Place ==
  /\ \E o \in Orders \ placed : placed' = placed \cup {o}
  /\ UNCHANGED <<wanted, screen, walk>>

\* An order comes to the status that is asked for, or leaves it.
Move ==
  /\ \E o \in placed : wanted' = IF o \in wanted THEN wanted \ {o} ELSE wanted \cup {o}
  /\ UNCHANGED <<placed, screen>>
  /\ Departs(Matching(screen.form))

BookNext == Filter \/ FollowLink \/ TypePage \/ Place \/ Move

BookSpec == BookInit /\ [][BookNext]_bookVars

-----------------------------------------------------------------------------
\* "the page and the number of pages come out of a single round trip, and the WHERE clause
\* exists exactly once" (ListAdminOrders): whoever goes from the first page by "next" until
\* there is no such link has been shown every order that matched when he began, whatever
\* arrived meanwhile and wherever in the list, unless an order left the filter on the way.
WalkListsAll ==
  walk.page > 0 /\ ~HasNext(screen) /\ ~walk.departed => walk.due \subseteq walk.seen
=============================================================================
