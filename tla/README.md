# A TLA+ model of the QZQ merch shop

This directory holds a TLA+ development for the shop in this repository: a Go
binary (`cmd/app`) over one Postgres database, paid through NOWPayments invoices
and their callbacks, followed by buyers through a Telegram bot and run from an
admin panel. The modules are translated from the Go code and the SQL it executes,
checked by TLC on small instances and, where a result should hold for any number of
orders, variants, messages and actors, proved with TLAPS.

Contents: 1 the system, 2 the modules, 3 what the runs show, 4 what is proved,
5 where code and documentation disagree, 6 what is not modelled, 7 the plan.

## 1. The system

`serve` starts an HTTP server and three goroutines: the outbox worker (every 10 s),
the reservation worker (every minute) and housekeeping (every minute). Everything
shared is in Postgres, at the default READ COMMITTED isolation; a unit of work is
one call of `withTx`. There are no locks in memory except the rate limiter's mutex.
What a browser holds (cookies, and the pages open in its tabs) is state as well:
much of it is older than what the server has.

| component | state it keeps | operations | talks to |
|---|---|---|---|
| status machine (`domain/order`) | none: a table of moves | `CanTransition`, `ManualTargets` | judged by every writer of `orders.status` |
| order storage (`storage/postgres/order.go`) | `orders`, `order_items`, `product_variants.stock/reserved`, `payments` | `Create`, `AttachPayment`, `ReleaseReservation`, `ExpireDue` | outbox, in the same transaction |
| cart (`domain/cart`) | `carts`, `cart_items`, the cart cookie | `Add`, `SetQty`, `Remove` | catalogue, settings |
| checkout handler | one request | view, totals, pause check, `Place`, invoice, `AwaitPayment` or `Abandon` | cart, order storage, settings, provider |
| payment callbacks | `payment_events`, `payments` | `Apply`, `RecordRejected`; the panel's list and card read them | status machine, stock, outbox, analytics |
| reservation worker | none | `Tick` | `ExpireDue` |
| admin transitions | one request per administrator | `ChangeStatus`, `Transition` | status machine, stock, outbox |
| order list of the panel | none: filter and page are in the address | `List`, filter bar, links | order storage |
| catalogue administration | `products`, `price_history`, stock | `SetStock`, `ChangePrice`, `ParsePrice` | live reservations |
| settings | key/value rows | `Values`, `Save` | checkout, cart |
| Telegram bot | `telegram_links`, `telegram_updates` | `SeenUpdate`, `Router.Handle`, `LinkOrder` | outbox |
| outbox | `notifications` | enqueue, `ClaimDue`, `MarkSent/Retry/Failed` | Telegram |
| rate limiter, client address | a map in memory | `Allow`, `Cleanup`, `ClientIP` | every request |
| panel sessions | `admin_sessions`, `admins.telegram_id`, a cookie | password form, Mini App launch, `AdminAuth`, logout, housekeeping | every panel request |
| CSRF tokens | a signed cookie, the forms of the open pages | `CSRF` | every form |
| attribution, analytics | two cookies, `visits`, `events` | record a visit, record an event | checkout, callbacks |
| reports (`metrics.go`) | none | totals, series, funnel, sources | visits, events, orders |
| pages | what a tab shows | offers and forms; the status page polls and reloads | the handlers that judge the forms |

**What makes each correct**

- *Status machine and its writers.* Six pieces of code write `orders.status`; whatever
  they read before, an order only moves along `CanTransition`.
- *Stock.* `stock - reserved >= 0` after any sequence of operations; the counter
  `reserved` is the sum over the orders that still hold their units; every order
  takes its units once and gives them back at most once.
- *Payment.* Only a signed callback for the full amount pays an order; redelivery and
  reordering change nothing twice; every order beyond `created` has a payment row; once
  a full payment is acknowledged the order does not wait for it any more, unless it
  overtook the checkout.
- *Reservation.* Units of orders that are never paid come back.
- *Cart and checkout.* An add that meets nobody is kept, an ordered cart does not come
  back, an order adds up at prices its product has had (not always the ones on the page
  its buyer was looking at, section 5).
- *Settings, catalogue.* A lone save is stored whole, a pause stops later checkouts, the
  price history explains every price to the cent.
- *Outbox.* A move of a followed order is announced to a follower in the same transaction;
  a settled row is never offered again; the retry budget is kept; every row is settled in
  the end.
- *Telegram.* A link is announced, a follower is told the status of the order, an update
  is answered at most once and acknowledged in the end.
- *Limiter, sessions, CSRF.* No burst beyond two windows' limit, and a limit for every
  restart, whatever the client claims; nobody acts in the panel without a live sign-in, and
  a launch of the Mini App wears off; a form that is refused has a cause a reload removes.
- *Reports.* Panels of one report agree.
- *Pages.* What a page offers is what the handler takes unless something changed; the
  status page catches up; a walk through the order list has no hole.

**What is hard to test here**

- A checkout is three transactions and a call to the provider, and may stop between
  any two of them; the provider's first callback may overtake it.
- The order's status is read without a lock in two places (`ChangeStatus`,
  `LinkOrder`) and the pause flag in a third; the decision is carried out later.
- Callbacks and updates are redelivered and overtake each other.
- Five transactions move units by four different statements with clamps that would
  hide an error, and which of them is right depends on the status.
- Concurrent transactions lock several variant rows.
- The cart, the settings and the reports are several statements without a transaction.
- Cookies arrive with answers, which may be late, lost, or overtaken by other answers.
- Windows, sessions and launches end by clocks, and housekeeping follows when it can.
- Delivery and its record are two steps, with retries, lost answers and restarts.

The full list, each at its line, is under "hazards" in `PROJECT.json`.

## 2. The modules

| module | models | state | actions |
|---|---|---|---|
| `OrderStatus` | `domain/order/types.go`, `admin.go`, `payment/types.go` | none | `CanTransition`, `ManualTargets`, `MapStatus`, `Decides` as operators |
| `ClampedMinus`, `OrderUnits` | `x - LEAST(x, qty)`; order lines and how many units a set of orders asks for | none | `Minus`, `Lines`, `Cart`, `Qty` |
| `OrderStock` | every transaction on the order tables and the handlers around them | tables, plus one program counter per request in flight | one action per transaction, read or call (below) |
| `StockLedger` | abstract: what the shop promises about stock | `available`, `custody`, `asked` | `Take`, `GiveBack`, `Sell`, `Restock`, `Recount` |
| `VariantLocks` | the same stock moves one SQL statement at a time, with row locks | committed and working rows, lock owners, statements to go | `Begin`, `UpdateRow`, `Miss`, `Commit`, `Fail`, `BreakDeadlock`, `SetStock` |
| `StockTransactions` | abstract: a transaction moves all its lines or none | `rows`, `job` | `Start`, `Settle`, `GiveUp`, `Recount` |
| `PaymentLog` | callbacks of one order, as rows, log and answers; list and card of the panel | `order`, `rows`, `log`, handlers, `acked` | `AttachInvoice`, `Receive`, `Apply`, `ApplyFails`, `Answered`, `RecordRejected`, `Close` |
| `Carts`, `ShopSettings`, `PriceText`, `PriceTrail` | the statements of the cart; the settings rows; a price as text; a price and its history | tables, a save or a price change in flight | `SettingsSave`, `SaveKey`, ..., `ProductPrice`, `LockProductForPrice`, `ChangePrice` |
| `Storefront` | the requests of one browser, composed with the four above | `cartCookie`, a request per tab, orders | `AddItem`, `ReadQty`, `WriteLine`, `UpdateItem`, `SetQty`, `RemoveItem`, `Checkout`, `Totals`, `ReadPaused`, `PlaceOrder`, answers that arrive or are lost |
| `RateLimiter`, `AdminSessions`, `BotInbox` | limits and the client's address; panel sessions; updates of the bot | windows; rows, cookies, requests inside, launches; seen ids, deliveries | one per operation or statement |
| `FrontDoor` | the three on one clock and in one process | | `SignIn`, `Webhook`, `Panel`, `Bot`, `Housekeeping`, `Restart`, `Tick` |
| `FormTokens` | the double submit token of one browser's tabs | the cookie, the forms of each tab, the answer under way to it | `Get`, `Post`, `PollData`, `Arrive`, `Lost`, `Lapse` |
| `Attribution`, `Reports` | cookies, visits and events of browsers; the queries of a report over them | tables, cookies, the day; a report half loaded | `Page`, `AddToCart`, `Checkout`, `Move`, lapses; one per query |
| `Outbox` | `worker/outbox.go` over the notifications table | rows, attempts, the claimed batch, the answer at hand | `EnqueueMessage`, `Ripen`, `ClaimDue`, `Send`, `Record`, `RecordFails`, `Stop` |
| `Pages` | what a page offers and how its handlers judge it; the status page's script | shelf, cart, order, one page per tab | pages drawn, forms submitted, `Poll`, `Reload`, everybody else |
| `OrderBook` | the order list of the panel, page by page | orders, the page shown, the walk so far | `Filter`, `FollowLink`, `TypePage`, `Place`, `Move` |
| `MC*` | constants a `.cfg` cannot write down, and who acts together | | |
| `*Proofs` | theorems and their proofs (section 4) | | |

How they fit. `VariantLocks` shows that the database makes a multi-statement stock
transaction atomic, which is the granularity `OrderStock` takes for granted;
`OrderStock` shows that the transactions together implement `StockLedger`, and writes
the rows of the outbox that `Outbox` delivers. `Storefront` is what precedes `Create`
in `OrderStock`: the cart it reads and the numbers it is given. `PaymentLog` looks at the
callbacks `OrderStock` applies with the rows it leaves out. `BotInbox` decides which
update reaches the `LinkOrder` of `OrderStock`. `Pages` stands in front of all of them:
its handlers judge as those modules do, on a page drawn earlier.

**`OrderStock`, action by action.** The state is the tables named in its VARIABLES.

| actor | actions | code |
|---|---|---|
| checkout handler | `ReadCart` (cart and pause flag), `Create` / `OutOfStock`, `InvoiceCreated` / `InvoiceFailed`, `AttachPayment`, `Abandon`, and `CheckoutDies` between any two | `handler/shop/checkout.go`, `postgres/order.go` |
| provider | `Receive`: `RecordRejected`, `OrderMissing`, `Apply`; a callback is never used up, so it can arrive again and in any order | `handler/webhook/nowpayments.go`, `postgres/payment.go` |
| callback handler, after its transaction | `RecordOrderPaid` / `PurchaseLost` | same handler |
| clock and worker | `DeadlinePasses`, `ExpireDue` | `worker/reservations.go` |
| administrator | `JudgeMove` (unlocked read) then `Transition`; `SetStock`; `SetPaused` | `order/admin.go`, `postgres/orderadmin.go`, `catalogadmin.go`, `settings.go` |
| Telegram | `ReadLinkedOrder` (unlocked read) then `InsertLink` | `postgres/telegram.go` |

A transaction is one action because it locks the order row or keeps the locks of the
variants it has updated until it commits, and compares again under the lock what it
read before. What the code does outside a transaction is an action of its own.

What is abstracted: order numbers, tokens, prices, names and texts; the deadline is a
set `overdue` that time adds to; a callback is what the shop reads off it (order,
provider status, "full amount", "signature valid", which body). The payment row is its
existence only. The outbox row keeps order, kind, status and the chat that got it.

**`VariantLocks`.** `current` is the row as the lock holder has it, `committed` the
last committed version, `owner` the holder. An `UPDATE` needs the lock and checks its
condition on the row as it then is; a condition the last committed row fails matches
nothing without waiting, as READ COMMITTED has it. A checkout's statements come in
the order of the variant ids (`reservationOrder`), all others in any order. Jobs are
arbitrary: a superset of what orders can ask for.

**`Outbox`.** `ripe` lists the rows whose `next_attempt_at` has passed in the order it
passed, so that `ORDER BY next_attempt_at LIMIT n` is a prefix of its pending rows. The
delays of the ladder (30 s, 2 m, 10 m, 1 h) are left out: time passes in `Ripen`.

**`Storefront`.** No transaction protects the cart code, so a request is one step per
statement and the steps of other tabs come in between; a cookie reaches the browser in
a step of its own, or never. `alone` and `paused` in a request are history: whether
another request of the browser was in flight, whether the shop has been paused since the
request began. `ShopSettings` writes its keys in any order because Go walks a map in
random order; the minutes of a form go through a `time.Duration`, which wraps round
(`Duration`, with `Minute` ticks to a minute and `HalfRange` ticks to half of the range).
A form is kept as typed beside what was made of it. `PriceText` works on characters, because a misplaced digit is what
could go wrong there; `DecimalCents` and `IsDecimal` are the reference reading.

**`FrontDoor`.** Moments are kept as ticks left or ticks passed, so that the clock needs
no bound. `passed` (requests let through in the last so many ticks), `restarts` (of the
process, likewise), `reach` (for whom and how long a browser was signed in, and how old the
payload was) and `effects` (answers per update) are history. `launch` has every payload a
browser was ever handed, as a copy of one is as good as the last. A request through
our proxy has the address it came from appended to whatever it claimed; `Claims` holds
chains with somebody else's address and with a malformed entry.

**`FormTokens`.** The server keeps nothing, so a request is decided with what it carries
when it is sent, and its answer arrives later. `disturbed` is history: the cookie lapsed,
or a request without one was under way, since the page was asked for.

**`PaymentLog`, `Attribution`, `Reports`.** Amounts are "full", "short" or "unread". A
log row keeps the moment its transaction began, which is what `now()` is in Postgres.
Callbacks are handled whether or not the checkout has attached its invoice; `early` is
history and has those that were not waited for. In
`Attribution` a request is one step, as nothing depends on what happens inside it; in
`Reports` every query is one, with `quiet` as history of whether anything was written
since the first. The table of sources is cut at `SourceRowLimit`; which of two equal rows
stays is left open.

**`Pages`, `OrderBook`.** A page is a record of what it was drawn from, and `Drawn` is
what its template derives from that. `fresh` is history: nothing the page was drawn from
has been changed by anybody since. `refused` holds the last form a handler turned down.
In `OrderBook` an order is its place in `created_at`, which is when its transaction began,
so that orders may become visible in the middle of the list; `walk` is history.

Operators marked "Fault (mutation run)" are not part of any specification: each is a
plausible bug, and `PROJECT.json` names the property that finds it.

## 3. What the runs show

| run | properties | bounds |
|---|---|---|
| `stock_ends` | `ReservedExactly`, `PastCreatedHasPayment`, `LedgerSpec` (`OrderStock` implements `StockLedger`), `AwaitingEnds` (liveness) | 2 orders, 1 variant, one unit each, stock up to 2, a pass of one, an administrator, callbacks that wait, pay and refund |
| `stock_lost_replies` | `TypeOK`, `NoOversell` even when an abandoned order is paid | 2 orders, 1 variant, lines and stock up to 2, recounts |
| `one_order` | `PurchaseCountedOnce`, `OnlyLegalMoves`, `PaidOnlyByNewCallback`, `MovesAnnounced` | 1 order, 2 chats, an administrator, callbacks that are short, forged, refunds or about nothing |
| `locks_and_bot` | `CheckoutsNeverDeadlock`, `AtomicSpec` (implements `StockTransactions`), `EveryTransactionEnds` (liveness); `AnsweredAtMostOnce`, `EveryUpdateAcknowledged` (liveness) | 2 transactions, 2 variants, lines of one unit, stock up to 2, recounts; 2 updates, 2 deliveries at once, 2 failures or stops, a limit of 1 |
| `requests`, in the shop | `SpentCartIsGone`, `OrderAddsUp`, `LoneAddIsKept`, `PauseStopsLaterCheckouts`, `LoneSaveIsStored`, `TrailExplainsPrice`, `TypedPriceStored`, `FormKeepsPrice` | two actors at a time: two tabs, a tab and a settings save, a tab and a price change, two saves, two price changes; 2 carts, 2 lines, 1 order; a Duration of 64 values |
| `requests`, at the door | `BurstBounded`; `LaunchWearsOff`, `ActsSignedIn`, `LiveSessionsKept`; `DeadFormHasACause` | limits of 1 and 2 in windows of 1 and 2 ticks, restarts at any time; 2 administrators in one browser, 2 sessions, 2 payloads; 2 tabs with 7 tokens |
| `messages_pages` | `BudgetKept`, `SentIsDelivered`, `SettledStaysSettled`, `EverySettled` (liveness), `OffersAreHonoured`, `StatusPageCatchesUp` (liveness), `WalkListsAll` | 3 messages (one without text), batch 2, 3 attempts, 2 faults; 2 tabs, 1 size, 2 units; 5 orders on pages of 2, three filter bars |
| `reports` | `ReportAddsUp`, `SettledOnceAcknowledged`, `CardExplainsFlag` | 1 browser, 2 visitor and 2 session ids, 2 origins and a table of one source, 2 days, weeks of two days, 1 order, 2 visits, 1 event; 3 callbacks of 2 payments, 1 forgery, 3 deliveries |
| `created_leak`, `stale_link`, `credit`, `redelivery`, `early_callback` | expected violations, section 5 | |

**Scenes.** `MCLocksAndBot`, `MCRequests`, `MCMessagesPages` and `MCBackOffice` put together
components that share no state, or only the clock and the process. Their product says
nothing about either, so a variable `scene`, chosen in the initial state, says which of
them a behaviour moves; the scenes that share clock, housekeeping and restart all have
those steps. In the shop's scene `MCRequests` chooses a `crew` of two actors in the same
way: the hazards of the storefront are between two requests, and every pair is there.

**Why the bounds are enough.** Two orders over one variant are what it takes to
compete for a unit, to be expired in one pass and to have a clamp eat a unit of the
other order; lines of two units (`stock_lost_replies`) tell a partial release from a whole
one. One order is enough for properties that speak of one order's
history, which leaves room for every callback, a stale administrator and two followers.
Two transactions over two variants are the smallest circle of waits, and two units on a
shelf let both checkouts through, one or none; three messages
outnumber the batch, so that one waits behind another, and three attempts have a first, a
middle and a last. Two carts let a late answer bring an ordered one back while a new one is
open; quantities reach one beyond the cap. The prices typed have no decimals, one, two,
none after the point, a sign and too many dollars. Windows of 1 and 2 ticks with
limits of 1 and 2 have requests on both sides of a border and of a restart, and a launch
lives long enough to be exchanged after its session has begun to age. Of the settings forms
one has minutes that wrap round into the bounds. Two origins are one more than the table of
sources shows. Two tabs are what
it takes for one to spoil the other's forms; seven tokens are more than they can hold
at a time, so `randomToken` always finds one. Five orders fill three pages of two, so that
a walk has a first, a middle and a last page while orders arrive. Stock stays small because
the moves depend on comparisons with at most the lines' sum.

`ReservedExactly` and `LedgerSpec` assume `LostReplies = FALSE`: an invoice whose reply was
lost is never paid, which is realistic because the buyer never saw it;
`stock_lost_replies` drops the assumption and shows what is left.

Named bounds: `MaxStock` (typed-in stock), `MaxQty` (`cart.MaxQty`), `Batch`
(`expiryBatch`), `BatchSize` (`batchSize`), `MaxAttempts` (the ladder), `MaxFaults` and
`MaxFailures` (failed statements and stops), `MaxCarts`, `MaxItems`, `MaxAvailable`,
`MaxOrders`, `MaxChanges` (price transactions), `MaxDeliveries` (callbacks of
`PaymentLog`), `LastDay`. Concurrent requests are bounded by the sets of actors.
Constraints of runs, each named in its MC module: `PausedBeforeCheckouts` (the flag is
read by the start of a checkout only) and `FewConfirmations` in `one_order`, `FewEvents`
in `reports`, whose `LateReport` also starts a report on the last day only; `LongSince` (no
restart within a window of a request or another restart) where the panel or the bot is
looked at, and `OneUsesTheMiniApp`, with at most two payloads, where the panel is. Where the
limits are looked at nothing keeps restarts apart.

**Fairness.** Only what the program's own scheduling provides. `Fairness` of
`OrderStock`: a deadline passes, and the worker, which ticks every minute, takes the
oldest first and finds a row locked by others only for the length of a transaction,
reaches every order that stays due. `CheckoutFairness`: a handler that has started
takes its next step or dies. (The per-order form assumes that a bounded pass comes round to
every due order: deadlines are finite in number and the oldest go first.) Buyers, the provider, administrators and callbacks owe
nothing. `OutboxFairness`: the worker goes on and a retry's time comes; faults are
finite. `LockFairness`: a transaction that is not kept waiting goes on, and the database
breaks deadlocks. `DoorFairness`: the clock advances, a running handler goes on, and
Telegram, which repeats an update until it is acknowledged, is let in again and again
(strong fairness, since the limit shuts and opens). `PagesFairness`: an open status page
keeps polling. In `locks_and_bot` each condition holds of the scene it is about. Failures
are bounded in number where liveness is checked, never in place.

Deadlock checking is off where the system really stops: every message settled
(`messages_pages`), every transaction ended (`locks_and_bot`), all deliveries and orders
used up (`reports`, `credit`, `redelivery`, `early_callback`).

## 4. What is proved

From the named assumptions on the constants only, for every finite set of orders and any
sets of variants, callbacks, chats, administrators, messages, updates, browsers, sessions and
tabs, transactions, addresses and tables. The specifications are `Spec` of `OrderStock`,
`VariantLocks` and `Outbox`, `DoorSpec`, `FormTokensSpec`, `StoreSpec`, `PaymentSpec`,
`PagesSpec`, `BookSpec` and `ReportsSpec`.

| theorem | states | argument |
|---|---|---|
| `OrderStockProofs!TypeCorrect` | `[]TypeOK` | inductive as it stands; the clamp keeps the columns natural |
| `OrderStockProofs!NoOversellHolds` | `[]NoOversell` | inductive with `TypeOK`: whatever releases or commits lowers both columns by a clamped amount, and a reservation fits what is left |
| `OrderStockProofs!OnlyLegalMovesHold` | `OnlyLegalMoves` | `StatusMoves` lists every way a status can change |
| `OrderStockProofs!PaidOnlyByNewCallbackHolds` | `PaidOnlyByNewCallback` | same list: only `Apply` pays |
| `OrderStockProofs!PastCreatedHasPaymentHolds` | `[]PastCreatedHasPayment` | payments only grow, and both ways out of `created` write one |
| `OrderStockProofs!PurchaseCountedOnceHolds` | `[]PurchaseCountedOnce` | strengthened to `Counted`: an order with a purchase counted or owed is paid or beyond, and nothing leads back to `paid` |
| `OrderStockProofs!MovesAnnouncedHold` | `MovesAnnounced` | `Announced` below |
| `OrderStockProofs!ReservedExactlyHolds` | `[]ReservedExactly`, if `LostReplies = FALSE` | with `Invoices` below |
| `OrderStockProofs!ImplementsLedger` | `LedgerSpec`, if `LostReplies = FALSE` | every action maps to a step of `StockLedger` or to a stutter |
| `VariantLocksProofs!CheckoutsDoNotDeadlock` | `[]CheckoutsNeverDeadlock` | `LocksInv` below |
| `VariantLocksProofs!LocksMakeAtomic` | `AtomicSpec` | every statement maps to a step of `StockTransactions` or to a stutter |
| `MessagesPagesProofs!BudgetKeptHolds`, `SentIsDeliveredHolds`, `SettledStaysSettledHolds` | `[]BudgetKept`, `[]SentIsDelivered`, `SettledStaysSettled` | `Delivery` below |
| `MessagesPagesProofs!OffersAreHonouredHolds` | `OffersAreHonoured` | `PagesInv` below |
| `MessagesPagesProofs!WalkListsAllHolds` | `[]WalkListsAll` | `BookInv` below |
| `FrontDoorProofs!BurstBoundedHolds` | `[]BurstBounded` | `LimiterInv` below |
| `FrontDoorProofs!AnsweredAtMostOnceHolds` | `[]AnsweredAtMostOnce` | `Inbox` below |
| `FrontDoorProofs!LaunchWearsOffHolds`, `ActsSignedInHolds`, `LiveSessionsKeptHolds` | `[]LaunchWearsOff`, `ActsSignedIn`, `LiveSessionsKept` | `Panelled` below |
| `FrontDoorProofs!DeadFormHasACauseHolds` | `[]DeadFormHasACause` | `FormsHold` below |
| `StorefrontProofs!TrailExplainsPriceHolds`, `OrderAddsUpHolds` | `[]TrailExplainsPrice`, `[]OrderAddsUp` | `Trailed` and `AddingUp` below |
| `StorefrontProofs!SpentCartIsGoneHolds`, `LoneAddIsKeptHolds` | `[]SpentCartIsGone`, `LoneAddIsKept` | `Spending` and `LoneAdds` below |
| `StorefrontProofs!LoneSaveIsStoredHolds`, `PauseStopsLaterCheckoutsHolds` | `LoneSaveIsStored`, `PauseStopsLaterCheckouts` | `Saves` and `Pausing` below |
| `StorefrontProofs!FormKeepsPriceHolds`, `TypedPriceStoredHolds` | `[]FormKeepsPrice`, `TypedPriceStored` | `Trailed` and the prices below |
| `PriceTextProofs!FormReadBack`, `DecimalRead` | what `ParsePrice` makes of `PriceInput`'s text and of any decimal | the prices below |
| `BackOfficeProofs!SettledOnceAcknowledgedHolds`, `CardExplainsFlagHolds` | `[]SettledOnceAcknowledged`, `[]CardExplainsFlag` | `Settles` and `RowsOnRecord` below |
| `BackOfficeProofs!ReportAddsUpHolds` | `[]ReportAddsUp` | `ReportInv` below |

**Orders.** The inductive invariant is built up in parts:

- `Lifecycle` = `TypeOK`, `Placement` (an order exists exactly when its checkout is past
  placing it) and `JudgedLegally` (what an administrator has in flight was a manual
  move of the status he read). Without `Placement`, `Create` could overwrite an order;
  without `JudgedLegally`, `Transition` could carry out any pair of statuses.
- `Invoices` ties the checkout's phase to the provider: an abandoned order has no
  invoice, hence no callback, and an order beyond `created` has one. It is what makes
  the holders of a reservation leave exactly once.
- `ReservedExactly` then follows from three lemmas on sets of orders: `HoldersJoin`,
  `HoldersLeave` and `HoldersStay`, over the counting lemmas at the head of `OrderStockProofs`.
  Quantities are cardinalities of sets of units.
- `Announced`: every message went to somebody who follows its order. Where the dedup key
  finds a row already there, the move was announced to somebody who still follows it,
  because nobody stops following.
- `Carts` (a checkout places a non-empty cart) completes the invariant of the refinement.
  The ledger has no clamps: `HoldersGiveBack` and the paid case of
  `CallbackImplements` show, from `ReservedExactly` and `NoOversell`, that they never bite.

**Row locks.** `LocksInv` says what a row that is locked holds: what its owner makes of the
committed row, whose condition still holds because nobody else can write it (`HeldRow`);
and that the lines of an open transaction are split between the rows it holds and those it
still has to update, each once (`LinesSplit`). A commit then writes what the abstract
transaction writes in its one step, and a rollback nothing. `GoesUp` says that a checkout
holds only rows below those it has still to lock; of the variants checkouts wait for there
is a last one, and whoever holds it waits for nobody.

**Outbox.** `Delivery` is a ledger of calls. `Accounted`: the calls that offered a message
are the attempts its row has, the outcomes that got lost and the call at hand. It rests on
`Claimed`: a batch, which no lock protects, still says the truth about its rows when they
are reached, because nobody else writes claimed rows and no row is in it twice; on
`AtHand`, which ties the outcome to the first row of the batch; and on `Scheduled`. A
message pending has attempts below the budget, so its calls are too.

**Front door.** `DoorSteps` splits a step of `DoorNext` into what it does to the
sessions and what it does to the inbox. `Inbox` adds `Handled` to the type: whoever handles
an update has recorded it, is alone with it and has not answered it, and nobody answers an
update that is not recorded. `Panelled` adds to the session rows' shape that a browser's
reach covers its cookie (`Covered`: the row a cookie names is of the administrator the
browser signed in as, and lasts no longer than that sign-in) and `LaunchWearsOff` itself:
a payload is exchanged at an age of at most `LaunchAge` for a session of `MiniTTL`, and from
then on what is left of the one runs down as the other grows, so `SessionsTick` keeps their
sum. Which payload it was, and how often it was exchanged before, makes no difference. `FormsHold` is about the one cookie jar all tabs share: while an answer that brings a new
cookie is under way no undisturbed form relies on the old one (`NothingToLose`), and an
undisturbed answer fits the jar it will find (`AnswersFit`).

**Limiter.** `LimiterInv` says of every client, rule and number of ticks looked back how many
of its requests have passed (`WithinLimit`). While its address has no window: at most one
limit, and one more for every restart in that time. While it has one: those since the window
began are counted by it, and what came before them is within the limits of the time without
one. A request that opens a window, a window that runs out, a cleanup and a tick each
carry one case into the other; a restart drops the window and pays for it with the limit it
adds (`RestartWithin`). The address is the client's own because the proxy appends the one it
sees to whatever the client claims, and `ClientIP` takes the last entry that is none of our
own hops.

**Pages and the order list.** `PagesInv`: each form on a page is one its kind of page has
(`Placed`), its lines are still in the cart, and if nothing the page was drawn from has
changed since (`fresh`), what a form promises is what its handler is going to check
(`Truthful`). `BookInv` keeps the orders of a walk that have not been seen yet at or behind
the first row of the page that comes next: arrivals only push them back, and an order that
leaves the filter ends the promise (`departed`).

**Storefront.** Each property has an invariant of its own over the requests in flight.
`Trailed`: whoever has locked the product is alone with it and has read the price it still
has, and what was typed is in the range that may be stored. `AddingUp`: a checkout carries prices the product has had, and from `Totals` on their
sum. `Pausing`: a checkout that has found the shop paused ever since it began finds it
paused still, and is not placing. `Saves`: a save that has met no other is alone, what it
has written is what is stored, and what it writes is what was made of the form (`Checked`),
which is the form again if a Duration holds its minutes (`HeldMinutes`). `Spending` knows which request carries which cart:
`Fresh` says that a cart opened for a request and not yet handed to the browser is in no
order, in no other request and not in the cookie - so no late answer can bring an ordered
cart back; that ids are never drawn twice is `NextCartNew`. `LoneAdds` follows the quantity
of a line from `AddItem` through the write (`LineWritten`) to the cookie. The requests are
records of different shapes and are never typed: `OthersKept` says that a step leaves the
others' fields alone but for the mark that they are no longer alone, and the invariants
speak of the fields they need.

**Prices as text.** `ParsePrice` and `PriceInput` are loops over characters, so these are
inductions over a text, which the prover's rules do not do: the model has them as recursive
functions, `WrittenSolves`, `ReadOffSolves` and `PlacesSolve` show by `NumbersAll` of `Sums`
that each recursion has a solution, and what it computes follows the same way.
`FormatIntSpells`: the digits written spell the number. `ReadFromLeft`: reading them
multiplies by ten and adds; `ReadingIsNumber`: that is the sum of the digits by their
places, by which a decimal is judged. `TrimsPointed` lets the comma be read after the trims
as well as before, and `PartsParsed` puts dollars and cents together. Only the holder of
the row lock stores a price, and by `Trailed` a refused text never gets that far.

**Payments.** `Settles`: the transaction that files a callback for the full amount settles the
order in the same step, unless the checkout had not attached its invoice yet (`early`); nothing leads back to waiting (`NoWayBack`), and a callback found on
file has been through that step before. It needs `ForgedAssumption`: a rejected body is filed
under a key with a prefix of its own and never shadows an accepted one.

`RowsOnRecord` extends it: a payment row has a status of one of the callbacks on file for
it, and before there is one what the checkout wrote; so whatever the list flags is on the card.

**Reports.** `ReportInv` has the panels in the order of their queries, each equal to what its
query would count now as long as nothing has been written since (`PanelsCurrent`). That the
panels add up is then a fact about sums: the orders of a range fall into one bucket each
(`BucketsCover`) and have one last touch each (`SumOfGroups`, `CountOfGroups` of `Sums`),
and the visitors of the sources cover those of the row on top (`CountOfCover`). Of the
sources it is the whole table that adds up; what is shown of it is part of that, and all of
it up to `SourceRowLimit` rows (`Cut`).

**`Sums`** has what these proofs need of a sum over a finite set: that it does not depend on the
order of the summands, grows with them, and splits along a partition. The library defines it
by recursion on subsets; induction comes from `LeastNumber`, as a smallest counterexample
(`NumbersAll`, `SubsetsAll`), because the induction rules of the library cannot be used.

**Only model-checked.** Liveness (`AwaitingEnds`, `EverySettled`, `EveryTransactionEnds`,
`EveryUpdateAcknowledged`, `StatusPageCatchesUp`), which the prover does not reach. Every
other property of a passing run is a theorem. The expected violations are counterexamples
and need no proof.

Type invariants are stated where a proof uses them: `TypeOK` of `OrderStock` (also a
run's) and of `Outbox`, `InboxTypeOK`.

## 5. Where code and documentation disagree

Each of these is a run that ends in a counterexample:

- `created_leak` (bug). A checkout that fails after `Create` and before
  `AttachPayment` commits, or whose `Abandon` fails, leaves an order in `created` with
  its units reserved. `ListDueOrders` looks at `awaiting_payment` only and nothing else
  ends it, although the worker calls itself "the only thing that ends a reservation".
- `stale_link` (bug). `LinkOrder` reads the status without a lock: a transition that
  commits before the link is inserted is announced to nobody, and the confirmation
  names a status the order has left.
- `credit`. `tech.md` takes an order's last touch from its session's visit; the code takes it
  from the POST that places the order, whose Referer is the shop's own page or missing.
- `redelivery`. The payment service calls itself idempotent by construction, but the payment
  row is written before the dedup key is looked at: an old callback that comes again puts
  its old status back on the row, which the panel's flag reads.
- `early_callback`. `tech.md` 5.4 turns a full payment into `paid`. Called back before
  `AttachPayment` it finds the order `created`, from where nothing leads to `paid`: it is filed
  and acknowledged, the order then goes to waiting, and a redelivery is a duplicate. A
  buyer normally learns the invoice only after `AttachPayment`, so it takes a slow one.

Seen while translating, and not a run:

- `enqueueOrderNotification` (notify.go:41) says it queues one message per chat following the
  order. The dedup key does not name the chat, so one chat gets it; the second chat that
  follows an order is also linked without the message "a link never exists without".
  `tech.md` 17.10 admits this as a limitation, and `TestASecondChatCanFollowTheSameOrder` pins it.
- "One transition must produce exactly one message" holds of rows; a message may be
  delivered again when its record is lost. Delivery is at least once up to the budget.
- "The launch payload is single use" (tgapp.go:72): `Auth` keeps no track of payloads, and one
  can be exchanged again and again until it is too old. `LaunchWearsOff` is what is left.
- The comment of `Telegram.Handle` (webhook/telegram.go:39) gives everything but a failed
  secret check a 200. An update that cannot be recorded is answered 500 (line 76), which is
  what makes Telegram repeat it; a body that cannot be read is answered 400.
- The pause is promised "from the moment the operator says so" (settings.go:74), and a paused
  shop "reserves nothing and charges nothing" (checkout.go:46). The flag is read when a
  checkout starts: one past the check still reserves and charges. `PauseStopsLaterCheckouts`
  speaks of the checkouts that begin later.
- The comment of `MetricsFunnel` (metrics.sql:84) has the numbers only fall from step to step.
  The visitor cookie is never renewed and the session slides (attribution.go:52): a visitor
  cookie that lapses in the middle of a session leaves events of a second visitor in a session
  whose visit has the first, and the second step of the funnel may exceed the first.
- `SettingsSave` multiplies the minutes into a `time.Duration` (handler/admin/settings.go:49),
  which wraps round: 307445740 minutes pass `Validate` as 5 and are reported as saved.
- `price_history` is listed by the moment a transaction began, so that of two price
  changes that met, the list may show the later one first.
- `ParsePrice` judges the sign on the whole part alone: "-0.50" is stored as 50 cents.
  `TypedPriceStored` speaks of unsigned decimals.
- The first lines of the traffic table are all there is of it (`sourceRowLimit`): with more than
  fifty sources it does not add up to the row on top.
- `admin/orders.go:51` says a list with an unreadable filter "comes back unfiltered"; only
  the unreadable value is dropped, the other filters still count.
- A size that was short before the checkout began is answered "ran out while you were
  typing" as well, and `POST /checkout` orders the cart as it is, not as the page showed it.
- "Continue to payment" stays on an open page past the deadline until the status changes.
- A card drawn while the order awaited payment still offers "cancel"; pressed after the
  order was paid, it cancels a paid order, which is legal and owes a refund by hand.
- A page past the end of the order list says that no order matches, and with a status filter a
  walk may skip orders, because those that leave the filter move the rest up.
- A default of the reservation time outside 5..1440 minutes, legal in the
  environment, fills a settings form that is then refused.

Two more things a reader should know, which no statement of the repository contradicts. A
full payment that arrives after an order has expired or been cancelled is filed and changes
nothing (`Apply` finds no legal move). And an abandoned order that is paid after all
(`stock_lost_replies`) keeps every column legal, but its commit takes units other orders have
reserved.

## 6. What is not modelled

- Markup: templates are modelled as far as they decide what a page offers or links to;
  layout, images, error pages and the component showcase are not.
- HTTP and JSON of the provider and of Telegram: seen through what they may answer.
  Signatures, password hashes and the Origin check are verdicts that are inputs.
- The development pay page: it posts a signed callback to the webhook, which is modelled.
- Of the reports, the table of products, the price markers of the chart and time zones: a
  day of the model is a day of the shop. Ties of `created_at` in the order list.
- Locks of order rows: in `OrderStock` a transaction on one order is atomic, and in
  `VariantLocks` only variant rows are locked. An expiry pass is one atomic action on a set of
  due orders in `OrderStock`; the locks it holds meanwhile, and the pass as one transaction
  of `VariantLocks`, are not modelled.
- Configuration, migrations, backup scripts, the scanning of rows in generated code.
- `KindPaymentFailed` and `NotifyRepo.Enqueue`: no caller outside tests.

`PROJECT.json` lists every component with its status, and under "hazards" the three that no
property covers, with the reason.

## 7. The plan

Next, in the order of importance.

1. Order row locks in `VariantLocks`, and an expiry pass over several orders as one
   transaction.
2. `BotInbox` composed with the linking of `OrderStock`, so that an update lost after it was
   recorded is followed to the chat that never hears of its order.
3. Safety halves of the liveness properties: that what a fair step needs is never taken
   away, so that only the fairness itself is left to the runs.
