------------------------------- MODULE Reports -------------------------------
(***************************************************************************)
(* The report behind the dashboard, the analytics page and the metrics     *)
(* endpoint (domain/analytics/metrics.go, postgres/metrics.go, sqlcgen/    *)
(* metrics.sql.go): one query after the other over whatever the tables     *)
(* hold by then, with no snapshot around them.                             *)
(*                                                                         *)
(* Tables are read as sets and counted; the price markers of the chart are *)
(* PriceTrail's rows.                                                      *)
(***************************************************************************)
EXTENDS Attribution, Integers, FiniteSets, Functions

CONSTANTS
  PeriodDays,     \* how far each named period reaches back, today included
  Width,          \* the days of a bucket, by granularity
  SourceRowLimit  \* sourceRowLimit: the rows a traffic table may have

ASSUME PeriodAssumption ==
  "custom" \notin DOMAIN PeriodDays /\ \A p \in DOMAIN PeriodDays : PeriodDays[p] \in Nat \ {0}
ASSUME SourceRowLimitAssumption == SourceRowLimit \in Nat
ASSUME WidthAssumption == \A g \in DOMAIN Width : Width[g] \in Nat \ {0}

VARIABLES
  report,  \* the panels loaded so far
  quiet    \* history: nothing has been written since the report was begun

reportVars == <<report, quiet>>

NoReport == [next |-> "totals"]

ReportsInit == report = NoReport /\ quiet = TRUE

BadRange == [from |-> 0, to |-> 0]

\* parseCustom: the last day is meant inclusively.
ParseCustom(from, to) == IF to < from THEN BadRange ELSE [from |-> from, to |-> to + 1]

\* ParseRange: a half-open interval of whole days.
ParseRange(period, from, to) ==
  CASE period \in DOMAIN PeriodDays -> [from |-> today + 1 - PeriodDays[period], to |-> today + 1]
    [] period = "custom" -> ParseCustom(from, to)
    [] OTHER -> BadRange

In(r, at) == r.from <= at /\ at < r.to

-----------------------------------------------------------------------------
(* The queries.                                                            *)

OrdersIn(r) == {o \in DOMAIN orders : In(r, orders[o].at)}

revenueStatuses == {"paid", "shipped", "delivered"}
PaidIn(r) == {o \in OrdersIn(r) : orders[o].status \in revenueStatuses}
Revenue(set) == SumFunction([o \in set |-> orders[o].total])

SessionsIn(r) == {visits[i] : i \in {j \in DOMAIN visits : In(r, visits[j].at) /\ ~visits[j].bot}}

\* Visitors with an event of one of these types in one of those sessions.
Reached(r, types) ==
  {e.visitor : e \in {x \in events : /\ In(r, x.at) /\ x.type \in types
                                     /\ \E s \in SessionsIn(r) : s.session = x.session}}

MetricsTotals(r) ==
  [visits |-> Cardinality(SessionsIn(r)),
   visitors |-> Cardinality({s.visitor : s \in SessionsIn(r)}),
   orders |-> Cardinality(OrdersIn(r)),
   paid |-> Cardinality(PaidIn(r)),
   revenue |-> Revenue(PaidIn(r)),
   cartVisitors |-> Cardinality(Reached(r, {"add_to_cart"})),
   paidVisitors |-> Cardinality(Reached(r, {"order_paid"}))]

\* date_trunc; day 1 begins a bucket of every width.
Trunc(day, width) == day - ((day - 1) % width)

\* Fault (mutation run): the buckets begin where the range does.
BucketsFromStart(r, width) == {day \in r.from..(r.to - 1) : (day - r.from) % width = 0}

\* generate_series: from the bucket of the first moment to the bucket of the last.
Buckets(r, width) == {Trunc(day, width) : day \in r.from..(r.to - 1)}

\* Every bucket, and the orders of the range that are truncated to it.
MetricsSeries(r, width) ==
  [day \in Buckets(r, width) |->
     LET there == {o \in OrdersIn(r) : Trunc(orders[o].at, width) = day}
     IN [orders |-> Cardinality(there),
         paid |-> Cardinality(there \cap PaidIn(r)),
         revenue |-> Revenue(there \cap PaidIn(r))]]

FurtherTypes == <<EventType \ {"page_view"},
                  {"add_to_cart", "checkout_started", "payment_created", "order_paid"},
                  {"checkout_started", "payment_created", "order_paid"},
                  {"order_paid"}>>

\* A step counts every visitor that got at least that far.
MetricsFunnel(r) ==
  <<MetricsTotals(r).visitors>>
  \o [stage \in 1..4 |-> Cardinality(Reached(r, FurtherTypes[stage]))]

\* Visits by where they came from, FULL JOIN orders with revenue by their last touch.
SourceRows(r) ==
  LET came(origin) == {s \in SessionsIn(r) : s.origin = origin}
      bought(origin) == {o \in PaidIn(r) : orders[o].lastTouch = origin}
  IN [origin \in {s.origin : s \in SessionsIn(r)} \cup {orders[o].lastTouch : o \in PaidIn(r)} |->
        [visitors |-> Cardinality({s.visitor : s \in came(origin)}),
         orders |-> Cardinality(bought(origin)),
         revenue |-> Revenue(bought(origin))]]

\* ORDER BY revenue DESC, visitors DESC; which of two equal rows comes first is left open.
Before(a, b) == a.revenue > b.revenue \/ (a.revenue = b.revenue /\ a.visitors > b.visitors)

\* LIMIT: what may be shown of these rows.
Cut(rows) ==
  {shown \in SUBSET DOMAIN rows :
     /\ Cardinality(shown) <= SourceRowLimit
     /\ Cardinality(shown) = SourceRowLimit \/ shown = DOMAIN rows
     /\ \A a \in shown, b \in DOMAIN rows \ shown : ~Before(rows[b], rows[a])}

MetricsSources(r) == {Restrict(SourceRows(r), shown) : shown \in Cut(SourceRows(r))}

\* AverageOrder of the dashboard.
AverageOrder(t) == IF t.paid = 0 THEN 0 ELSE t.revenue \div t.paid

-----------------------------------------------------------------------------
(* Loading a report.                                                       *)

\* metricsView: a range that makes no sense is replaced by the default one.
Totals(default, period, granularity, from, to) ==
  /\ report.next = "totals"
  /\ LET asked == ParseRange(period, from, to)
         r == IF asked = BadRange THEN ParseRange(default, 0, 0) ELSE asked
     IN report' = [next |-> "series", range |-> r, width |-> Width[granularity],
                   totals |-> MetricsTotals(r)]
  /\ quiet' = TRUE

\* The panel of the query that is next, and the query after it.
Panel(name, value, after) ==
  /\ report.next = name
  /\ report' = [panel \in DOMAIN report \cup {name} |->
                  CASE panel = "next" -> after [] panel = name -> value [] OTHER -> report[panel]]
  /\ UNCHANGED quiet

Metrics ==
  \/ Panel("series", MetricsSeries(report.range, report.width), "funnel")
  \/ Panel("funnel", MetricsFunnel(report.range), "sources")
  \/ /\ report.next = "sources"
     /\ \E sources \in MetricsSources(report.range) : Panel("sources", sources, "shown")

\* The page is rendered and forgotten.
Rendered ==
  /\ report.next = "shown"
  /\ report' = NoReport
  /\ quiet' = TRUE

Load(default, from, to) ==
  /\ \/ \E period \in DOMAIN PeriodDays \cup {"custom"}, granularity \in DOMAIN Width :
          Totals(default, period, granularity, from, to)
     \/ Metrics
     \/ Rendered
  /\ UNCHANGED attributionVars

\* Whatever is written while a report loads.
Write ==
  /\ AttributionNext
  /\ quiet' = (report = NoReport)
  /\ UNCHANGED report

ReportsNext ==
  \/ \E default \in DOMAIN PeriodDays, from, to \in 1..LastDay : Load(default, from, to)
  \/ Write

ReportsSpec ==
  AttributionInit /\ ReportsInit /\ [][ReportsNext]_<<attributionVars, reportVars>>

-----------------------------------------------------------------------------
(* Properties.                                                             *)

\* The panels of one report are counted separately, by day, by week and by source. When
\* nothing was written meanwhile they agree to the cent with the row on top, also when the
\* range begins or ends in the middle of a bucket: no order falls between two of them. The
\* table of the sources is cut at its limit: with more sources than that it shows no order
\* twice and at most what there is.
ReportAddsUp ==
  quiet /\ report.next = "shown" =>
    LET t == report.totals
        days == DOMAIN report.series
        from == DOMAIN report.sources
        paid == SumFunction([s \in from |-> report.sources[s].orders])
        revenue == SumFunction([s \in from |-> report.sources[s].revenue])
        visitors == SumFunction([s \in from |-> report.sources[s].visitors])
    IN /\ t.orders = SumFunction([d \in days |-> report.series[d].orders])
       /\ t.paid = SumFunction([d \in days |-> report.series[d].paid])
       /\ t.revenue = SumFunction([d \in days |-> report.series[d].revenue])
       /\ paid <= t.paid /\ revenue <= t.revenue
       /\ Cardinality(DOMAIN SourceRows(report.range)) <= SourceRowLimit =>
            paid = t.paid /\ revenue = t.revenue /\ t.visitors <= visitors
       /\ AverageOrder(t) * t.paid <= t.revenue
=============================================================================
