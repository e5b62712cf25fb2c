---------------------------- MODULE MCBackOffice ----------------------------
(***************************************************************************)
(* The reports and the payment log of one order, which share nothing: a    *)
(* behaviour looks at one of them. Values for the constants a              *)
(* configuration file cannot write down.                                   *)
(***************************************************************************)
EXTENDS Reports, PaymentLog

CONSTANTS p1, p2

VARIABLE scene  \* what this behaviour looks at

Periods == [lately |-> 2]
Widths == [week |-> 2]

\* A payment that comes in short and is topped up, and a second one nobody completes.
Callbacks ==
  {[payment |-> p1, status |-> "partially_paid", paid |-> "short"],
   [payment |-> p1, status |-> "finished", paid |-> "full"],
   [payment |-> p2, status |-> "waiting", paid |-> "unread"]}

Ids == Permutations(Visitor) \cup Permutations(SessionId) \cup Permutations(Handler)

\* Bounds: two visits, an event of one of two types, and orders that wait or are paid.
FewEvents ==
  /\ Len(visits) <= 2 /\ Cardinality(events) <= 1
  /\ \A e \in events : e.type \in {"add_to_cart", "order_paid"}
  /\ \A o \in DOMAIN orders : orders[o].status \in {"awaiting_payment", "paid"}

\* A report is asked for on the last day; once its first query has run, an order may move.
LateReport ==
  \/ report = NoReport /\ Write
  \/ report.next = "series" /\ quiet /\ Write /\ orders' # orders /\ Len(orders') = Len(orders)
  \/ /\ today = LastDay
     /\ \E from, to \in 1..LastDay : Load("lately", from, to)

BackOfficeInit ==
  /\ AttributionInit /\ ReportsInit /\ PaymentInit
  /\ scene \in {"reports", "payments"}

BackOfficeNext ==
  /\ \/ scene = "reports" /\ LateReport /\ UNCHANGED paymentVars
     \/ scene = "payments" /\ PaymentNext /\ UNCHANGED <<attributionVars, reportVars>>
  /\ UNCHANGED scene

allVars == <<attributionVars, reportVars, paymentVars, scene>>

BackOfficeSpec == BackOfficeInit /\ [][BackOfficeNext]_allVars

PaymentsSpec == BackOfficeInit /\ scene = "payments" /\ [][BackOfficeNext]_allVars
=============================================================================
