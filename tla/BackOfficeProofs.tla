-------------------------- MODULE BackOfficeProofs --------------------------
(***************************************************************************)
(* Theorems about the back office, for any set of callbacks, forged bodies *)
(* and handlers, and for any tables a report is counted in: an answered    *)
(* full payment has settled, the card explains the flag of the list, the   *)
(* panels of a report add up.                                              *)
(***************************************************************************)
EXTENDS PaymentLog, Reports, Sums, TLAPS

\* The order is not waiting for a payment any more.
Past == order \notin {"created", "awaiting_payment"}

\* A callback that pays the order in full and did not overtake the checkout.
Pays(body, overtook) == body \in Callback \ overtook /\ Settling(body)

\* The transaction that filed a full payment, of an order that has its invoice, has settled
\* the order in the same step, and nothing brings an order back.
Settles ==
  /\ log \in Seq(Events) /\ clock \in Nat
  /\ handler = [h \in Handler |-> handler[h]]
  /\ \A h \in Handler : handler[h].phase \in {"begun", "applied"} =>
       /\ {"phase", "body", "began"} \subseteq DOMAIN handler[h]
       /\ handler[h].body \in Callback /\ handler[h].began \in Nat
  /\ \A i \in 1..Len(log) : Pays(log[i].body, early) => Past
  /\ \A h \in Handler : handler[h].phase = "applied" /\ Pays(handler[h].body, early) => Past
  /\ acked \subseteq Callback
  /\ \A c \in acked : Pays(c, early) => Past

LEMMA InitSettles == PaymentInit => Settles
<1> SUFFICES ASSUME PaymentInit PROVE Settles
  OBVIOUS
<1>2. log \in Seq(Events) /\ Len(log) = 0
  BY DEF PaymentInit
<1>3. acked = {} /\ clock \in Nat
  BY DEF PaymentInit
<1>4. handler = [h \in Handler |-> handler[h]] /\ \A h \in Handler : handler[h].phase = "idle"
  BY DEF PaymentInit, Idle
<1>5. \A i \in 1..Len(log) : FALSE
  BY <1>2
<1> QED
  BY <1>2, <1>3, <1>4, <1>5 DEF Settles

\* No move of the machine leads back.
LEMMA NoWayBack ==
  ASSUME NEW from, NEW to, CanTransition(from, to)
  PROVE  /\ to # "created"
         /\ from # "created" => to # "awaiting_payment"
BY DEF CanTransition, transitions

\* A row is written by what is filed: the first row of a callback or none.
LEMMA RecordedEvent ==
  ASSUME log \in Seq(Events), NEW e \in Events
  PROVE  LET l == recordEvent(e.body, e.signed, e.received)
         IN  /\ l \in Seq(Events)
             /\ \A i \in 1..Len(l) :
                  \/ i \in 1..Len(log) /\ l[i].body = log[i].body
                  \/ l[i].body = e.body
<1> DEFINE r == [body |-> e.body, signed |-> e.signed, received |-> e.received]
<1>1. r \in Events /\ r.body = e.body
  BY DEF Events
<1> HIDE DEF r
<1>2. /\ Append(log, r) \in Seq(Events)
      /\ \A i \in 1..Len(Append(log, r)) :
           (i \in 1..Len(log) /\ Append(log, r)[i] = log[i]) \/ Append(log, r)[i] = r
  BY <1>1
<1>3. \/ recordEvent(e.body, e.signed, e.received) = log
      \/ recordEvent(e.body, e.signed, e.received) = Append(log, r)
  BY DEF recordEvent, r
<1> QED
  BY <1>1, <1>2, <1>3

LEMMA HandlerMoved ==
  ASSUME Settles, NEW h \in Handler, NEW new, handler' = [handler EXCEPT ![h] = new]
  PROVE  /\ handler' = [g \in Handler |-> handler'[g]] /\ handler'[h] = new
         /\ \A g \in Handler : g # h => handler'[g] = handler[g]
BY DEF Settles

LEMMA ReceiveSettles ==
  ASSUME Settles, NEW h \in Handler, NEW c \in Callback, Receive(h, c)
  PROVE  Settles'
<1> DEFINE new == [phase |-> "begun", body |-> c, began |-> clock]
<1>1. /\ handler' = [handler EXCEPT ![h] = new]
      /\ UNCHANGED <<order, rows, log, acked, early>> /\ clock' = clock + 1
  BY DEF Receive, Settles
<1>2. /\ new.phase = "begun" /\ new.body = c /\ new.began = clock
      /\ {"phase", "body", "began"} \subseteq DOMAIN new
  OBVIOUS
<1> HIDE DEF new
<1>3. /\ handler' = [g \in Handler |-> handler'[g]] /\ handler'[h] = new
      /\ \A g \in Handler : g # h => handler'[g] = handler[g]
  BY <1>1, HandlerMoved
<1> QED
  BY <1>1, <1>2, <1>3 DEF Settles, Past, Pays

LEMMA ApplySettles ==
  ASSUME Settles, NEW h \in Handler, Apply(h)
  PROVE  Settles'
<1> DEFINE c == handler[h].body
           new == [handler[h] EXCEPT !.phase = "applied"]
           e == [body |-> c, signed |-> TRUE, received |-> handler[h].began]
<1>1. /\ handler[h].phase = "begun" /\ c \in Callback /\ handler[h].began \in Nat
      /\ {"phase", "body", "began"} \subseteq DOMAIN handler[h]
  BY DEF Apply, Settles
<1>2. /\ new.phase = "applied" /\ new.body = c /\ new.began = handler[h].began
      /\ {"phase", "body", "began"} \subseteq DOMAIN new
  BY <1>1
<1>3. handler' = [handler EXCEPT ![h] = new] /\ UNCHANGED <<clock, acked>>
  BY DEF Apply
<1> HIDE DEF new
<1>4. /\ handler' = [g \in Handler |-> handler'[g]] /\ handler'[h] = new
      /\ \A g \in Handler : g # h => handler'[g] = handler[g]
  BY <1>3, HandlerMoved
<1>5. e \in Events /\ e.body = c
  BY <1>1 DEF Events
<1>6. log' = recordEvent(e.body, e.signed, e.received)
  BY DEF Apply
<1> HIDE DEF e
<1>7. /\ log' \in Seq(Events)
      /\ \A i \in 1..Len(log') :
           \/ i \in 1..Len(log) /\ log'[i].body = log[i].body
           \/ log'[i].body = c
  BY <1>5, <1>6, RecordedEvent DEF Settles
<1>8. order' = order \/ CanTransition(order, order')
  BY DEF Apply, Decide, Decides
<1>9. (Past => Past') /\ \A body : Pays(body, early') => Pays(body, early)
  BY <1>8, NoWayBack DEF Past, Pays, Apply
<1>10. Pays(c, early') => Past'
  <2> SUFFICES ASSUME Pays(c, early') PROVE Past'
    OBVIOUS
  <2>1. order # "created" /\ Pays(c, early)
    BY <1>9 DEF Apply, Pays
  <2>2. CASE OnFile(DedupKey(c))
    BY <1>9, <2>1, <2>2 DEF OnFile, DedupKey, Settles
  <2>3. CASE ~OnFile(DedupKey(c))
    <3>1. order' = Decide(c) /\ MapStatus(c.status, FullyPaid(c)) = "paid"
      BY <2>1, <2>3 DEF Apply, Pays, Settling
    <3>2. CASE order = "awaiting_payment"
      <4>1. CanTransition(order, "paid")
        BY <3>2 DEF CanTransition, transitions
      <4>2. order' = "paid"
        BY <3>1, <4>1 DEF Decide, Decides
      <4> QED
        BY <4>2 DEF Past
    <3>3. CASE order # "awaiting_payment"
      BY <1>9, <2>1, <3>3 DEF Past
    <3> QED
      BY <3>2, <3>3
  <2> QED
    BY <2>2, <2>3
<1> HIDE DEF c
<1>11. \A i \in 1..Len(log') : Pays(log'[i].body, early') => Past'
  <2> SUFFICES ASSUME NEW i \in 1..Len(log'), Pays(log'[i].body, early') PROVE Past'
    OBVIOUS
  <2>1. CASE i \in 1..Len(log) /\ log'[i].body = log[i].body
    BY <1>9, <2>1 DEF Settles
  <2>2. CASE log'[i].body = c
    BY <1>10, <2>2 DEF Pays
  <2> QED
    BY <1>7, <2>1, <2>2
<1>12. ASSUME NEW g \in Handler, handler'[g].phase = "applied", Pays(handler'[g].body, early')
       PROVE  Past'
  BY <1>2, <1>4, <1>9, <1>10, <1>12 DEF Settles
<1>13. \A body \in acked' : Pays(body, early') => Past'
  BY <1>3, <1>9 DEF Settles
<1>14. \A g \in Handler : handler'[g].phase \in {"begun", "applied"} =>
         /\ {"phase", "body", "began"} \subseteq DOMAIN handler'[g]
         /\ handler'[g].body \in Callback /\ handler'[g].began \in Nat
  BY <1>1, <1>2, <1>4 DEF Settles
<1> QED
  BY <1>3, <1>4, <1>7, <1>11, <1>12, <1>13, <1>14 DEF Settles

LEMMA OthersSettle ==
  ASSUME Settles, [PaymentNext]_paymentVars,
         ~(\E h \in Handler : Apply(h) \/ \E c \in Callback : Receive(h, c))
  PROVE  Settles'
<1>1. CASE AttachInvoice
  <2>1. /\ order = "created" /\ order' = "awaiting_payment"
        /\ UNCHANGED <<log, handler, clock, acked, early>>
    BY <1>1 DEF AttachInvoice
  <2>2. ~Past
    BY <2>1 DEF Past
  <2> QED
    BY <2>1, <2>2 DEF Settles, Pays
<1>2. ASSUME NEW to, Close(to) PROVE Settles'
  <2>1. /\ order # "created" /\ order' = to /\ CanTransition(order, to)
        /\ UNCHANGED <<rows, log, handler, clock, acked, early>>
    BY <1>2 DEF Close
  <2>2. order' # "created" /\ Past'
    BY <2>1, NoWayBack DEF Past
  <2> QED
    BY <2>1, <2>2 DEF Settles, Pays
<1>3. ASSUME NEW h \in Handler, ApplyFails(h) \/ Answered(h) PROVE Settles'
  <2>1. /\ handler' = [handler EXCEPT ![h] = Idle]
        /\ UNCHANGED <<order, rows, log, clock, early>>
    BY <1>3 DEF ApplyFails, Answered
  <2>2. /\ handler' = [g \in Handler |-> handler'[g]] /\ handler'[h] = Idle
        /\ \A g \in Handler : g # h => handler'[g] = handler[g]
    BY <2>1, HandlerMoved
  <2>3. acked' = acked \/ (handler[h].phase = "applied" /\ acked' = acked \cup {handler[h].body})
    BY <1>3 DEF ApplyFails, Answered
  <2>4. acked' \subseteq Callback /\ \A a \in acked' : Pays(a, early) => Past
    BY <2>3 DEF Settles
  <2> QED
    BY <2>1, <2>2, <2>4 DEF Settles, Pays, Past, Idle
<1>4. ASSUME NEW f \in Forged, RecordRejected(f) PROVE Settles'
  <2> DEFINE e == [body |-> f, signed |-> FALSE, received |-> clock]
  <2>1. e \in Events /\ e.body = f
    BY DEF Events, Settles
  <2>2. log' = recordEvent(e.body, e.signed, e.received)
    BY <1>4 DEF RecordRejected
  <2> HIDE DEF e
  <2>3. /\ log' \in Seq(Events)
        /\ \A i \in 1..Len(log') :
             \/ i \in 1..Len(log) /\ log'[i].body = log[i].body
             \/ log'[i].body = f
    BY <2>1, <2>2, RecordedEvent DEF Settles
  <2>4. f \notin Callback
    BY ForgedAssumption
  <2>5. UNCHANGED <<order, rows, handler, acked, early>> /\ clock' = clock + 1
    BY <1>4 DEF RecordRejected
  <2>6. \A i \in 1..Len(log') : Pays(log'[i].body, early) => Past
    BY <2>3, <2>4 DEF Settles, Pays
  <2> QED
    BY <2>3, <2>5, <2>6 DEF Settles, Pays, Past
<1>5. CASE UNCHANGED paymentVars
  BY <1>5 DEF paymentVars, Settles, Pays, Past
<1> QED
  BY <1>1, <1>2, <1>3, <1>4, <1>5 DEF PaymentNext

\* SettledOnceAcknowledged, however often callbacks fail, repeat and overtake each other.
THEOREM SettledOnceAcknowledgedHolds == PaymentSpec => []SettledOnceAcknowledged
<1>1. Settles => SettledOnceAcknowledged
  BY DEF Settles, SettledOnceAcknowledged, Pays, Past
<1>2. Settles /\ [PaymentNext]_paymentVars => Settles'
  BY ReceiveSettles, ApplySettles, OthersSettle
<1> QED
  BY <1>1, <1>2, InitSettles, PTL DEF PaymentSpec

-----------------------------------------------------------------------------
(* What the list flags, the card can show.                                 *)

\* A callback with this status is on file for this payment.
OnRecord(l, p, status) ==
  \E i \in 1..Len(l) : l[i].signed /\ l[i].body.payment = p /\ l[i].body.status = status

NothingOnRecord(l, p) == \A i \in 1..Len(l) : l[i].signed => l[i].body.payment # p

\* Where the status of a payment row may come from.
Explained(l, p, status) ==
  \/ OnRecord(l, p, status)
  \/ p = Invoice /\ status = "waiting"
  \/ NothingOnRecord(l, p) /\ status = "none"

\* A row has a status of one of the callbacks on file for it or the one the checkout wrote,
\* and without either it is not there.
RowsOnRecord ==
  /\ Settles
  /\ rows = [p \in Payment |-> rows[p]]
  /\ \A i \in 1..Len(log) : log[i].signed <=> log[i].body \in Callback
  /\ \A p \in Payment : Explained(log, p, rows[p].status)

\* m is l and one row more.
OneMore(l, m, r) ==
  /\ \A i \in 1..Len(m) : (i \in 1..Len(l) /\ m[i] = l[i]) \/ m[i] = r
  /\ \A i \in 1..Len(l) : i \in 1..Len(m) /\ m[i] = l[i]
  /\ \E i \in 1..Len(m) : m[i] = r

LEMMA AppendedIsOneMore ==
  ASSUME NEW l \in Seq(Events), NEW r \in Events
  PROVE  OneMore(l, Append(l, r), r)
<1>1. /\ \A i \in 1..Len(Append(l, r)) : (i \in 1..Len(l) /\ Append(l, r)[i] = l[i]) \/ Append(l, r)[i] = r
      /\ \A i \in 1..Len(l) : i \in 1..Len(Append(l, r)) /\ Append(l, r)[i] = l[i]
  OBVIOUS
<1>2. Len(Append(l, r)) \in 1..Len(Append(l, r)) /\ Append(l, r)[Len(Append(l, r))] = r
  OBVIOUS
<1> QED
  BY <1>1, <1>2 DEF OneMore

\* A row that is signed or not as it should be leaves what is on record alone, but for its
\* own payment.
LEMMA RecordGrows ==
  ASSUME NEW l, NEW m, NEW r, OneMore(l, m, r), NEW p,
         r.signed => r.body.payment # p
  PROVE  \A status : Explained(l, p, status) => Explained(m, p, status)
<1>1. ASSUME NothingOnRecord(l, p) PROVE NothingOnRecord(m, p)
  BY <1>1 DEF OneMore, NothingOnRecord
<1>2. ASSUME NEW status, OnRecord(l, p, status) PROVE OnRecord(m, p, status)
  BY <1>2 DEF OneMore, OnRecord
<1> QED
  BY <1>1, <1>2 DEF Explained

LEMMA RowUpserted ==
  ASSUME RowsOnRecord, NEW p \in Payment, NEW status, NEW paid,
         rows' = UpsertPayment(p, status, paid)
  PROVE  /\ rows' = [q \in Payment |-> rows'[q]] /\ rows'[p].status = status
         /\ \A q \in Payment : q # p => rows'[q] = rows[q]
<1> DEFINE new == [status |-> status, paid |-> IF paid = "unread" THEN rows[p].paid ELSE paid]
<1>1. rows' = [rows EXCEPT ![p] = new] /\ new.status = status
  BY DEF UpsertPayment
<1> HIDE DEF new
<1> QED
  BY <1>1 DEF RowsOnRecord

LEMMA InitOnRecord == PaymentInit => RowsOnRecord
<1> SUFFICES ASSUME PaymentInit PROVE RowsOnRecord
  OBVIOUS
<1>1. Len(log) = 0 /\ \A i \in 1..Len(log) : FALSE
  BY DEF PaymentInit
<1>2. rows = [p \in Payment |-> rows[p]] /\ \A p \in Payment : rows[p].status = "none"
  BY DEF PaymentInit, NoPayment
<1> QED
  BY <1>1, <1>2, InitSettles DEF RowsOnRecord, Explained, NothingOnRecord

LEMMA AttachOnRecord ==
  ASSUME RowsOnRecord, Settles', AttachInvoice
  PROVE  RowsOnRecord'
<1>1. log' = log /\ rows' = UpsertPayment(Invoice, "waiting", "unread")
  BY DEF AttachInvoice
<1>2. Invoice \in Payment
  BY DEF Payment
<1>3. /\ rows' = [q \in Payment |-> rows'[q]] /\ rows'[Invoice].status = "waiting"
      /\ \A q \in Payment : q # Invoice => rows'[q] = rows[q]
  BY <1>1, <1>2, RowUpserted
<1>4. \A p \in Payment : Explained(log', p, rows'[p].status)
  BY <1>1, <1>3 DEF RowsOnRecord, Explained
<1> QED
  BY <1>1, <1>3, <1>4 DEF RowsOnRecord

LEMMA ApplyOnRecord ==
  ASSUME RowsOnRecord, Settles', NEW h \in Handler, Apply(h)
  PROVE  RowsOnRecord'
<1> DEFINE c == handler[h].body
           r == [body |-> c, signed |-> TRUE, received |-> handler[h].began]
<1>1. /\ c \in Callback /\ handler[h].began \in Nat /\ log \in Seq(Events)
      /\ c.payment \in Payment
  BY DEF Apply, Settles, RowsOnRecord, Payment
<1>2. r \in Events /\ r.body = c /\ r.signed
  BY <1>1 DEF Events
<1>3. rows' = UpsertPayment(c.payment, c.status, c.paid)
  BY DEF Apply
<1>4. /\ rows' = [q \in Payment |-> rows'[q]] /\ rows'[c.payment].status = c.status
      /\ \A q \in Payment : q # c.payment => rows'[q] = rows[q]
  BY <1>1, <1>3, RowUpserted
<1>5. \/ log' = log /\ \E i \in 1..Len(log) : log[i].body = c
      \/ log' = Append(log, r)
  BY DEF Apply, recordEvent, OnFile, DedupKey
<1> HIDE DEF r
<1>6. OneMore(log, Append(log, r), r)
  BY <1>1, <1>2, AppendedIsOneMore
<1>7. OnRecord(log', c.payment, c.status)
  <2>1. CASE log' = log /\ \E i \in 1..Len(log) : log[i].body = c
    BY <1>1, <2>1 DEF RowsOnRecord, OnRecord
  <2>2. CASE log' = Append(log, r)
    BY <1>2, <1>6, <2>2 DEF OneMore, OnRecord
  <2> QED
    BY <1>5, <2>1, <2>2
<1>8. ASSUME NEW p \in Payment, p # c.payment PROVE Explained(log', p, rows'[p].status)
  <2>1. \A status : Explained(log, p, status) => Explained(log', p, status)
    <3>1. r.signed => r.body.payment # p
      BY <1>2, <1>8
    <3>2. CASE log' = Append(log, r)
      BY <1>6, <3>1, <3>2, RecordGrows
    <3> QED
      BY <1>5, <3>2
  <2>2. rows'[p] = rows[p]
    BY <1>4, <1>8
  <2> QED
    BY <2>1, <2>2 DEF RowsOnRecord
<1>9. \A i \in 1..Len(log') : log'[i].signed <=> log'[i].body \in Callback
  <2>1. CASE log' = log
    BY <2>1 DEF RowsOnRecord
  <2>2. CASE log' = Append(log, r)
    BY <1>1, <1>2, <1>6, <2>2 DEF RowsOnRecord, OneMore
  <2> QED
    BY <1>5, <2>1, <2>2
<1>10. \A p \in Payment : Explained(log', p, rows'[p].status)
  BY <1>4, <1>7, <1>8 DEF Explained
<1> QED
  BY <1>4, <1>9, <1>10 DEF RowsOnRecord

LEMMA OthersOnRecord ==
  ASSUME RowsOnRecord, Settles', [PaymentNext]_paymentVars,
         ~(AttachInvoice \/ \E h \in Handler : Apply(h))
  PROVE  RowsOnRecord'
<1>1. ASSUME rows' = rows, log' = log PROVE RowsOnRecord'
  BY <1>1 DEF RowsOnRecord
<1>2. ASSUME NEW to, Close(to) PROVE RowsOnRecord'
  BY <1>1, <1>2 DEF Close
<1>3. ASSUME NEW h \in Handler, (\E c \in Callback : Receive(h, c)) \/ ApplyFails(h) \/ Answered(h)
      PROVE RowsOnRecord'
  BY <1>1, <1>3 DEF Receive, ApplyFails, Answered
<1>4. ASSUME NEW f \in Forged, RecordRejected(f) PROVE RowsOnRecord'
  <2> DEFINE r == [body |-> f, signed |-> FALSE, received |-> clock]
  <2>1. r \in Events /\ r.body = f /\ ~r.signed /\ log \in Seq(Events) /\ f \notin Callback
    BY ForgedAssumption DEF Events, Settles, RowsOnRecord
  <2>2. /\ log' = log \/ log' = Append(log, r)
        /\ rows' = rows
    BY <1>4 DEF RecordRejected, recordEvent
  <2> HIDE DEF r
  <2>3. CASE log' = log
    BY <1>1, <2>2, <2>3
  <2>4. CASE log' = Append(log, r)
    <3>1. OneMore(log, log', r)
      BY <2>1, <2>4, AppendedIsOneMore
    <3>2. \A p \in Payment : \A status : Explained(log, p, status) => Explained(log', p, status)
      BY <2>1, <3>1, RecordGrows
    <3>3. \A i \in 1..Len(log') : log'[i].signed <=> log'[i].body \in Callback
      BY <2>1, <2>2, <3>1 DEF RowsOnRecord, OneMore
    <3> QED
      BY <2>2, <3>2, <3>3 DEF RowsOnRecord
  <2> QED
    BY <2>2, <2>3, <2>4
<1>5. CASE UNCHANGED paymentVars
  BY <1>1, <1>5 DEF paymentVars
<1> QED
  BY <1>2, <1>3, <1>4, <1>5 DEF PaymentNext

LEMMA AtMostOne ==
  ASSUME NEW S, IsFiniteSet(S), Cardinality(S) <= 1
  PROVE  \A x, y \in S : x = y
<1> SUFFICES ASSUME NEW x \in S, NEW y \in S, x # y PROVE FALSE
  OBVIOUS
<1>1. IsFiniteSet({x}) /\ Cardinality({x}) = 1
  BY FS_Singleton
<1>2. Cardinality({x} \cup {y}) = 2
  BY <1>1, FS_AddElement
<1>3. {x} \cup {y} \subseteq S
  OBVIOUS
<1>4. Cardinality({x} \cup {y}) <= Cardinality(S) /\ Cardinality(S) \in Nat
  BY <1>3, FS_Subset, FS_CardinalityType
<1> QED
  BY <1>2, <1>4

LEMMA RecordExplainsFlag == RowsOnRecord => CardExplainsFlag
<1> SUFFICES ASSUME RowsOnRecord PROVE CardExplainsFlag
  OBVIOUS
<1> DEFINE Filed == {j \in 1..Len(log) : log[j].signed}
           entry == [i \in Filed |-> [status |-> log[i].body.status, received |-> log[i].received,
                                      paid |-> rows[log[i].body.payment].paid]]
           entries == PaymentEventsByOrder
<1>1. entries = {entry[i] : i \in Filed}
  BY DEF PaymentEventsByOrder
<1>2. \A i \in Filed : entry[i].status = log[i].body.status /\ entry[i].received \in Nat
  <2>1. \A i \in 1..Len(log) : log[i] \in Events
    BY DEF RowsOnRecord, Settles
  <2>2. \A i \in Filed : log[i].received \in Nat
    BY <2>1 DEF Events
  <2> QED
    BY <2>2
<1>3. IsFiniteSet(entries)
  <2>1. Len(log) \in Nat
    BY DEF RowsOnRecord, Settles
  <2>2. IsFiniteSet(1..Len(log)) /\ Filed \subseteq 1..Len(log)
    BY <2>1, FS_Interval
  <2>3. IsFiniteSet(Filed)
    BY <2>2, FS_Subset
  <2> HIDE DEF Filed, entry, entries
  <2> QED
    BY <1>1, <2>3, ImageFinite
<1> HIDE DEF entry, entries
<1>4. PartiallyPaid => \E e \in entries : e.status = "partially_paid"
  <2> SUFFICES ASSUME NEW p \in Payment, rows[p].status = "partially_paid"
               PROVE  \E e \in entries : e.status = "partially_paid"
    BY DEF PartiallyPaid
  <2>1. OnRecord(log, p, "partially_paid")
    BY DEF RowsOnRecord, Explained
  <2>2. PICK i \in Filed : log[i].body.status = "partially_paid"
    BY <2>1 DEF OnRecord
  <2> QED
    BY <1>1, <1>2, <2>2
<1>5. ASSUME Cardinality(entries) <= 1, \A c \in Callback : OnFile(c) => c.payment # Invoice
      PROVE  PartiallyPaid <=> IsPartial(entries)
  <2>1. \A d, e \in entries : d = e
    BY <1>3, <1>5, AtMostOne
  <2>2. ASSUME PartiallyPaid PROVE IsPartial(entries)
    <3>1. PICK e \in entries : e.status = "partially_paid"
      BY <1>4, <2>2
    <3>2. e.received \in Nat
      BY <1>1, <1>2
    <3>3. \A other \in entries : other.received <= e.received
      BY <2>1, <3>2
    <3> QED
      BY <3>1, <3>3 DEF IsPartial
  <2>3. ASSUME IsPartial(entries) PROVE PartiallyPaid
    <3>1. PICK e \in entries : e.status = "partially_paid"
      BY <2>3 DEF IsPartial
    <3>2. PICK i \in Filed : e = entry[i]
      BY <1>1
    <3> DEFINE p == log[i].body.payment
    <3>3. p \in Payment /\ p # Invoice /\ ~NothingOnRecord(log, p)
      BY <1>5 DEF RowsOnRecord, Payment, NothingOnRecord, OnFile
    <3>4. OnRecord(log, p, rows[p].status)
      BY <3>3 DEF RowsOnRecord, Explained
    <3>5. PICK j \in Filed : log[j].body.status = rows[p].status
      BY <3>4 DEF OnRecord
    <3>6. entry[j] = entry[i]
      BY <1>1, <2>1
    <3>7. rows[p].status = "partially_paid"
      BY <1>2, <3>1, <3>2, <3>5, <3>6
    <3> QED
      BY <3>3, <3>7 DEF PartiallyPaid
  <2> QED
    BY <2>2, <2>3
<1> QED
  BY <1>4, <1>5 DEF CardExplainsFlag, entries

\* CardExplainsFlag: no callback that fails, repeats or comes late makes the list flag an
\* order whose card has nothing to show for it.
THEOREM CardExplainsFlagHolds == PaymentSpec => []CardExplainsFlag
<1>1. RowsOnRecord /\ [PaymentNext]_paymentVars => RowsOnRecord'
  <2> SUFFICES ASSUME RowsOnRecord, [PaymentNext]_paymentVars PROVE RowsOnRecord'
    OBVIOUS
  <2>1. Settles'
    BY ReceiveSettles, ApplySettles, OthersSettle DEF RowsOnRecord
  <2> QED
    BY <2>1, AttachOnRecord, ApplyOnRecord, OthersOnRecord
<1> QED
  BY <1>1, InitOnRecord, RecordExplainsFlag, PTL DEF PaymentSpec

-----------------------------------------------------------------------------
(* The tables a report reads.                                              *)

\* What a visit and an order keep.
Visit == [visitor : Visitor, session : SessionId, origin : Origin \cup {"own page"},
          bot : BOOLEAN, at : Nat]
Order == [visitor : Visitor, lastTouch : TouchOfPost, came : SUBSET (Origin \cup {"own page"}),
          status : Status, total : Nat, at : Nat]

\* The tables the report reads.
Tables ==
  /\ visits \in Seq(Visit) /\ orders \in Seq(Order) /\ IsFiniteSet(events)
  /\ bot \in [Browser -> BOOLEAN] /\ today \in Nat

\* A write adds to the visits and to the events and takes nothing away.
OneMoreVisit == visits' = visits \/ \E visit \in Visit : visits' = Append(visits, visit)
OneMoreEvent == events' = events \/ \E event : events' = events \cup {event}

LEMMA InitTables == AttributionInit => Tables
<1> SUFFICES ASSUME AttributionInit PROVE Tables
  OBVIOUS
<1>1. IsFiniteSet(events)
  BY FS_EmptySet DEF AttributionInit
<1> QED
  BY <1>1 DEF AttributionInit, Tables

LEMMA EventRecorded ==
  ASSUME NEW v, NEW s, NEW type, NEW isBot, events' \in RecordEvent(v, s, type, isBot)
  PROVE  OneMoreEvent
BY DEF RecordEvent, OneMoreEvent

LEMMA VisitRecorded ==
  ASSUME Tables, NEW b \in Browser, NEW v \in Visitor, NEW s \in SessionId,
         NEW isPage, NEW origin \in Origin \cup {"own page"}, Attributed(b, v, s, isPage, origin)
  PROVE  OneMoreVisit
<1> DEFINE visit == [visitor |-> v, session |-> s, origin |-> origin, bot |-> bot[b], at |-> today]
<1>1. visit \in Visit
  BY DEF Tables, Visit
<1>2. visits' = visits \/ visits' = Append(visits, visit)
  BY DEF Attributed, RecordVisit
<1> QED
  BY <1>1, <1>2 DEF OneMoreVisit

\* A post records none.
LEMMA PostRecordsNone ==
  ASSUME NEW b, NEW v, NEW s, NEW touch, Attributed(b, v, s, FALSE, touch)
  PROVE  visits' = visits
BY DEF Attributed

LEMMA OrderPlaced ==
  ASSUME Tables, NEW b \in Browser, Checkout(b)
  PROVE  orders' \in Seq(Order) /\ OneMoreVisit /\ OneMoreEvent
<1>1. PICK v \in Visitor, s \in SessionId, touch \in TouchOfPost :
        /\ Attributed(b, v, s, FALSE, touch)
        /\ orders' = Append(orders, [visitor |-> v, lastTouch |-> touch, came |-> OriginOf(s),
                                     status |-> "awaiting_payment", total |-> Total, at |-> today])
        /\ events' \in RecordEvent(v, s, "payment_created", bot[b])
  BY DEF Checkout
<1> DEFINE placed == [visitor |-> v, lastTouch |-> touch, came |-> OriginOf(s),
                     status |-> "awaiting_payment", total |-> Total, at |-> today]
<1>2. OriginOf(s) \subseteq Origin \cup {"own page"}
  <2>1. \A i \in DOMAIN visits : visits[i] \in Visit
    BY DEF Tables
  <2> QED
    BY <2>1 DEF OriginOf, Visit
<1>3. placed \in Order
  BY <1>2, TotalAssumption DEF Order, Status, Tables
<1>4. orders' = Append(orders, placed)
  BY <1>1
<1> HIDE DEF placed
<1>5. orders' \in Seq(Order)
  BY <1>3, <1>4 DEF Tables
<1>6. OneMoreEvent
  BY <1>1, EventRecorded
<1>7. OneMoreVisit
  BY <1>1, PostRecordsNone DEF OneMoreVisit
<1> QED
  BY <1>5, <1>6, <1>7

LEMMA OrderMoved ==
  ASSUME Tables, NEW o \in DOMAIN orders, NEW to \in Status, Move(o, to)
  PROVE  orders' \in Seq(Order) /\ visits' = visits /\ OneMoreEvent
<1>1. orders[o] \in Order /\ orders' = [orders EXCEPT ![o].status = to] /\ visits' = visits
  BY DEF Tables, Move
<1>2. [orders[o] EXCEPT !.status = to] \in Order
  BY <1>1 DEF Order
<1>3. orders' \in Seq(Order)
  BY <1>1, <1>2 DEF Tables
<1>4. OneMoreEvent
  BY EventRecorded DEF Move, OrderPaidEvents, OneMoreEvent
<1> QED
  BY <1>1, <1>3, <1>4

LEMMA WritesGrow ==
  ASSUME Tables, AttributionNext
  PROVE  /\ OneMoreVisit /\ OneMoreEvent
         /\ orders' \in Seq(Order) /\ bot' = bot /\ today' \in Nat
<1>1. ASSUME NEW b \in Browser, NEW type, NEW origin \in Origin \cup {"own page"}, Page(b, type, origin)
      PROVE  /\ OneMoreVisit /\ OneMoreEvent /\ orders' = orders /\ bot' = bot /\ today' = today
  BY <1>1, VisitRecorded, EventRecorded DEF Page
<1>2. ASSUME NEW b \in Browser, AddToCart(b)
      PROVE  /\ OneMoreVisit /\ OneMoreEvent /\ orders' = orders /\ bot' = bot /\ today' = today
  BY <1>2, PostRecordsNone, EventRecorded DEF AddToCart, OneMoreVisit
<1>3. ASSUME NEW b \in Browser, Checkout(b)
      PROVE  /\ OneMoreVisit /\ OneMoreEvent /\ orders' \in Seq(Order) /\ bot' = bot /\ today' = today
  <2>1. bot' = bot /\ today' = today
    BY <1>3 DEF Checkout
  <2> QED
    BY <1>3, <2>1, OrderPlaced
<1>4. ASSUME NEW b \in Browser, SessionLapses(b) \/ VisitorLapses(b)
      PROVE  /\ OneMoreVisit /\ OneMoreEvent /\ orders' = orders /\ bot' = bot /\ today' = today
  BY <1>4 DEF SessionLapses, VisitorLapses, OneMoreVisit, OneMoreEvent
<1>5. ASSUME NEW o \in DOMAIN orders, NEW to \in Status, Move(o, to)
      PROVE  /\ OneMoreVisit /\ OneMoreEvent /\ orders' \in Seq(Order) /\ bot' = bot /\ today' = today
  <2>1. bot' = bot /\ today' = today
    BY <1>5 DEF Move
  <2> QED
    BY <1>5, <2>1, OrderMoved DEF OneMoreVisit
<1>6. CASE NextDay
  BY <1>6 DEF NextDay, Tables, OneMoreVisit, OneMoreEvent
<1>7. orders \in Seq(Order) /\ today \in Nat
  BY DEF Tables
<1>8. \/ \E b \in Browser, type \in {"page_view", "product_view", "checkout_started"},
           origin \in Origin \cup {"own page"} : Page(b, type, origin)
      \/ \E b \in Browser : AddToCart(b) \/ Checkout(b) \/ (SessionLapses(b) \/ VisitorLapses(b))
      \/ \E o \in DOMAIN orders, to \in Status : Move(o, to)
      \/ NextDay
  BY DEF AttributionNext
<1> QED
  BY <1>1, <1>2, <1>3, <1>4, <1>5, <1>6, <1>7, <1>8, Zenon

\* A list grows by an element of its kind.
LEMMA AppendKeepsSeq ==
  ASSUME NEW S, NEW list \in Seq(S), NEW element \in S
  PROVE  Append(list, element) \in Seq(S)
OBVIOUS

LEMMA WriteKeepsTables ==
  ASSUME Tables, AttributionNext
  PROVE  Tables'
<1>1. /\ OneMoreVisit /\ OneMoreEvent
      /\ orders' \in Seq(Order) /\ bot' = bot /\ today' \in Nat
  BY WritesGrow
<1>2. IsFiniteSet(events')
  BY <1>1, FS_AddElement DEF Tables, OneMoreEvent
<1>3. visits' \in Seq(Visit)
  <2>1. visits \in Seq(Visit)
    BY DEF Tables
  <2>2. CASE visits' = visits
    BY <2>1, <2>2, Zenon
  <2>3. ASSUME NEW visit \in Visit, visits' = Append(visits, visit)
        PROVE  visits' \in Seq(Visit)
    BY <2>1, <2>3, AppendKeepsSeq, Zenon
  <2> QED
    BY <1>1, <2>2, <2>3, Zenon DEF OneMoreVisit
<1> QED
  BY <1>1, <1>2, <1>3 DEF Tables

-----------------------------------------------------------------------------
(* The sessions of a range.                                                *)

LEMMA SessionsFinite ==
  ASSUME Tables, NEW r
  PROVE  IsFiniteSet(SessionsIn(r)) /\ IsFiniteSet({s.visitor : s \in SessionsIn(r)})
<1> DEFINE S == {j \in DOMAIN visits : In(r, visits[j].at) /\ ~visits[j].bot}
           f == [s \in SessionsIn(r) |-> s.visitor]
<1>1. Len(visits) \in Nat /\ DOMAIN visits = 1..Len(visits)
  BY DEF Tables
<1>2. IsFiniteSet(1..Len(visits)) /\ S \subseteq 1..Len(visits)
  BY <1>1, FS_Interval
<1>3. IsFiniteSet(S)
  BY <1>2, FS_Subset
<1>4. SessionsIn(r) = {visits[j] : j \in S}
  BY DEF SessionsIn
<1> HIDE DEF S
<1>5. IsFiniteSet(SessionsIn(r))
  BY <1>3, <1>4, ImageFinite
<1>6. {s.visitor : s \in SessionsIn(r)} = {f[s] : s \in SessionsIn(r)}
  OBVIOUS
<1> HIDE DEF f
<1>7. IsFiniteSet({f[s] : s \in SessionsIn(r)})
  BY <1>5, ImageFinite
<1> QED
  BY <1>5, <1>6, <1>7

-----------------------------------------------------------------------------
(* The panels, and the row on top of them.                                 *)

\* Orders told apart by a key are counted once, and so is their revenue.
LEMMA OrdersByKey ==
  ASSUME NEW S, IsFiniteSet(S), NEW B, IsFiniteSet(B), NEW key, \A x \in S : key[x] \in B,
         NEW g, DOMAIN g = B, \A b \in B : g[b] = Cardinality(Group(S, key, b))
  PROVE  SumFunction(g) = Cardinality(S)
<1>1. SumFunctionOnSet(g, B) = Cardinality(S)
  BY CountOfGroups
<1> QED
  BY <1>1 DEF SumFunction

LEMMA OrdersFinite ==
  ASSUME Tables, NEW r
  PROVE  /\ IsFiniteSet(OrdersIn(r)) /\ IsFiniteSet(PaidIn(r))
         /\ PaidIn(r) \subseteq OrdersIn(r)
         /\ \A o \in OrdersIn(r) : orders[o] \in Order /\ In(r, orders[o].at)
<1>1. Len(orders) \in Nat /\ DOMAIN orders = 1..Len(orders) /\ \A o \in DOMAIN orders : orders[o] \in Order
  BY DEF Tables
<1>2. IsFiniteSet(1..Len(orders)) /\ OrdersIn(r) \subseteq 1..Len(orders)
  BY <1>1, FS_Interval DEF OrdersIn
<1>3. PaidIn(r) \subseteq OrdersIn(r)
  BY DEF PaidIn
<1>4. IsFiniteSet(OrdersIn(r)) /\ IsFiniteSet(PaidIn(r))
  BY <1>2, <1>3, FS_Subset
<1>5. \A o \in OrdersIn(r) : orders[o] \in Order /\ In(r, orders[o].at)
  BY <1>1 DEF OrdersIn
<1> QED
  BY <1>3, <1>4, <1>5

LEMMA RevenueIsSum ==
  ASSUME NEW S, IsFiniteSet(S), \A o \in S : orders[o].total \in Nat, NEW P \in SUBSET S
  PROVE  /\ Revenue(P) = SumFunctionOnSet([o \in S |-> orders[o].total], P)
         /\ Revenue(P) \in Nat
<1> DEFINE f == [o \in S |-> orders[o].total]
           h == [o \in P |-> orders[o].total]
<1>1. /\ IsFiniteSet(P) /\ \A o \in P : f[o] \in Nat /\ f[o] \in Int /\ h[o] = f[o]
      /\ DOMAIN h = P
  BY FS_Subset
<1>2. Revenue(P) = SumFunctionOnSet(h, P)
  BY <1>1 DEF Revenue, SumFunction
<1> HIDE DEF f, h
<1>3. SumFunctionOnSet(f, P) = SumFunctionOnSet(h, P)
  BY <1>1, SumSame
<1>4. SumFunctionOnSet(f, P) \in Nat
  BY <1>1, SumType
<1> QED
  BY <1>2, <1>3, <1>4 DEF f

LEMMA RevenueByKey ==
  ASSUME NEW S, IsFiniteSet(S), \A o \in S : orders[o].total \in Nat,
         NEW B, IsFiniteSet(B), NEW key, \A x \in S : key[x] \in B,
         NEW g, DOMAIN g = B, \A b \in B : g[b] = Revenue(Group(S, key, b))
  PROVE  SumFunction(g) = Revenue(S)
<1> DEFINE f == [o \in S |-> orders[o].total]
           sums == Grouped(f, S, key, B)
<1>1. \A o \in S : f[o] \in Int
  OBVIOUS
<1>2. \A b \in B : Group(S, key, b) \in SUBSET S
  BY DEF Group
<1>3. \A b \in B : Revenue(Group(S, key, b)) = SumFunctionOnSet(f, Group(S, key, b))
                   /\ Revenue(Group(S, key, b)) \in Nat
  BY <1>2, RevenueIsSum
<1>4. Revenue(S) = SumFunctionOnSet(f, S)
  BY RevenueIsSum
<1> HIDE DEF f
<1>5. \A b \in B : sums[b] \in Int /\ g[b] = sums[b]
  BY <1>3 DEF Grouped
<1>6. SumFunctionOnSet(sums, B) = SumFunctionOnSet(f, S)
  BY <1>1, SumOfGroups
<1> HIDE DEF sums
<1>7. SumFunctionOnSet(sums, B) = SumFunctionOnSet(g, B)
  BY <1>5, SumSame
<1> QED
  BY <1>4, <1>6, <1>7 DEF SumFunction

LEMMA Quotient ==
  ASSUME NEW a \in Nat, NEW b \in Nat \ {0}
  PROVE  (a \div b) * b <= a
OBVIOUS

\* Every order of the range falls into one bucket of the chart.
LEMMA BucketsCover ==
  ASSUME Tables, NEW r, r.from \in Int, r.to \in Int, NEW w \in Nat \ {0}
  PROVE  /\ IsFiniteSet(Buckets(r, w))
         /\ \A o \in OrdersIn(r) : Trunc(orders[o].at, w) \in Buckets(r, w)
<1> DEFINE days == r.from..(r.to - 1)
           trunc == [day \in days |-> Trunc(day, w)]
<1>1. IsFiniteSet(days)
  BY FS_Interval
<1>2. Buckets(r, w) = {trunc[day] : day \in days}
  BY DEF Buckets
<1>3. ASSUME NEW o \in OrdersIn(r) PROVE Trunc(orders[o].at, w) \in Buckets(r, w)
  <2>1. orders[o].at \in Nat /\ r.from <= orders[o].at /\ orders[o].at < r.to
    BY OrdersFinite DEF Order, In
  <2>2. orders[o].at \in days
    BY <2>1
  <2> QED
    BY <2>2 DEF Buckets
<1> HIDE DEF days, trunc
<1>4. IsFiniteSet({trunc[day] : day \in days})
  BY <1>1, ImageFinite
<1> QED
  BY <1>2, <1>3, <1>4

\* A chart agrees with the row on top.
SeriesAgrees(t, series) ==
  LET days == DOMAIN series
  IN /\ t.orders = SumFunction([d \in days |-> series[d].orders])
     /\ t.paid = SumFunction([d \in days |-> series[d].paid])
     /\ t.revenue = SumFunction([d \in days |-> series[d].revenue])

LEMMA SeriesAddsUp ==
  ASSUME Tables, NEW r, r.from \in Int, r.to \in Int, NEW w \in Nat \ {0}
  PROVE  SeriesAgrees(MetricsTotals(r), MetricsSeries(r, w))
<1> DEFINE B == Buckets(r, w)
           O == OrdersIn(r)
           P == PaidIn(r)
           keyO == [o \in O |-> Trunc(orders[o].at, w)]
           keyP == [o \in P |-> Trunc(orders[o].at, w)]
           series == MetricsSeries(r, w)
           t == MetricsTotals(r)
           byOrders == [d \in B |-> series[d].orders]
           byPaid == [d \in B |-> series[d].paid]
           byRevenue == [d \in B |-> series[d].revenue]
<1>1. /\ IsFiniteSet(O) /\ IsFiniteSet(P) /\ P \subseteq O
      /\ \A o \in P : orders[o].total \in Nat
  BY OrdersFinite DEF Order
<1>2. IsFiniteSet(B) /\ (\A o \in O : keyO[o] \in B) /\ \A o \in P : keyP[o] \in B
  BY <1>1, BucketsCover
<1>3. DOMAIN series = B
  BY DEF MetricsSeries
<1>4. t.orders = Cardinality(O) /\ t.paid = Cardinality(P) /\ t.revenue = Revenue(P)
  BY DEF MetricsTotals
<1>5. ASSUME NEW d \in B
      PROVE  /\ byOrders[d] = Cardinality(Group(O, keyO, d))
             /\ byPaid[d] = Cardinality(Group(P, keyP, d))
             /\ byRevenue[d] = Revenue(Group(P, keyP, d))
  <2> DEFINE there == {o \in O : Trunc(orders[o].at, w) = d}
  <2>1. there = Group(O, keyO, d) /\ there \cap P = Group(P, keyP, d)
    BY <1>1 DEF Group
  <2>2. series[d] = [orders |-> Cardinality(there), paid |-> Cardinality(there \cap P),
                     revenue |-> Revenue(there \cap P)]
    BY DEF MetricsSeries
  <2> HIDE DEF there, series
  <2>3. /\ series[d].orders = Cardinality(there) /\ series[d].paid = Cardinality(there \cap P)
        /\ series[d].revenue = Revenue(there \cap P)
    BY <2>2
  <2> QED
    BY <2>1, <2>3, Zenon
<1>6. DOMAIN byOrders = B /\ DOMAIN byPaid = B /\ DOMAIN byRevenue = B
  OBVIOUS
<1> HIDE DEF keyO, keyP, O, P, B, byOrders, byPaid, byRevenue, series, t
<1>7. SumFunction(byOrders) = Cardinality(O)
  BY <1>1, <1>2, <1>5, <1>6, OrdersByKey
<1>8. SumFunction(byPaid) = Cardinality(P)
  BY <1>1, <1>2, <1>5, <1>6, OrdersByKey
<1>9. SumFunction(byRevenue) = Revenue(P)
  BY <1>1, <1>2, <1>5, <1>6, RevenueByKey
<1>10. SeriesAgrees(t, series)
  BY <1>3, <1>4, <1>7, <1>8, <1>9 DEF SeriesAgrees, byOrders, byPaid, byRevenue
<1> QED
  BY <1>10 DEF t, series

\* The rows of all sources agree with the row on top; a visitor may have come twice.
SourcesAgree(t, sources) ==
  LET from == DOMAIN sources
  IN /\ t.paid = SumFunction([s \in from |-> sources[s].orders])
     /\ t.revenue = SumFunction([s \in from |-> sources[s].revenue])
     /\ t.visitors <= SumFunction([s \in from |-> sources[s].visitors])

LEMMA SourcesAddUp ==
  ASSUME Tables, NEW r
  PROVE  /\ SourcesAgree(MetricsTotals(r), SourceRows(r))
         /\ IsFiniteSet(DOMAIN SourceRows(r))
         /\ \A origin \in DOMAIN SourceRows(r) :
              SourceRows(r)[origin].orders \in Nat /\ SourceRows(r)[origin].revenue \in Nat
<1> DEFINE S == SessionsIn(r)
           P == PaidIn(r)
           V == {s.visitor : s \in S}
           B == {s.origin : s \in S} \cup {orders[o].lastTouch : o \in P}
           key == [o \in P |-> orders[o].lastTouch]
           sources == SourceRows(r)
           t == MetricsTotals(r)
           part == [origin \in B |-> {s.visitor : s \in {x \in S : x.origin = origin}}]
           byVisitors == [origin \in B |-> sources[origin].visitors]
           byPaid == [origin \in B |-> sources[origin].orders]
           byRevenue == [origin \in B |-> sources[origin].revenue]
<1>1. IsFiniteSet(P) /\ \A o \in P : orders[o].total \in Nat
  BY OrdersFinite DEF Order
<1>2. IsFiniteSet(S) /\ IsFiniteSet(V)
  BY SessionsFinite
<1>3. IsFiniteSet(B)
  <2> DEFINE f == [s \in S |-> s.origin]
  <2>1. {s.origin : s \in S} = {f[s] : s \in S} /\ {orders[o].lastTouch : o \in P} = {key[o] : o \in P}
    OBVIOUS
  <2> HIDE DEF f, key, S, P
  <2>2. IsFiniteSet({f[s] : s \in S}) /\ IsFiniteSet({key[o] : o \in P})
    BY <1>1, <1>2, ImageFinite
  <2> QED
    BY <2>1, <2>2, FS_Union
<1>4. \A o \in P : key[o] \in B
  OBVIOUS
<1>5. DOMAIN sources = B
  BY DEF SourceRows
<1>6. t.paid = Cardinality(P) /\ t.revenue = Revenue(P) /\ t.visitors = Cardinality(V)
  BY DEF MetricsTotals
<1>7. ASSUME NEW origin \in B
      PROVE  /\ byVisitors[origin] = Cardinality(part[origin])
             /\ byPaid[origin] = Cardinality(Group(P, key, origin))
             /\ byRevenue[origin] = Revenue(Group(P, key, origin))
  <2> DEFINE bought == {o \in P : orders[o].lastTouch = origin}
             came == {s.visitor : s \in {x \in S : x.origin = origin}}
  <2>1. bought = Group(P, key, origin) /\ came = part[origin]
    BY DEF Group
  <2>2. sources[origin] = [visitors |-> Cardinality(came), orders |-> Cardinality(bought),
                           revenue |-> Revenue(bought)]
    BY DEF SourceRows
  <2> HIDE DEF bought, came, sources, part
  <2>3. /\ sources[origin].visitors = Cardinality(came) /\ sources[origin].orders = Cardinality(bought)
        /\ sources[origin].revenue = Revenue(bought)
    BY <2>2
  <2> QED
    BY <2>1, <2>3, Zenon
<1>8. (\A b \in B : part[b] \subseteq V) /\ \A v \in V : \E b \in B : v \in part[b]
  OBVIOUS
<1>9. DOMAIN byVisitors = B /\ DOMAIN byPaid = B /\ DOMAIN byRevenue = B
  OBVIOUS
<1> HIDE DEF key, part, S, P, V, B, byVisitors, byPaid, byRevenue, sources, t
<1>10. SumFunction(byPaid) = Cardinality(P)
  BY <1>1, <1>3, <1>4, <1>7, <1>9, OrdersByKey
<1>11. SumFunction(byRevenue) = Revenue(P)
  BY <1>1, <1>3, <1>4, <1>7, <1>9, RevenueByKey
<1>12. Cardinality(V) <= SumFunction(byVisitors)
  <2>1. Cardinality(V) <= SumFunctionOnSet(byVisitors, B)
    BY <1>2, <1>3, <1>7, <1>8, CountOfCover
  <2> QED
    BY <1>9, <2>1 DEF SumFunction
<1>13. SourcesAgree(t, sources)
  BY <1>5, <1>6, <1>10, <1>11, <1>12 DEF SourcesAgree, byVisitors, byPaid, byRevenue
<1>14. ASSUME NEW origin \in B PROVE byPaid[origin] \in Nat /\ byRevenue[origin] \in Nat
  <2>1. Group(P, key, origin) \in SUBSET P
    BY DEF Group
  <2>2. Cardinality(Group(P, key, origin)) \in Nat /\ Revenue(Group(P, key, origin)) \in Nat
    BY <1>1, <2>1, FS_Subset, FS_CardinalityType, RevenueIsSum
  <2> QED
    BY <1>7, <2>2
<1>15. \A origin \in B : sources[origin].orders \in Nat /\ sources[origin].revenue \in Nat
  BY <1>14 DEF byPaid, byRevenue
<1> QED
  BY <1>3, <1>5, <1>13, <1>15 DEF t, sources

\* A part of a sum of counts is at most the sum.
LEMMA SumShown ==
  ASSUME NEW f, NEW B, DOMAIN f = B, IsFiniteSet(B), \A b \in B : f[b] \in Nat,
         NEW shown \in SUBSET B, NEW g, DOMAIN g = shown, \A b \in shown : g[b] = f[b]
  PROVE  SumFunction(g) <= SumFunction(f) /\ (shown = B => SumFunction(g) = SumFunction(f))
<1>1. IsFiniteSet(shown) /\ \A b \in shown : f[b] \in Int /\ g[b] = f[b]
  BY FS_Subset
<1>2. SumFunctionOnSet(f, shown) = SumFunctionOnSet(g, shown)
  BY <1>1, SumSame
<1>3. SumFunctionOnSet(f, shown) <= SumFunctionOnSet(f, B)
  BY SumPart
<1> QED
  BY <1>2, <1>3 DEF SumFunction

\* What the table shows of the sources, beside the row on top and all there are.
SourcesShown(t, all, sources) ==
  LET from == DOMAIN sources
      paid == SumFunction([s \in from |-> sources[s].orders])
      revenue == SumFunction([s \in from |-> sources[s].revenue])
      visitors == SumFunction([s \in from |-> sources[s].visitors])
  IN /\ paid <= t.paid /\ revenue <= t.revenue
     /\ Cardinality(DOMAIN all) <= SourceRowLimit =>
          paid = t.paid /\ revenue = t.revenue /\ t.visitors <= visitors

\* The limit takes rows away and nothing else; below it there are all.
LEMMA CutAddsUp ==
  ASSUME Tables, NEW r, NEW sources \in MetricsSources(r)
  PROVE  SourcesShown(MetricsTotals(r), SourceRows(r), sources)
<1>1. PICK all, t : all = SourceRows(r) /\ t = MetricsTotals(r)
  OBVIOUS
<1> DEFINE B == DOMAIN all
           paid == [s \in B |-> all[s].orders]
           revenue == [s \in B |-> all[s].revenue]
<1>2. /\ SourcesAgree(t, all) /\ IsFiniteSet(B)
      /\ \A s \in B : paid[s] \in Nat /\ revenue[s] \in Nat
  BY <1>1, SourcesAddUp
<1>3. t.paid = SumFunction(paid) /\ t.revenue = SumFunction(revenue)
  BY <1>2 DEF SourcesAgree
<1>4. PICK shown \in SUBSET B : sources = Restrict(all, shown) /\ (Cardinality(shown) = SourceRowLimit \/ shown = B)
  BY <1>1 DEF MetricsSources, Cut
<1>5. DOMAIN sources = shown /\ \A s \in shown : sources[s] = all[s]
  BY <1>4 DEF Restrict
<1> DEFINE paidShown == [s \in shown |-> sources[s].orders]
           revenueShown == [s \in shown |-> sources[s].revenue]
<1>6. /\ DOMAIN paid = B /\ DOMAIN revenue = B /\ DOMAIN paidShown = shown /\ DOMAIN revenueShown = shown
      /\ \A s \in shown : paidShown[s] = paid[s] /\ revenueShown[s] = revenue[s]
  BY <1>5
<1>7. Cardinality(B) <= SourceRowLimit => shown = B
  <2>1. Cardinality(shown) <= Cardinality(B) /\ Cardinality(shown) \in Nat /\ Cardinality(B) \in Nat
    BY <1>2, FS_Subset, FS_CardinalityType
  <2>2. Cardinality(shown) = Cardinality(B) => shown = B
    BY <1>2, FS_Subset
  <2> QED
    BY <1>4, <2>1, <2>2, SourceRowLimitAssumption
<1>8. shown = B => sources = all
  <2>1. all = [s \in B |-> all[s]] /\ sources = [s \in shown |-> all[s]]
    BY <1>1, <1>4 DEF SourceRows, Restrict
  <2> QED
    BY <2>1, Zenon
<1> HIDE DEF paid, revenue, paidShown, revenueShown, B
<1>9. /\ SumFunction(paidShown) <= SumFunction(paid)
      /\ shown = B => SumFunction(paidShown) = SumFunction(paid)
  BY <1>2, <1>6, SumShown
<1>10. /\ SumFunction(revenueShown) <= SumFunction(revenue)
       /\ shown = B => SumFunction(revenueShown) = SumFunction(revenue)
  BY <1>2, <1>6, SumShown
<1>11. shown = B => t.visitors <= SumFunction([s \in DOMAIN sources |-> sources[s].visitors])
  BY <1>2, <1>8 DEF SourcesAgree
<1>12. SourcesShown(t, all, sources)
  BY <1>3, <1>5, <1>7, <1>9, <1>10, <1>11 DEF SourcesShown, paidShown, revenueShown, B
<1> QED
  BY <1>1, <1>12

LEMMA AverageIsBelow ==
  ASSUME Tables, NEW r
  PROVE  AverageOrder(MetricsTotals(r)) * MetricsTotals(r).paid <= MetricsTotals(r).revenue
<1> DEFINE P == PaidIn(r)
           t == MetricsTotals(r)
<1>1. IsFiniteSet(P) /\ \A o \in P : orders[o].total \in Nat
  BY OrdersFinite DEF Order
<1>2. t.paid = Cardinality(P) /\ t.revenue = Revenue(P)
  BY DEF MetricsTotals
<1>3. t.paid \in Nat /\ t.revenue \in Nat
  BY <1>1, <1>2, FS_CardinalityType, RevenueIsSum
<1>4. PICK paid \in Nat, revenue \in Nat : t.paid = paid /\ t.revenue = revenue
  BY <1>3
<1>5. AverageOrder(t) = IF paid = 0 THEN 0 ELSE revenue \div paid
  BY <1>4 DEF AverageOrder
<1> HIDE DEF t
<1>6. AverageOrder(t) * paid <= revenue
  <2>1. CASE paid = 0
    <3>1. AverageOrder(t) = 0
      BY <1>5, <2>1
    <3> QED
      BY <2>1, <3>1
  <2>2. CASE paid # 0
    <3>1. AverageOrder(t) = revenue \div paid /\ paid \in Nat \ {0}
      BY <1>5, <2>2
    <3>2. (revenue \div paid) * paid <= revenue
      BY <3>1, Quotient
    <3> QED
      BY <3>1, <3>2, Zenon
  <2> QED
    BY <2>1, <2>2
<1> QED
  BY <1>4, <1>6, Zenon DEF t

-----------------------------------------------------------------------------
(* Loading a report while the shop goes on.                                *)

TopRow == {"next", "range", "width", "totals"}

IsRange(r) == r.from \in Int /\ r.to \in Int

\* Which panels a report has by the query that is next.
PanelsInOrder ==
  /\ report.next \in {"totals", "series", "funnel", "sources", "shown"}
  /\ report.next = "totals" => DOMAIN report = {"next"}
  /\ report.next = "series" => DOMAIN report = TopRow
  /\ report.next = "funnel" => DOMAIN report = TopRow \cup {"series"}
  /\ report.next = "sources" => DOMAIN report = TopRow \cup {"series", "funnel"}
  /\ report.next = "shown" => DOMAIN report = TopRow \cup {"series", "funnel", "sources"}
  /\ report.next # "totals" => IsRange(report.range) /\ report.width \in Nat \ {0}

\* Nothing was written since: what was counted still is what the tables say.
PanelsCurrent ==
  quiet =>
    /\ report.next # "totals" => report.totals = MetricsTotals(report.range)
    /\ report.next \in {"funnel", "sources", "shown"} =>
         report.series = MetricsSeries(report.range, report.width)
    /\ report.next = "shown" => report.sources \in MetricsSources(report.range)

ReportInv == Tables /\ PanelsInOrder /\ PanelsCurrent

LEMMA InitReport == AttributionInit /\ ReportsInit => ReportInv
<1> SUFFICES ASSUME AttributionInit, ReportsInit PROVE ReportInv
  OBVIOUS
<1>1. report.next = "totals" /\ DOMAIN report = {"next"}
  BY DEF ReportsInit, NoReport
<1> QED
  BY <1>1, InitTables DEF ReportInv, PanelsInOrder, PanelsCurrent

LEMMA PanelAdds ==
  ASSUME NEW name \in {"series", "funnel", "sources"}, NEW value, NEW after,
         "next" \in DOMAIN report, name \notin DOMAIN report, Panel(name, value, after)
  PROVE  /\ DOMAIN report' = DOMAIN report \cup {name}
         /\ report'.next = after /\ report'[name] = value
         /\ \A f \in DOMAIN report \ {"next"} : report'[f] = report[f]
         /\ quiet' = quiet
BY DEF Panel

\* The tables are what they were, and so is all that is counted in them.
LEMMA Unwritten ==
  ASSUME UNCHANGED attributionVars, NEW r, NEW w
  PROVE  /\ MetricsTotals(r)' = MetricsTotals(r)
         /\ MetricsSeries(r, w)' = MetricsSeries(r, w)
         /\ MetricsFunnel(r)' = MetricsFunnel(r)
         /\ MetricsSources(r)' = MetricsSources(r)
         /\ SourceRows(r)' = SourceRows(r)
BY DEF attributionVars, MetricsTotals, MetricsSeries, MetricsFunnel, MetricsSources, SourceRows,
   Reached, SessionsIn, OrdersIn, PaidIn, Revenue, In

LEMMA TablesUnwritten ==
  ASSUME Tables, UNCHANGED attributionVars
  PROVE  Tables'
BY DEF Tables, attributionVars

LEMMA RangeParsed ==
  ASSUME Tables, NEW default \in DOMAIN PeriodDays, NEW period, NEW from \in Int, NEW to \in Int
  PROVE  IsRange(ParseRange(period, from, to)) /\ IsRange(ParseRange(default, 0, 0))
<1>1. "custom" \notin DOMAIN PeriodDays /\ \A p \in DOMAIN PeriodDays : PeriodDays[p] \in Nat
  BY PeriodAssumption
<1>2. IsRange(BadRange) /\ IsRange(ParseCustom(from, to))
  BY DEF BadRange, ParseCustom, IsRange
<1>3. \A p \in DOMAIN PeriodDays : IsRange([from |-> today + 1 - PeriodDays[p], to |-> today + 1])
  BY <1>1 DEF Tables, IsRange
<1>4. IsRange(ParseRange(period, from, to))
  <2>1. CASE period \in DOMAIN PeriodDays
    <3>1. ParseRange(period, from, to) = [from |-> today + 1 - PeriodDays[period], to |-> today + 1]
      BY <1>1, <2>1 DEF ParseRange
    <3> QED
      BY <1>3, <2>1, <3>1, Zenon
  <2>2. CASE period \notin DOMAIN PeriodDays /\ period = "custom"
    BY <1>2, <2>2 DEF ParseRange
  <2>3. CASE period \notin DOMAIN PeriodDays /\ period # "custom"
    BY <1>2, <2>3 DEF ParseRange
  <2> QED
    BY <2>1, <2>2, <2>3
<1>5. IsRange(ParseRange(default, 0, 0))
  <2>1. ParseRange(default, 0, 0) = [from |-> today + 1 - PeriodDays[default], to |-> today + 1]
    BY <1>1 DEF ParseRange
  <2> QED
    BY <1>3, <2>1, Zenon
<1> QED
  BY <1>4, <1>5

LEMMA TotalsReport ==
  ASSUME ReportInv, NEW default \in DOMAIN PeriodDays, NEW period,
         NEW granularity \in DOMAIN Width, NEW from \in Int, NEW to \in Int,
         Totals(default, period, granularity, from, to), UNCHANGED attributionVars
  PROVE  ReportInv'
<1>1. PICK r, w : /\ IsRange(r) /\ w \in Nat \ {0}
                  /\ report' = [next |-> "series", range |-> r, width |-> w, totals |-> MetricsTotals(r)]
  <2>1. Width[granularity] \in Nat \ {0}
    BY WidthAssumption
  <2>2. IsRange(ParseRange(period, from, to)) /\ IsRange(ParseRange(default, 0, 0))
    BY RangeParsed DEF ReportInv
  <2> QED
    BY <2>1, <2>2 DEF Totals
<1>2. /\ DOMAIN report' = TopRow /\ report'.next = "series" /\ report'.range = r
      /\ report'.width = w /\ report'.totals = MetricsTotals(r)
  BY <1>1 DEF TopRow
<1>3. MetricsTotals(r)' = MetricsTotals(r)
  BY Unwritten
<1>4. Tables'
  BY TablesUnwritten DEF ReportInv
<1>5. PanelsInOrder'
  BY <1>1, <1>2 DEF PanelsInOrder
<1>6. PanelsCurrent'
  BY <1>2, <1>3 DEF PanelsCurrent
<1> QED
  BY <1>4, <1>5, <1>6 DEF ReportInv

LEMMA SeriesReport ==
  ASSUME ReportInv, Panel("series", MetricsSeries(report.range, report.width), "funnel"),
         UNCHANGED attributionVars
  PROVE  ReportInv'
<1>1. report.next = "series" /\ DOMAIN report = TopRow
  BY DEF Panel, ReportInv, PanelsInOrder
<1>2. PICK r, w : report.range = r /\ report.width = w
  OBVIOUS
<1>3. /\ DOMAIN report' = TopRow \cup {"series"}
      /\ report'.next = "funnel" /\ report'.series = MetricsSeries(r, w)
      /\ report'.range = r /\ report'.width = w /\ report'.totals = report.totals
      /\ quiet' = quiet
  BY <1>1, <1>2, PanelAdds DEF TopRow
<1>4. MetricsTotals(r)' = MetricsTotals(r) /\ MetricsSeries(r, w)' = MetricsSeries(r, w)
  BY Unwritten
<1>5. Tables'
  BY TablesUnwritten DEF ReportInv
<1>6. PanelsInOrder'
  BY <1>1, <1>2, <1>3 DEF ReportInv, PanelsInOrder
<1>7. PanelsCurrent'
  BY <1>1, <1>2, <1>3, <1>4 DEF ReportInv, PanelsCurrent
<1> QED
  BY <1>5, <1>6, <1>7 DEF ReportInv

LEMMA FunnelReport ==
  ASSUME ReportInv, Panel("funnel", MetricsFunnel(report.range), "sources"),
         UNCHANGED attributionVars
  PROVE  ReportInv'
<1>1. report.next = "funnel" /\ DOMAIN report = TopRow \cup {"series"}
  BY DEF Panel, ReportInv, PanelsInOrder
<1>2. PICK r, w : report.range = r /\ report.width = w
  OBVIOUS
<1>3. /\ DOMAIN report' = TopRow \cup {"series", "funnel"}
      /\ report'.next = "sources" /\ report'.funnel = MetricsFunnel(r)
      /\ report'.range = r /\ report'.width = w /\ report'.totals = report.totals
      /\ report'.series = report.series /\ quiet' = quiet
  BY <1>1, <1>2, PanelAdds DEF TopRow
<1>4. MetricsTotals(r)' = MetricsTotals(r) /\ MetricsSeries(r, w)' = MetricsSeries(r, w)
  BY Unwritten
<1>5. Tables'
  BY TablesUnwritten DEF ReportInv
<1>6. PanelsInOrder'
  BY <1>1, <1>2, <1>3 DEF ReportInv, PanelsInOrder
<1>7. PanelsCurrent'
  BY <1>1, <1>2, <1>3, <1>4 DEF ReportInv, PanelsCurrent
<1> QED
  BY <1>5, <1>6, <1>7 DEF ReportInv

LEMMA SourcesReport ==
  ASSUME ReportInv, NEW sources \in MetricsSources(report.range),
         Panel("sources", sources, "shown"), UNCHANGED attributionVars
  PROVE  ReportInv'
<1>1. report.next = "sources" /\ DOMAIN report = TopRow \cup {"series", "funnel"}
  BY DEF Panel, ReportInv, PanelsInOrder
<1>2. PICK r, w : report.range = r /\ report.width = w
  OBVIOUS
<1>3. /\ DOMAIN report' = TopRow \cup {"series", "funnel", "sources"}
      /\ report'.next = "shown" /\ report'.sources \in MetricsSources(r)
      /\ report'.range = r /\ report'.width = w /\ report'.totals = report.totals
      /\ report'.series = report.series /\ report'.funnel = report.funnel /\ quiet' = quiet
  BY <1>1, <1>2, PanelAdds DEF TopRow
<1>4. /\ MetricsTotals(r)' = MetricsTotals(r) /\ MetricsSeries(r, w)' = MetricsSeries(r, w)
      /\ MetricsSources(r)' = MetricsSources(r)
  BY Unwritten
<1>5. Tables'
  BY TablesUnwritten DEF ReportInv
<1>6. PanelsInOrder'
  BY <1>1, <1>2, <1>3 DEF ReportInv, PanelsInOrder
<1>7. PanelsCurrent'
  BY <1>1, <1>2, <1>3, <1>4 DEF ReportInv, PanelsCurrent
<1> QED
  BY <1>5, <1>6, <1>7 DEF ReportInv

\* A write ends the quiet unless no report is being loaded.
LEMMA WriteReport ==
  ASSUME ReportInv, Write
  PROVE  ReportInv'
<1>1. Tables'
  BY WriteKeepsTables DEF ReportInv, Write
<1>2. report' = report /\ (quiet' => report.next = "totals")
  <2>1. report' = report /\ quiet' = (report = NoReport)
    BY DEF Write
  <2>2. NoReport.next = "totals"
    BY DEF NoReport
  <2>3. quiet' => report = NoReport
    BY <2>1, Zenon
  <2> QED
    BY <2>1, <2>2, <2>3, Zenon
<1>3. PanelsInOrder' /\ PanelsCurrent'
  BY <1>2 DEF ReportInv, PanelsInOrder, PanelsCurrent
<1> QED
  BY <1>1, <1>3 DEF ReportInv

LEMMA StepReport ==
  ASSUME ReportInv, [ReportsNext]_<<attributionVars, reportVars>>
  PROVE  ReportInv'
<1>1. ASSUME NEW default \in DOMAIN PeriodDays, NEW from \in 1..LastDay, NEW to \in 1..LastDay,
             Load(default, from, to)
      PROVE  ReportInv'
  <2>1. UNCHANGED attributionVars
    BY <1>1 DEF Load
  <2>2. ASSUME NEW period, NEW granularity \in DOMAIN Width, Totals(default, period, granularity, from, to)
        PROVE  ReportInv'
    BY <2>1, <2>2, TotalsReport
  <2>3. CASE Metrics
    BY <2>1, <2>3, SeriesReport, FunnelReport, SourcesReport DEF Metrics
  <2>4. CASE Rendered
    <3>1. report'.next = "totals" /\ DOMAIN report' = {"next"}
      BY <2>4 DEF Rendered, NoReport
    <3>2. Tables'
      BY <2>1, TablesUnwritten DEF ReportInv
    <3> QED
      BY <3>1, <3>2 DEF ReportInv, PanelsInOrder, PanelsCurrent
  <2> QED
    BY <1>1, <2>2, <2>3, <2>4 DEF Load
<1>2. CASE Write
  BY <1>2, WriteReport
<1>3. CASE UNCHANGED <<attributionVars, reportVars>>
  <2>1. UNCHANGED attributionVars /\ report' = report /\ quiet' = quiet
    BY <1>3 DEF reportVars
  <2>2. PICK r, w : report.range = r /\ report.width = w
    OBVIOUS
  <2>3. /\ MetricsTotals(r)' = MetricsTotals(r) /\ MetricsSeries(r, w)' = MetricsSeries(r, w)
        /\ MetricsSources(r)' = MetricsSources(r)
    BY <2>1, Unwritten
  <2>4. Tables' /\ PanelsInOrder'
    BY <2>1, TablesUnwritten DEF ReportInv, PanelsInOrder
  <2>5. PanelsCurrent'
    BY <2>1, <2>2, <2>3 DEF ReportInv, PanelsCurrent
  <2> QED
    BY <2>4, <2>5 DEF ReportInv
<1> QED
  BY <1>1, <1>2, <1>3 DEF ReportsNext

LEMMA CurrentAddsUp == ReportInv => ReportAddsUp
<1> SUFFICES ASSUME ReportInv, quiet, report.next = "shown" PROVE ReportAddsUp
  BY DEF ReportAddsUp
<1>1. PICK r, w : report.range = r /\ report.width = w
  OBVIOUS
<1>2. Tables /\ r.from \in Int /\ r.to \in Int /\ w \in Nat \ {0}
  BY <1>1 DEF ReportInv, PanelsInOrder, IsRange
<1>3. report.totals = MetricsTotals(r) /\ report.series = MetricsSeries(r, w) /\ report.sources \in MetricsSources(r)
  BY <1>1 DEF ReportInv, PanelsCurrent
<1>4. SeriesAgrees(MetricsTotals(r), MetricsSeries(r, w))
  BY <1>2, SeriesAddsUp
<1>5. SourcesShown(MetricsTotals(r), SourceRows(r), report.sources)
  BY <1>2, <1>3, CutAddsUp
<1>6. AverageOrder(MetricsTotals(r)) * MetricsTotals(r).paid <= MetricsTotals(r).revenue
  BY <1>2, AverageIsBelow
<1>7. /\ SeriesAgrees(report.totals, report.series) /\ SourcesShown(report.totals, SourceRows(r), report.sources)
      /\ AverageOrder(report.totals) * report.totals.paid <= report.totals.revenue
  BY <1>3, <1>4, <1>5, <1>6
<1> QED
  BY <1>1, <1>7, Zenon DEF ReportAddsUp, SeriesAgrees, SourcesShown

\* ReportAddsUp: day by day, week by week and, up to the limit of the table, source by source,
\* the panels of a report agree with its top row, for every range, bucket and set of orders.
THEOREM ReportAddsUpHolds == ReportsSpec => []ReportAddsUp
<1>1. ReportInv /\ [ReportsNext]_<<attributionVars, reportVars>> => ReportInv'
  BY StepReport
<1> QED
  BY <1>1, InitReport, CurrentAddsUp, PTL DEF ReportsSpec

=============================================================================
