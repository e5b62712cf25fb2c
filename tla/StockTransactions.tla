------------------------- MODULE StockTransactions -------------------------
(***************************************************************************)
(* The stock columns as the rest of the development sees them: every       *)
(* transaction moves all of its lines in one step or moves nothing. This   *)
(* is the granularity of OrderStock's actions; VariantLocks shows that the *)
(* row locks of the database provide it.                                   *)
(***************************************************************************)
EXTENDS ClampedMinus

CONSTANTS Tx, Variant, MaxQty, MaxStock

\* What a transaction does with the units of its lines.
Kind == {"reserve", "release", "commit", "restock"}

Row == [stock : Nat, reserved : Nat]

Lines == [Variant -> 0..MaxQty]

Cart == {lines \in Lines : \E v \in Variant : lines[v] > 0}

Phase == {"idle", "running", "committed", "rolledBack"}
Job == [phase : Phase, kind : Kind, lines : Lines]
NoJob == [phase |-> "idle", kind |-> "reserve", lines |-> [v \in Variant |-> 0]]

VARIABLES
  rows,   \* [Variant -> Row]
  job     \* [Tx -> Job]: what each transaction is about and how it ended

txVars == <<rows, job>>

\* The condition of the statement, and its SET clause.
Allows(kind, qty, row) == kind = "reserve" => row.stock - row.reserved >= qty

Effect(kind, qty, row) ==
  CASE kind = "reserve" -> [row EXCEPT !.reserved = @ + qty]
    [] kind = "release" -> [row EXCEPT !.reserved = Minus(@, qty)]
    [] kind = "commit" -> [row EXCEPT !.reserved = Minus(@, qty), !.stock = Minus(@, qty)]
    [] kind = "restock" -> [row EXCEPT !.stock = @ + qty]

Init ==
  /\ rows \in {r \in [Variant -> [stock : 0..MaxStock, reserved : 0..MaxStock]] :
                \A v \in Variant : r[v].reserved <= r[v].stock}
  /\ job = [t \in Tx |-> NoJob]

Start(t, kind, lines) ==
  /\ job[t].phase = "idle"
  /\ job' = [job EXCEPT ![t] = [phase |-> "running", kind |-> kind, lines |-> lines]]
  /\ UNCHANGED rows

\* All lines of the transaction take effect, and only where all of them may ...
Settle(t) ==
  /\ job[t].phase = "running"
  /\ \A v \in Variant : Allows(job[t].kind, job[t].lines[v], rows[v])
  /\ rows' = [v \in Variant |-> Effect(job[t].kind, job[t].lines[v], rows[v])]
  /\ job' = [job EXCEPT ![t].phase = "committed"]

\* ... or none does.
GiveUp(t) ==
  /\ job[t].phase = "running"
  /\ job' = [job EXCEPT ![t].phase = "rolledBack"]
  /\ UNCHANGED rows

\* An administrator types in the stock of one size.
Recount(v, n) ==
  /\ n >= rows[v].reserved
  /\ rows' = [rows EXCEPT ![v].stock = n]
  /\ UNCHANGED job

Next ==
  \/ \E t \in Tx :
       \/ \E kind \in Kind, lines \in Cart : Start(t, kind, lines)
       \/ Settle(t) \/ GiveUp(t)
  \/ \E v \in Variant, n \in 0..MaxStock : Recount(v, n)

Spec == Init /\ [][Next]_txVars
=============================================================================
