---------------------------- MODULE StockLedger ----------------------------
(***************************************************************************)
(* What the shop promises about stock, with no tables, locks, callbacks or *)
(* counters: every order takes its units out of what is available exactly  *)
(* once, in full or not at all, and gives them back at most once - while   *)
(* they are merely held, or after the order was sold and cancelled.        *)
(*                                                                         *)
(* OrderStock implements this specification: `available` is stock -        *)
(* reserved and `custody` is read off the order's status.                  *)
(***************************************************************************)
EXTENDS OrderUnits

CONSTANT Recounted   \* the variants the shop owner recounts

VARIABLES
  available,   \* [Variant -> Nat]: units nobody holds
  custody,     \* [Order -> Custody]: where the units of an order are
  asked        \* [Order -> Lines]: how many units an order took

ledgerVars == <<available, custody, asked>>

Custody == {"none", "held", "sold", "back"}

Init ==
  /\ available \in [Variant -> Nat]
  /\ custody = [o \in Order |-> "none"]
  /\ asked = [o \in Order |-> NoLines]

\* An order takes all of its units, and only where all of them are available.
Take(o, lines) ==
  /\ custody[o] = "none"
  /\ \A v \in Variant : lines[v] <= available[v]
  /\ available' = [v \in Variant |-> available[v] - lines[v]]
  /\ custody' = [custody EXCEPT ![o] = "held"]
  /\ asked' = [asked EXCEPT ![o] = lines]

\* Orders give back what they hold. One expiry pass gives back several.
GiveBack(os) ==
  /\ os # {}
  /\ \A o \in os : custody[o] = "held"
  /\ available' = [v \in Variant |-> available[v] + Qty(os, asked, v)]
  /\ custody' = [o \in Order |-> IF o \in os THEN "back" ELSE custody[o]]
  /\ UNCHANGED asked

\* Held units leave the shelf for good: they were never available meanwhile.
Sell(o) ==
  /\ custody[o] = "held"
  /\ custody' = [custody EXCEPT ![o] = "sold"]
  /\ UNCHANGED <<available, asked>>

\* A sold order is cancelled before it ships: its units are available again.
Restock(o) ==
  /\ custody[o] = "sold"
  /\ available' = [v \in Variant |-> available[v] + asked[o][v]]
  /\ custody' = [custody EXCEPT ![o] = "back"]
  /\ UNCHANGED asked

\* The shop owner recounts one variant.
Recount(v) ==
  /\ available'[v] \in Nat
  /\ available' = [available EXCEPT ![v] = available'[v]]
  /\ UNCHANGED <<custody, asked>>

Next ==
  \/ \E o \in Order, lines \in Cart : Take(o, lines)
  \/ \E os \in SUBSET Order : GiveBack(os)
  \/ \E o \in Order : Sell(o) \/ Restock(o)
  \/ \E v \in Recounted : Recount(v)

Spec == Init /\ [][Next]_ledgerVars
=============================================================================
