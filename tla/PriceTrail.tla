----------------------------- MODULE PriceTrail -----------------------------
(***************************************************************************)
(* The price of one product and the trail of its changes (price_history).  *)
(*                                                                         *)
(* ChangePrice is a transaction of three statements: it locks the product  *)
(* row and reads the old price off it, sets the new one, and files both.   *)
(* A second administrator waits for the lock inside a transaction that has *)
(* already begun, and created_at of a trail row is the moment its          *)
(* transaction BEGAN (now() in Postgres), not the moment it wrote.         *)
(***************************************************************************)
EXTENDS Naturals, Sequences, PriceText

CONSTANTS
  Pricer,       \* administrators, each with at most one price change in flight
  Typed,        \* texts an administrator may type into the price field
  FirstPrice,   \* the price the product is seeded with
  MaxChanges,   \* bound on the transactions that ever begin
  Nobody        \* no administrator: the product row is unlocked

ASSUME PricerAssumption == Nobody \notin Pricer
ASSUME TypedAssumption == \A text \in Typed : text \in Seq(ToSet(text))
ASSUME FirstPriceAssumption == FirstPrice \in Nat /\ PriceInRange(FirstPrice)
ASSUME MaxChangesAssumption == MaxChanges \in Nat

VARIABLES
  \* products.price_cents, the holder of the row lock, and price_history in the
  \* order its rows were written
  price, lockedBy, trail,
  \* a change in flight, and how many transactions have begun
  pricing, begun

trailVars == <<price, lockedBy, trail, pricing, begun>>

NotPricing == [phase |-> "idle"]
Change == [old : Nat, new : Nat, created : Nat]

TrailInit ==
  /\ price = FirstPrice /\ lockedBy = Nobody /\ trail = <<>>
  /\ pricing = [a \in Pricer |-> NotPricing]
  /\ begun = 0

\* The form is read and the transaction begins; a text ParsePrice or ChangePrice
\* refuses changes nothing.
ProductPrice(a, typed) ==
  /\ pricing[a] = NotPricing /\ begun < MaxChanges
  /\ PriceInRange(ParsePrice(typed))
  /\ begun' = begun + 1
  /\ pricing' = [pricing EXCEPT ![a] =
                   [phase |-> "begun", typed |-> typed, created |-> begun + 1]]
  /\ UNCHANGED <<price, lockedBy, trail>>

\* Fault (mutation run): the old price is read without locking the row.
LockProductUnlocked(a) ==
  /\ pricing[a].phase = "begun"
  /\ pricing' = [pricing EXCEPT ![a] =
                   [phase |-> "locked", typed |-> @.typed, created |-> @.created, old |-> price]]
  /\ UNCHANGED <<price, lockedBy, trail, begun>>

\* SELECT price_cents ... FOR UPDATE.
LockProductForPrice(a) ==
  /\ pricing[a].phase = "begun" /\ lockedBy = Nobody
  /\ lockedBy' = a
  /\ pricing' = [pricing EXCEPT ![a] =
                   [phase |-> "locked", typed |-> @.typed, created |-> @.created, old |-> price]]
  /\ UNCHANGED <<price, trail, begun>>

\* SetProductPrice, InsertPriceChange and the commit that makes both visible.
ChangePrice(a) ==
  /\ pricing[a].phase = "locked"
  /\ LET new == ParsePrice(pricing[a].typed) IN
       /\ price' = new
       /\ trail' = Append(trail, [old |-> pricing[a].old, new |-> new,
                                  created |-> pricing[a].created])
  /\ lockedBy' = Nobody
  /\ pricing' = [pricing EXCEPT ![a] = NotPricing]
  /\ UNCHANGED begun

\* A statement fails or the connection goes: the transaction is rolled back.
ChangePriceFails(a) ==
  /\ pricing[a] # NotPricing
  /\ lockedBy' = IF lockedBy = a THEN Nobody ELSE lockedBy
  /\ pricing' = [pricing EXCEPT ![a] = NotPricing]
  /\ UNCHANGED <<price, trail, begun>>

PricerStep(a) ==
  \/ \E typed \in Typed : ProductPrice(a, typed)
  \/ LockProductForPrice(a)
  \/ ChangePrice(a)
  \/ ChangePriceFails(a)

TrailSpec == TrailInit /\ [][\E a \in Pricer : PricerStep(a)]_trailVars

-----------------------------------------------------------------------------
(* Properties.                                                             *)

\* "A price never moves without the trail behind it" (catalog/admin.go): the rows of the
\* trail, in the order they were written, lead from the first price to today's without a
\* gap, whoever changes the price at the same time and whatever fails.
TrailExplainsPrice ==
  /\ price = IF trail = <<>> THEN FirstPrice ELSE trail[Len(trail)].new
  /\ \A i \in 1..Len(trail) :
       trail[i].old = IF i = 1 THEN FirstPrice ELSE trail[i - 1].new

\* "The digits are counted, never divided" (ParsePrice): a price typed as digits, with one
\* or two decimals after a point or a comma or with none, is stored to the cent. Texts with
\* a sign are not judged: "-0.5" is no price and is stored as 50 cents all the same.
TypedPriceStored ==
  [][\A a \in Pricer :
       LET text == TrimDollar(TrimSpace(pricing[a].typed)) IN
         pricing[a].phase = "locked" /\ price' # price /\ IsDecimal(text)
           => price' = DecimalCents(text)]_trailVars

\* A price form saved as it was shown leaves the price as it is: priceInput and
\* ParsePrice lose no cent on the way through the browser.
FormKeepsPrice == ParsePrice(PriceInput(price)) = price
=============================================================================
