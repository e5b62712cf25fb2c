-------------------------- MODULE StorefrontProofs --------------------------
(***************************************************************************)
(* Theorems about the storefront, for any number of tabs, administrators,  *)
(* sizes and carts.                                                        *)
(***************************************************************************)
EXTENDS Storefront, PriceTextProofs, FiniteSetTheorems, SequenceTheorems, TLAPS

\* Who can take a step, and what the others' variables do meanwhile.
LEMMA StoreSteps ==
  ASSUME [StoreNext]_storeVars
  PROVE  \/ \E t \in Tab : TabStep(t) /\ UNCHANGED <<settingsVars, trailVars>>
         \/ \E a \in Saver : SaverStep(a) /\ Resumed /\ UNCHANGED <<cartVars, trailVars, available, cartCookie, orders>>
         \/ \E a \in Pricer : PricerStep(a) /\ UNCHANGED <<cartVars, settingsVars, shopVars>>
         \/ UNCHANGED <<cartVars, settingsVars, trailVars, cartCookie, tab, orders>>
<1>1. ASSUME NEW t \in Tab, TabStep(t) PROVE UNCHANGED <<settingsVars, trailVars>>
  <2>1. CASE \/ \E v \in Variant, q \in 0..MaxQty + 1 : AddItem(t, v, q)
             \/ ReadQty(t) \/ WriteLine(t) \/ AddAnswered(t) \/ AnswerLost(t)
    BY <2>1 DEF AddItem, ReadQty, WriteLine, AddAnswered, AnswerLost
  <2>2. CASE \/ \E i \in DOMAIN items, q \in Qty : UpdateItem(t, i, q)
             \/ SetQty(t)
             \/ \E i \in DOMAIN items : RemoveItem(t, i)
    BY <2>2 DEF UpdateItem, SetQty, RemoveItem
  <2>3. CASE \/ Checkout(t) \/ Totals(t) \/ ReadPaused(t) \/ PlaceOrder(t)
             \/ CheckoutFails(t) \/ CheckoutAnswered(t)
    BY <2>3 DEF Checkout, Totals, ReadPaused, PlaceOrder, CheckoutFails, CheckoutAnswered
  <2> QED
    BY <1>1, <2>1, <2>2, <2>3 DEF TabStep
<1>2. ASSUME NEW v \in Variant, OthersTrade(v)
      PROVE  UNCHANGED <<cartVars, settingsVars, trailVars, cartCookie, tab, orders>>
  BY <1>2 DEF OthersTrade
<1>3. CASE UNCHANGED storeVars
  BY <1>3 DEF storeVars, shopVars
<1> QED
  BY <1>1, <1>2, <1>3 DEF StoreNext, OfficeStep

-----------------------------------------------------------------------------
(* The price trail.                                                        *)

\* A price change in flight: what was typed is a price that may be stored, as today's is, and
\* whoever has locked the product is alone with it and has read the price it still has.
Priceable ==
  /\ PriceInRange(price) /\ begun \in Nat /\ trail \in Seq(Change)
  /\ pricing = [a \in Pricer |-> pricing[a]]
  /\ \A a \in Pricer :
       /\ pricing[a].phase \in {"begun", "locked"} =>
            /\ pricing[a].typed \in Typed /\ PriceInRange(ParsePrice(pricing[a].typed))
            /\ pricing[a].created \in Nat
       /\ pricing[a].phase = "locked" => lockedBy = a /\ pricing[a].old = price

Trailed == Priceable /\ TrailExplainsPrice

LEMMA InRangeNat == \A cents : PriceInRange(cents) => cents \in Nat
BY PriceCapAssumption DEF PriceInRange

LEMMA InitTrailed == StoreInit => Trailed
BY FirstPriceAssumption DEF StoreInit, TrailInit, Trailed, Priceable, TrailExplainsPrice, NotPricing

LEMMA PricerTrailed ==
  ASSUME Trailed, NEW a \in Pricer, PricerStep(a)
  PROVE  Trailed'
<1> USE DEF Trailed
<1>1. ASSUME NEW typed \in Typed, ProductPrice(a, typed) PROVE Trailed'
  <2> DEFINE new == [phase |-> "begun", typed |-> typed, created |-> begun + 1]
  <2>1. PriceInRange(ParsePrice(typed)) /\ begun \in Nat
    BY <1>1 DEF ProductPrice, Priceable
  <2>2. pricing' = [pricing EXCEPT ![a] = new]
    BY <1>1 DEF ProductPrice
  <2>3. new.phase = "begun" /\ new.typed = typed /\ new.created = begun + 1
    OBVIOUS
  <2> HIDE DEF new
  <2>4. /\ pricing' = [b \in Pricer |-> pricing'[b]]
        /\ pricing'[a] = new
        /\ \A b \in Pricer : b # a => pricing'[b] = pricing[b]
    BY <2>2 DEF Priceable
  <2>5. Priceable'
    BY <1>1, <2>1, <2>3, <2>4 DEF ProductPrice, Priceable
  <2> QED
    BY <1>1, <2>5 DEF ProductPrice, TrailExplainsPrice
<1>2. CASE LockProductForPrice(a)
  <2> DEFINE new == [phase |-> "locked", typed |-> pricing[a].typed, created |-> pricing[a].created,
                     old |-> price]
  <2>1. pricing' = [pricing EXCEPT ![a] = new]
    BY <1>2 DEF LockProductForPrice
  <2>2. /\ new.phase = "locked" /\ new.typed = pricing[a].typed
        /\ new.created = pricing[a].created /\ new.old = price
    OBVIOUS
  <2> HIDE DEF new
  <2>3. /\ pricing' = [b \in Pricer |-> pricing'[b]]
        /\ pricing'[a] = new
        /\ \A b \in Pricer : b # a => pricing'[b] = pricing[b]
    BY <2>1 DEF Priceable
  <2>4. \A b \in Pricer : pricing[b].phase # "locked"
    BY <1>2, PricerAssumption DEF LockProductForPrice, Priceable
  <2>5. Priceable'
    BY <1>2, <2>2, <2>3, <2>4 DEF LockProductForPrice, Priceable
  <2> QED
    BY <1>2, <2>5 DEF LockProductForPrice, TrailExplainsPrice
<1>3. CASE ChangePrice(a)
  <2> DEFINE new == ParsePrice(pricing[a].typed)
             entry == [old |-> pricing[a].old, new |-> new, created |-> pricing[a].created]
  <2>1. /\ price' = new /\ trail' = Append(trail, entry) /\ lockedBy' = Nobody /\ begun' = begun
        /\ pricing' = [pricing EXCEPT ![a] = NotPricing]
    BY <1>3 DEF ChangePrice
  <2>2. /\ PriceInRange(new) /\ pricing[a].created \in Nat
        /\ pricing[a].old = price /\ lockedBy = a
    BY <1>3 DEF ChangePrice, Priceable
  <2> HIDE DEF new
  <2>3. entry \in Change /\ entry.old = price /\ entry.new = new
    BY <2>2, InRangeNat DEF Change, Priceable
  <2> HIDE DEF entry
  <2>4. /\ pricing' = [b \in Pricer |-> pricing'[b]]
        /\ pricing'[a] = NotPricing
        /\ \A b \in Pricer : b # a => pricing'[b] = pricing[b] /\ pricing[b].phase # "locked"
    BY <2>1, <2>2 DEF Priceable
  <2>5. trail' \in Seq(Change)
    BY <2>1, <2>3 DEF Priceable
  <2>6. Priceable'
    BY <2>1, <2>2, <2>4, <2>5 DEF Priceable, NotPricing
  <2>7. /\ Len(trail') = Len(trail) + 1 /\ trail'[Len(trail')] = entry /\ trail' # <<>>
        /\ \A i \in 1..Len(trail) : trail'[i] = trail[i]
    BY <2>1, <2>3 DEF Priceable
  <2>8. TrailExplainsPrice'
    BY <2>1, <2>3, <2>7 DEF TrailExplainsPrice, Priceable
  <2> QED
    BY <2>6, <2>8
<1>4. CASE ChangePriceFails(a)
  <2>1. /\ pricing' = [b \in Pricer |-> pricing'[b]]
        /\ pricing'[a] = NotPricing
        /\ \A b \in Pricer : b # a => pricing'[b] = pricing[b]
    BY <1>4 DEF ChangePriceFails, Priceable
  <2>2. Priceable'
    BY <1>4, <2>1 DEF ChangePriceFails, Priceable, NotPricing
  <2> QED
    BY <1>4, <2>2 DEF ChangePriceFails, TrailExplainsPrice
<1> QED
  BY <1>1, <1>2, <1>3, <1>4 DEF PricerStep

LEMMA TrailedHolds == StoreSpec => []Trailed
<1>1. Trailed /\ [StoreNext]_storeVars => Trailed'
  <2> SUFFICES ASSUME Trailed, [StoreNext]_storeVars PROVE Trailed'
    OBVIOUS
  <2>1. CASE UNCHANGED trailVars
    BY <2>1 DEF Trailed, Priceable, TrailExplainsPrice, trailVars
  <2> QED
    BY <2>1, StoreSteps, PricerTrailed
<1> QED
  BY <1>1, InitTrailed, PTL DEF StoreSpec

\* TrailExplainsPrice, however many administrators change the price at the same time.
THEOREM TrailExplainsPriceHolds == StoreSpec => []TrailExplainsPrice
<1>1. Trailed => TrailExplainsPrice
  BY DEF Trailed
<1> QED
  BY <1>1, TrailedHolds, PTL

\* FormKeepsPrice, whatever is typed and whoever changes the price: the stored price stays
\* in the range that PriceInput and ParsePrice lose nothing of.
THEOREM FormKeepsPriceHolds == StoreSpec => []FormKeepsPrice
<1>1. Trailed => FormKeepsPrice
  <2> SUFFICES ASSUME Trailed PROVE ParsePrice(PriceInput(price)) = price
    BY DEF FormKeepsPrice
  <2>1. PICK cents \in 0..MaxPriceCents : cents = price
    BY DEF Trailed, Priceable, PriceInRange
  <2> QED
    BY <2>1, FormReadBack
<1> QED
  BY <1>1, TrailedHolds, PTL

\* What was typed as a decimal and may be stored is that decimal.
LEMMA TypedRead ==
  ASSUME NEW typed \in Typed, PriceInRange(ParsePrice(typed)),
         IsDecimal(TrimDollar(TrimSpace(typed)))
  PROVE  ParsePrice(typed) = DecimalCents(TrimDollar(TrimSpace(typed)))
<1>1. PICK C : C = ToSet(typed) \cup {"."}
  OBVIOUS
<1>2. typed \in Seq(ToSet(typed)) /\ ToSet(typed) \subseteq C
  BY <1>1, TypedAssumption
<1>3. typed \in Seq(C) /\ "." \in C
  BY <1>1, <1>2, SeqMonotonic
<1>4. ParsePrice(typed) # unreadable
  BY PriceCapAssumption DEF PriceInRange, unreadable
<1> QED
  BY <1>3, <1>4, DecimalRead

\* TypedPriceStored, for any texts: only the holder of the row lock stores a price, and what
\* it stores it has read of its own text.
THEOREM TypedPriceStoredHolds == StoreSpec => TypedPriceStored
<1> DEFINE Says(a) == LET text == TrimDollar(TrimSpace(pricing[a].typed)) IN
                        pricing[a].phase = "locked" /\ price' # price /\ IsDecimal(text)
                          => price' = DecimalCents(text)
<1>1. Trailed /\ [StoreNext]_storeVars => [\A a \in Pricer : Says(a)]_trailVars
  <2> SUFFICES ASSUME Trailed, [StoreNext]_storeVars, NEW a \in Pricer,
                      pricing[a].phase = "locked", price' # price,
                      IsDecimal(TrimDollar(TrimSpace(pricing[a].typed)))
               PROVE  price' = DecimalCents(TrimDollar(TrimSpace(pricing[a].typed)))
    OBVIOUS
  <2>1. PICK b \in Pricer : PricerStep(b)
    BY StoreSteps DEF trailVars
  <2>2. ChangePrice(b)
    BY <2>1 DEF PricerStep, ProductPrice, LockProductForPrice, ChangePriceFails
  <2>3. b = a
    BY <2>2 DEF ChangePrice, Trailed, Priceable
  <2>4. PICK typed : typed = pricing[a].typed
    OBVIOUS
  <2>5. price' = ParsePrice(typed)
    BY <2>2, <2>3, <2>4 DEF ChangePrice
  <2>6. typed \in Typed /\ PriceInRange(ParsePrice(typed))
    BY <2>4 DEF Trailed, Priceable
  <2> QED
    BY <2>4, <2>5, <2>6, TypedRead
<1>2. StoreSpec => [][\A a \in Pricer : Says(a)]_trailVars
  BY <1>1, TrailedHolds, PTL DEF StoreSpec
<1> QED
  BY <1>2 DEF TypedPriceStored

-----------------------------------------------------------------------------
(* The settings.                                                           *)

\* What is being saved is what the form says, made a Duration and back, and validated.
Checked(s) == s.values = Submitted(s.typed) /\ Valid(s.values)

\* A save that has met no other one is alone, and what it has written is what is stored.
Saves ==
  /\ stored = [k \in Keys |-> stored[k]]
  /\ stored["shop_paused"] \in {Missing} \cup BOOLEAN
  /\ saving \in [Saver -> SaveInFlight \cup {NotSaving}]
  /\ \A a \in Saver : saving[a] # NotSaving /\ saving[a].alone =>
       /\ \A b \in Saver \ {a} : saving[b] = NotSaving
       /\ \A k \in Keys \ saving[a].todo : stored[k] = saving[a].values[k]
  /\ \A a \in Saver : saving[a] # NotSaving => Checked(saving[a])

LEMMA InitSaves == StoreInit => Saves
BY DEF StoreInit, SettingsInit, Saves, Keys

LEMMA SubmittedType == \A form \in Posted : Submitted(form) \in Values
<1> SUFFICES ASSUME NEW form \in Posted PROVE Submitted(form) \in Values
  OBVIOUS
<1>1. form \in Values /\ form.order_ttl_minutes \in Int
  BY ValuesAssumption DEF Values
<1>2. TTLMinutes(Duration(form.order_ttl_minutes)) \in Int
  <2> DEFINE m == form.order_ttl_minutes * Minute
             r == (m + HalfRange) % (2 * HalfRange)
  <2>1. r \in Int
    BY <1>1, RangeAssumption
  <2> HIDE DEF r
  <2>2. \A d \in Int : TTLMinutes(d) \in Int
    BY RangeAssumption DEF TTLMinutes
  <2> QED
    BY <2>1, <2>2, RangeAssumption DEF Duration, r
<1> QED
  BY <1>1, <1>2 DEF Submitted, Values

\* The whole minutes of so many minutes, where a Duration holds them, are those minutes.
LEMMA HeldMinutes ==
  \A minutes \in Int : Holds(minutes) => TTLMinutes(Duration(minutes)) = minutes
<1> SUFFICES ASSUME NEW minutes \in Int, Holds(minutes)
             PROVE  TTLMinutes(Duration(minutes)) = minutes
  OBVIOUS
<1>1. PICK d \in Int : d = minutes * Minute
  BY RangeAssumption
<1>2. d \in -HalfRange..HalfRange - 1
  BY <1>1 DEF Holds
<1>3. (d + HalfRange) % (2 * HalfRange) = d + HalfRange
  BY <1>2, RangeAssumption
<1>4. Duration(minutes) = d
  BY <1>1, <1>3, RangeAssumption DEF Duration
<1>5. \A m \in Nat, k \in Nat \ {0} : (m * k) \div k = m
  OBVIOUS
<1>6. CASE minutes >= 0
  <2>1. d >= 0
    BY <1>1, <1>6, RangeAssumption
  <2>2. d \div Minute = minutes
    BY <1>1, <1>5, <1>6, RangeAssumption
  <2> QED
    BY <1>4, <2>1, <2>2 DEF TTLMinutes
<1>7. CASE minutes < 0
  <2>1. d < 0 /\ -d = (-minutes) * Minute
    BY <1>1, <1>7, RangeAssumption
  <2>2. (-d) \div Minute = -minutes
    BY <1>5, <1>7, <2>1, RangeAssumption
  <2> QED
    BY <1>4, <2>1, <2>2 DEF TTLMinutes
<1> QED
  BY <1>6, <1>7

LEMMA FlightIsNotIdle == \A s \in SaveInFlight : s # NotSaving
<1> SUFFICES ASSUME NEW s \in SaveInFlight, s = NotSaving PROVE FALSE
  OBVIOUS
<1>1. "typed" \in DOMAIN s
  BY DEF SaveInFlight
<1>2. "typed" \notin DOMAIN NotSaving
  BY DEF NotSaving
<1> QED
  BY <1>1, <1>2

LEMMA SaverSaves ==
  ASSUME Saves, NEW a \in Saver, SaverStep(a)
  PROVE  Saves'
<1>1. ASSUME NEW form \in Posted, SettingsSave(a, form) PROVE Saves'
  <2> DEFINE lone == \A c \in Saver : saving[c] = NotSaving
             new == [typed |-> form, values |-> Submitted(form), todo |-> Keys, alone |-> lone]
  <2>0. Submitted(form) \in Values
    BY SubmittedType
  <2>1. new \in SaveInFlight /\ new.todo = Keys /\ (new.alone => lone) /\ Checked(new)
    BY <1>1, <2>0 DEF SaveInFlight, Checked, SettingsSave
  <2>2. ASSUME NEW b \in Saver, b # a
        PROVE  /\ saving'[b] \in SaveInFlight \cup {NotSaving}
               /\ saving'[b] = NotSaving \/ ~saving'[b].alone
               /\ saving[b] = NotSaving => saving'[b] = NotSaving
               /\ saving'[b] # NotSaving => Checked(saving'[b])
    <3>1. CASE saving[b] = NotSaving
      BY <1>1, <2>2, <3>1 DEF SettingsSave
    <3>2. CASE saving[b] # NotSaving
      <4>1. saving[b] \in SaveInFlight
        BY <3>2 DEF Saves
      <4>2. saving'[b] = [saving[b] EXCEPT !.alone = FALSE]
        BY <1>1, <2>2, <3>2 DEF SettingsSave
      <4> QED
        BY <3>2, <4>1, <4>2 DEF SaveInFlight, Checked, Saves
    <3> QED
      BY <3>1, <3>2
  <2>3. saving'[a] = new /\ stored' = stored /\ saving' = [b \in Saver |-> saving'[b]]
    BY <1>1 DEF SettingsSave
  <2> HIDE DEF new
  <2>4. saving' \in [Saver -> SaveInFlight \cup {NotSaving}]
    BY <2>1, <2>2, <2>3
  <2>5. saving'[a].alone => \A b \in Saver \ {a} : saving'[b] = NotSaving
    BY <2>1, <2>2, <2>3
  <2> QED
    BY <2>1, <2>2, <2>3, <2>4, <2>5 DEF Saves
<1>2. ASSUME NEW k \in Keys, SaveKey(a, k) PROVE Saves'
  <2> DEFINE left == saving[a].todo \ {k}
             new == [saving[a] EXCEPT !.todo = left]
  <2>1. saving[a] \in SaveInFlight /\ saving[a] # NotSaving
    BY <1>2, FlightIsNotIdle DEF SaveKey, Saves, NotSaving
  <2>2. /\ new \in SaveInFlight /\ new.todo = left
        /\ new.values = saving[a].values /\ new.alone = saving[a].alone /\ Checked(new)
    BY <2>1 DEF SaveInFlight, Saves, Checked
  <2>3. saving' = [saving EXCEPT ![a] = new]
    BY <1>2 DEF SaveKey
  <2> HIDE DEF new
  <2>4. /\ saving' \in [Saver -> SaveInFlight \cup {NotSaving}]
        /\ saving'[a] = new /\ \A b \in Saver : b # a => saving'[b] = saving[b]
    BY <2>2, <2>3 DEF Saves
  <2>5. /\ stored' = [j \in Keys |-> stored'[j]]
        /\ stored'[k] = saving[a].values[k] /\ \A j \in Keys : j # k => stored'[j] = stored[j]
    BY <1>2 DEF SaveKey, UpsertSetting, Saves
  <2>6. stored'["shop_paused"] \in {Missing} \cup BOOLEAN
    BY <2>1, <2>5 DEF Saves, SaveInFlight, Values, Keys
  <2>7. ASSUME NEW b \in Saver, saving'[b] # NotSaving, saving'[b].alone
        PROVE  /\ \A c \in Saver \ {b} : saving'[c] = NotSaving
               /\ \A j \in Keys \ saving'[b].todo : stored'[j] = saving'[b].values[j]
    <3>1. b = a
      BY <2>1, <2>4, <2>7 DEF Saves
    <3> QED
      BY <2>1, <2>2, <2>4, <2>5, <2>7, <3>1 DEF Saves
  <2>8. \A b \in Saver : saving'[b] # NotSaving => Checked(saving'[b])
    BY <2>2, <2>4 DEF Saves
  <2> QED
    BY <2>4, <2>5, <2>6, <2>7, <2>8 DEF Saves
<1>3. CASE SaveDone(a) \/ SaveFails(a)
  <2>1. stored' = stored /\ saving' = [saving EXCEPT ![a] = NotSaving]
    BY <1>3 DEF SaveDone, SaveFails
  <2> QED
    BY <2>1 DEF Saves
<1> QED
  BY <1>1, <1>2, <1>3 DEF SaverStep

LEMMA SavesHold == StoreSpec => []Saves
<1>1. Saves /\ [StoreNext]_storeVars => Saves'
  <2> SUFFICES ASSUME Saves, [StoreNext]_storeVars PROVE Saves'
    OBVIOUS
  <2>1. CASE UNCHANGED settingsVars
    BY <2>1 DEF Saves, settingsVars
  <2> QED
    BY <2>1, StoreSteps, SaverSaves
<1> QED
  BY <1>1, InitSaves, PTL DEF StoreSpec

\* LoneSaveIsStored, whatever was stored before and in whatever order the keys are written.
THEOREM LoneSaveIsStoredHolds == StoreSpec => LoneSaveIsStored
<1> DEFINE Stored(a) ==
      LET typed == saving[a].typed
      IN  /\ ShippingCents = typed.shipping_cents /\ Paused = typed.shop_paused
          /\ OrderTTL \in MinTTL..MaxTTL
          /\ Holds(typed.order_ttl_minutes) => OrderTTL = typed.order_ttl_minutes
<1>1. ASSUME Saves, NEW a \in Saver, saving[a] # NotSaving, saving[a].todo = {}, saving[a].alone
      PROVE  Stored(a)
  <2>1. PICK form \in Posted :
          /\ saving[a].typed = form /\ saving[a].values = Submitted(form)
          /\ Valid(Submitted(form))
    BY <1>1 DEF Saves, SaveInFlight, Checked
  <2>2. \A k \in Keys : ReadValue(k) = Submitted(form)[k]
    BY <1>1, <2>1, MissingAssumption DEF Saves, ReadValue
  <2>3. /\ form \in Values
        /\ Submitted(form).shipping_cents = form.shipping_cents
        /\ Submitted(form).shop_paused = form.shop_paused
        /\ Submitted(form).order_ttl_minutes = TTLMinutes(Duration(form.order_ttl_minutes))
    BY ValuesAssumption DEF Submitted, Values
  <2>4. Holds(form.order_ttl_minutes)
          => Submitted(form).order_ttl_minutes = form.order_ttl_minutes
    BY <2>3, HeldMinutes DEF Values
  <2> QED
    BY <2>1, <2>2, <2>3, <2>4 DEF ShippingCents, Paused, OrderTTL, Keys, Valid
<1>2. Saves => [\A a \in Saver :
         /\ saving[a] # NotSaving /\ saving[a].todo = {} /\ saving[a].alone
         /\ saving'[a] = NotSaving
         => Stored(a)]_settingsVars
  BY <1>1
<1> QED
  BY <1>2, SavesHold, PTL DEF LoneSaveIsStored

-----------------------------------------------------------------------------
(* Tabs: what a step leaves of the requests in flight.                     *)

TabsShaped ==
  /\ tab = [t \in Tab |-> tab[t]]
  /\ \A t \in Tab : "phase" \in DOMAIN tab[t]

LEMMA BeginsTab ==
  ASSUME TabsShaped, NEW t \in Tab, NEW q, Begins(t, q)
  PROVE  /\ tab' = [u \in Tab |-> tab'[u]] /\ tab'[t] = q
         /\ \A u \in Tab \ {t} :
              /\ DOMAIN tab'[u] = DOMAIN tab[u]
              /\ \A f \in DOMAIN tab[u] : f # "alone" => tab'[u][f] = tab[u][f]
<1>1. ASSUME NEW u \in Tab \ {t}
      PROVE  /\ DOMAIN tab'[u] = DOMAIN tab[u]
             /\ \A f \in DOMAIN tab[u] : f # "alone" => tab'[u][f] = tab[u][f]
  <2>1. tab'[u] = Disturbed(u)
    BY DEF Begins
  <2> QED
    BY <2>1 DEF Disturbed
<1> QED
  BY <1>1 DEF Begins

LEMMA GoesTab ==
  ASSUME TabsShaped, NEW t \in Tab, NEW q, Goes(t, q)
  PROVE  /\ tab' = [u \in Tab |-> tab'[u]] /\ tab'[t] = q
         /\ \A u \in Tab \ {t} : tab'[u] = tab[u]
BY DEF Goes, TabsShaped

LEMMA ResumedTab ==
  ASSUME TabsShaped, Resumed
  PROVE  /\ tab' = [u \in Tab |-> tab'[u]]
         /\ \A u \in Tab :
              /\ DOMAIN tab'[u] = DOMAIN tab[u]
              /\ \A f \in DOMAIN tab[u] : f # "paused" => tab'[u][f] = tab[u][f]
              /\ "paused" \in DOMAIN tab[u] => tab'[u]["paused"] = (tab[u].paused /\ Paused')
<1>1. ASSUME NEW u \in Tab
      PROVE  /\ DOMAIN tab'[u] = DOMAIN tab[u]
             /\ \A f \in DOMAIN tab[u] : f # "paused" => tab'[u][f] = tab[u][f]
             /\ "paused" \in DOMAIN tab[u] => tab'[u]["paused"] = (tab[u].paused /\ Paused')
  <2>1. tab'[u] = IF "paused" \in DOMAIN tab[u]
                  THEN [tab[u] EXCEPT !.paused = tab[u].paused /\ Paused'] ELSE tab[u]
    BY DEF Resumed
  <2> QED
    BY <2>1
<1> QED
  BY <1>1 DEF Resumed


\* A step of one tab leaves the requests of the others as they are, but for the mark
\* that they are no longer alone.
LEMMA OthersKept ==
  ASSUME TabsShaped, NEW t \in Tab, TabStep(t)
  PROVE  /\ TabsShaped'
         /\ \A u \in Tab \ {t} :
              /\ DOMAIN tab'[u] = DOMAIN tab[u]
              /\ \A f \in DOMAIN tab[u] : f # "alone" => tab'[u][f] = tab[u][f]
<1>1. \E q : "phase" \in DOMAIN q /\ (Begins(t, q) \/ Goes(t, q))
  <2>1. ASSUME NEW v \in Variant, NEW q \in 0..MaxQty + 1, AddItem(t, v, q)
        PROVE  \E r : "phase" \in DOMAIN r /\ Begins(t, r)
    BY <2>1 DEF AddItem, Refusal
  <2>2. CASE ReadQty(t) \/ WriteLine(t)
    BY <2>2 DEF ReadQty, WriteLine, Refusal, Success
  <2>3. ASSUME NEW i \in DOMAIN items, NEW q \in Qty, UpdateItem(t, i, q)
        PROVE  \E r : "phase" \in DOMAIN r /\ Begins(t, r)
    BY <2>3 DEF UpdateItem
  <2>4. CASE Checkout(t) \/ Totals(t) \/ PlaceOrder(t)
    BY <2>4 DEF Checkout, Totals, PlaceOrder
  <2>5. CASE ReadPaused(t)
    <3>1. Goes(t, [tab[t] EXCEPT !.phase = "placing"]) \/ Ends(t)
      BY <2>5 DEF ReadPaused
    <3> QED
      BY <3>1 DEF Ends, Idle, TabsShaped
  <2>6. CASE AddAnswered(t) \/ AnswerLost(t) \/ SetQty(t) \/ CheckoutFails(t) \/ CheckoutAnswered(t)
    BY <2>6 DEF AddAnswered, AnswerLost, SetQty, CheckoutFails, CheckoutAnswered, Ends, Idle
  <2>7. ASSUME NEW i \in DOMAIN items, RemoveItem(t, i)
        PROVE  \E r : "phase" \in DOMAIN r /\ Begins(t, r)
    BY <2>7 DEF RemoveItem, Idle
  <2> QED
    BY <2>1, <2>2, <2>3, <2>4, <2>5, <2>6, <2>7 DEF TabStep
<1>2. PICK q : "phase" \in DOMAIN q /\ (Begins(t, q) \/ Goes(t, q))
  BY <1>1
<1>3. /\ tab' = [u \in Tab |-> tab'[u]] /\ tab'[t] = q
      /\ \A u \in Tab \ {t} :
           /\ DOMAIN tab'[u] = DOMAIN tab[u]
           /\ \A f \in DOMAIN tab[u] : f # "alone" => tab'[u][f] = tab[u][f]
  BY <1>2, BeginsTab, GoesTab
<1>4. TabsShaped'
  BY <1>2, <1>3 DEF TabsShaped
<1> QED
  BY <1>3, <1>4

-----------------------------------------------------------------------------
(* The pause.                                                              *)

\* A checkout that has found the shop paused since it began finds it paused still, and
\* none of these gets as far as placing.
Pausing ==
  /\ TabsShaped
  /\ \A t \in Tab : tab[t].phase \in {"pricing", "deciding", "placing"} =>
       /\ "paused" \in DOMAIN tab[t]
       /\ tab[t].paused => Paused /\ tab[t].phase # "placing"

LEMMA InitPausing == StoreInit => Pausing
BY DEF StoreInit, Pausing, TabsShaped, Idle

LEMMA TabPausing ==
  ASSUME Pausing, NEW t \in Tab, TabStep(t), UNCHANGED settingsVars
  PROVE  Pausing'
<1> DEFINE Checking(r) == r.phase \in {"pricing", "deciding", "placing"}
           Told(r) == /\ "paused" \in DOMAIN r
                      /\ r.paused => Paused /\ r.phase # "placing"
<1>1. Paused' = Paused
  BY DEF Paused, ReadValue, settingsVars
<1>2. ASSUME NEW u \in Tab \ {t}, Checking(tab'[u]) PROVE Told(tab'[u])
  BY <1>2, OthersKept DEF Pausing, TabsShaped
<1>3. ASSUME Checking(tab'[t]) PROVE Told(tab'[t])
  <2>1. ASSUME NEW v \in Variant, NEW q \in 0..MaxQty + 1, AddItem(t, v, q)
        PROVE  ~Checking(tab'[t])
    BY <2>1, BeginsTab DEF AddItem, Refusal, Pausing
  <2>2. CASE ReadQty(t) \/ WriteLine(t)
    BY <1>3, <2>2, GoesTab DEF ReadQty, WriteLine, Refusal, Success, Pausing
  <2>3. ASSUME NEW i \in DOMAIN items, NEW q \in Qty, UpdateItem(t, i, q)
        PROVE  ~Checking(tab'[t])
    BY <2>3, BeginsTab DEF UpdateItem, Pausing
  <2>4. CASE Checkout(t)
    BY <2>4, BeginsTab DEF Checkout, Pausing
  <2>5. CASE Totals(t)
    BY <2>5, GoesTab DEF Totals, Pausing
  <2>6. CASE ReadPaused(t)
    <3> DEFINE new == [tab[t] EXCEPT !.phase = "placing"]
    <3>1. "paused" \in DOMAIN tab[t] /\ (tab[t].paused => Paused)
      BY <2>6 DEF ReadPaused, Pausing
    <3>2. "paused" \in DOMAIN new /\ new.paused = tab[t].paused
      BY <3>1
    <3>3. (~Paused /\ Goes(t, new)) \/ Ends(t)
      BY <2>6 DEF ReadPaused
    <3> HIDE DEF new
    <3>4. CASE ~Paused /\ Goes(t, new)
      BY <3>1, <3>2, <3>4, GoesTab DEF Pausing
    <3>5. CASE Ends(t)
      BY <1>3, <3>5, GoesTab DEF Pausing, Ends, Idle
    <3> QED
      BY <3>3, <3>4, <3>5
  <2>7. CASE PlaceOrder(t)
    BY <1>3, <2>7, GoesTab DEF PlaceOrder, Pausing
  <2>8. CASE AddAnswered(t) \/ AnswerLost(t) \/ SetQty(t) \/ CheckoutFails(t) \/ CheckoutAnswered(t)
    <3>1. Goes(t, Idle)
      BY <2>8 DEF AddAnswered, AnswerLost, SetQty, CheckoutFails, CheckoutAnswered, Ends
    <3> QED
      BY <1>3, <3>1, GoesTab DEF Idle, Pausing
  <2>9. ASSUME NEW i \in DOMAIN items, RemoveItem(t, i)
        PROVE  ~Checking(tab'[t])
    BY <2>9, BeginsTab DEF RemoveItem, Idle, Pausing
  <2> QED
    BY <1>3, <2>1, <2>2, <2>3, <2>4, <2>5, <2>6, <2>7, <2>8, <2>9 DEF TabStep
<1> QED
  BY <1>1, <1>2, <1>3, OthersKept DEF Pausing

LEMMA SaverPausing ==
  ASSUME Pausing, Resumed
  PROVE  Pausing'
<1>1. ASSUME NEW u \in Tab
      PROVE  /\ "phase" \in DOMAIN tab'[u] /\ tab'[u].phase = tab[u].phase
             /\ "paused" \in DOMAIN tab[u] =>
                  /\ "paused" \in DOMAIN tab'[u]
                  /\ tab'[u].paused => tab[u].paused /\ Paused'
  BY ResumedTab DEF Pausing, TabsShaped
<1>2. tab' = [u \in Tab |-> tab'[u]]
  BY ResumedTab DEF Pausing
<1> QED
  BY <1>1, <1>2 DEF Pausing, TabsShaped

LEMMA PausingHolds == StoreSpec => []Pausing
<1>1. Pausing /\ [StoreNext]_storeVars => Pausing'
  <2> SUFFICES ASSUME Pausing, [StoreNext]_storeVars PROVE Pausing'
    OBVIOUS
  <2>1. CASE UNCHANGED <<settingsVars, tab>>
    BY <2>1 DEF Pausing, TabsShaped, Paused, ReadValue, settingsVars
  <2> QED
    BY <2>1, StoreSteps, TabPausing, SaverPausing DEF shopVars
<1> QED
  BY <1>1, InitPausing, PTL DEF StoreSpec

\* PauseStopsLaterCheckouts, however the saves of the flag and the checkouts interleave.
THEOREM PauseStopsLaterCheckoutsHolds == StoreSpec => PauseStopsLaterCheckouts
<1>1. Pausing => [\A t \in Tab :
         tab[t].phase = "placing" /\ tab'[t].phase = "invoicing" => ~tab[t].paused]_storeVars
  BY DEF Pausing
<1> QED
  BY <1>1, PausingHolds, PTL DEF PauseStopsLaterCheckouts

-----------------------------------------------------------------------------
(* Orders: what they charge.                                               *)

OrderFields == {"cart", "lines", "shipping", "total", "redirected"}

OrdersShaped ==
  /\ \E S : orders \in Seq(S)
  /\ \A i \in DOMAIN orders : OrderFields \subseteq DOMAIN orders[i]

LEMMA AppendShape ==
  ASSUME NEW S, NEW s \in Seq(S), NEW x
  PROVE  /\ Append(s, x) \in Seq(S \cup {x})
         /\ DOMAIN Append(s, x) = DOMAIN s \cup {Len(s) + 1}
         /\ \A i \in DOMAIN s : Append(s, x)[i] = s[i]
         /\ Append(s, x)[Len(s) + 1] = x
<1>1. s \in Seq(S \cup {x})
  OBVIOUS
<1>2. Append(s, x) \in Seq(S \cup {x}) /\ Len(Append(s, x)) = Len(s) + 1
  BY <1>1
<1>3. /\ \A i \in 1..Len(s) : Append(s, x)[i] = s[i]
      /\ Append(s, x)[Len(s) + 1] = x
  BY <1>1
<1>4. DOMAIN Append(s, x) = 1..(Len(s) + 1) /\ DOMAIN s = 1..Len(s) /\ Len(s) \in Nat
  BY <1>1, <1>2
<1> QED
  BY <1>2, <1>3, <1>4

\* An order is placed behind the others; marking one redirected changes nothing else.
LEMMA OrderPlaced ==
  ASSUME OrdersShaped, NEW t \in Tab, PlaceOrder(t)
  PROVE  /\ OrdersShaped'
         /\ \A i \in DOMAIN orders' :
              \/ i \in DOMAIN orders /\ orders'[i] = orders[i]
              \/ orders'[i] = OrderOf(tab[t])
<1>1. PICK S : orders \in Seq(S)
  BY DEF OrdersShaped
<1>2. orders' = Append(orders, OrderOf(tab[t]))
  BY DEF PlaceOrder
<1>3. OrderFields \subseteq DOMAIN OrderOf(tab[t])
  BY DEF OrderFields, OrderOf
<1>4. /\ orders' \in Seq(S \cup {OrderOf(tab[t])})
      /\ \A i \in DOMAIN orders' :
              \/ i \in DOMAIN orders /\ orders'[i] = orders[i]
              \/ orders'[i] = OrderOf(tab[t])
  BY <1>1, <1>2, AppendShape
<1> QED
  BY <1>3, <1>4 DEF OrdersShaped

LEMMA OrderRedirected ==
  ASSUME OrdersShaped, NEW t \in Tab, CheckoutAnswered(t)
  PROVE  /\ OrdersShaped' /\ DOMAIN orders' = DOMAIN orders
         /\ \A i \in DOMAIN orders, f \in OrderFields :
              f # "redirected" => orders'[i][f] = orders[i][f]
<1> DEFINE k == tab[t].order
           new == [orders[k] EXCEPT !.redirected = TRUE]
<1>1. PICK S : orders \in Seq(S)
  BY DEF OrdersShaped
<1>2. orders' = [orders EXCEPT ![k] = new]
  BY DEF CheckoutAnswered
<1>3. /\ DOMAIN new = DOMAIN orders[k]
      /\ \A f \in DOMAIN orders[k] : f # "redirected" => new[f] = orders[k][f]
  OBVIOUS
<1> HIDE DEF new, k
<1>4. orders \in Seq(S \cup {new})
  BY <1>1
<1>5. orders' \in Seq(S \cup {new})
  <2>1. Len(orders) \in Nat /\ orders \in [1..Len(orders) -> S \cup {new}]
    BY <1>4
  <2>2. orders' \in [1..Len(orders) -> S \cup {new}]
    BY <1>2, <2>1
  <2> QED
    BY <2>1, <2>2, SeqDef
<1>6. /\ DOMAIN orders' = DOMAIN orders
      /\ \A i \in DOMAIN orders : orders'[i] = IF i = k THEN new ELSE orders[i]
  BY <1>2
<1> QED
  BY <1>3, <1>5, <1>6 DEF OrdersShaped

\* The prices the product has had so far.
Known == {FirstPrice} \cup {trail[k].new : k \in DOMAIN trail}

LEMMA PriceKnown == Trailed => price \in Known
<1> SUFFICES ASSUME Trailed PROVE price \in Known
  OBVIOUS
<1>1. trail \in Seq(Change)
  BY DEF Trailed, Priceable
<1>2. trail # <<>> => Len(trail) \in DOMAIN trail
  BY <1>1
<1> QED
  BY <1>2 DEF Known, Trailed, TrailExplainsPrice

LEMMA KnownStay ==
  ASSUME Trailed, NEW a \in Pricer, PricerStep(a)
  PROVE  Known \subseteq Known'
<1>1. CASE ChangePrice(a)
  <2>1. PICK e : trail' = Append(trail, e)
    BY <1>1 DEF ChangePrice
  <2>2. trail \in Seq(Change)
    BY DEF Trailed, Priceable
  <2>3. \A i \in DOMAIN trail : i \in DOMAIN trail' /\ trail'[i] = trail[i]
    BY <2>1, <2>2, AppendShape
  <2> QED
    BY <2>3 DEF Known
<1>2. CASE trail' = trail
  BY <1>2 DEF Known
<1> QED
  BY <1>1, <1>2 DEF PricerStep, ProductPrice, LockProductForPrice, ChangePriceFails

\* A checkout carries prices the product has had, and from Totals on their sum.
AddsUp(r) ==
  /\ r.phase \in {"pricing", "deciding", "placing"} =>
       "lines" \in DOMAIN r /\ \A l \in r.lines : l.unit \in Known
  /\ r.phase \in {"deciding", "placing"} =>
       {"shipping", "total"} \subseteq DOMAIN r /\ r.total = Subtotal(r.lines) + r.shipping

AddingUp ==
  /\ TabsShaped /\ OrdersShaped
  /\ \A t \in Tab : AddsUp(tab[t])
  /\ OrderAddsUp

LEMMA InitAddingUp == StoreInit => AddingUp
<1> SUFFICES ASSUME StoreInit PROVE AddingUp
  OBVIOUS
<1>1. orders \in Seq({}) /\ DOMAIN orders = {}
  BY DEF StoreInit
<1>2. TabsShaped /\ \A t \in Tab : AddsUp(tab[t])
  BY DEF StoreInit, TabsShaped, Idle, AddsUp
<1> QED
  BY <1>1, <1>2 DEF AddingUp, OrdersShaped, OrderAddsUp

LEMMA TabAddsUp ==
  ASSUME Trailed, AddingUp, NEW t \in Tab, TabStep(t)
  PROVE  AddsUp(tab'[t])
<1>1. ASSUME NEW v \in Variant, NEW q \in 0..MaxQty + 1, AddItem(t, v, q)
      PROVE  tab'[t].phase \in {"counting", "answering"}
  BY <1>1, BeginsTab DEF AddItem, Refusal, AddingUp
<1>2. CASE ReadQty(t) \/ WriteLine(t)
  <2>1. tab'[t].phase \in {"writing", "answering"}
    BY <1>2, GoesTab DEF ReadQty, WriteLine, Refusal, Success, AddingUp
  <2> QED
    BY <2>1 DEF AddsUp
<1>3. ASSUME NEW i \in DOMAIN items, NEW q \in Qty, UpdateItem(t, i, q)
      PROVE  tab'[t].phase = "setting"
  BY <1>3, BeginsTab DEF UpdateItem, AddingUp
<1>4. CASE Checkout(t)
  <2>1. \A l \in Priced(cartCookie) : l.unit = price
    BY DEF Priced
  <2>2. /\ tab'[t].phase = "pricing" /\ "lines" \in DOMAIN tab'[t]
        /\ tab'[t].lines = Priced(cartCookie)
    BY <1>4, BeginsTab DEF Checkout, AddingUp
  <2> QED
    BY <2>1, <2>2, PriceKnown DEF AddsUp
<1>5. CASE Totals(t)
  BY <1>5, GoesTab DEF Totals, AddingUp, AddsUp
<1>6. CASE ReadPaused(t)
  <2> DEFINE new == [tab[t] EXCEPT !.phase = "placing"]
  <2>1. AddsUp(tab[t]) /\ tab[t].phase = "deciding"
    BY <1>6 DEF ReadPaused, AddingUp
  <2>2. DOMAIN new = DOMAIN tab[t] /\ \A f \in DOMAIN tab[t] : f # "phase" => new[f] = tab[t][f]
    OBVIOUS
  <2>3. Goes(t, new) \/ Goes(t, Idle)
    BY <1>6 DEF ReadPaused, Ends
  <2> HIDE DEF new
  <2>4. AddsUp(new)
    BY <2>1, <2>2 DEF AddsUp
  <2> QED
    BY <2>3, <2>4, GoesTab DEF AddsUp, Idle, AddingUp
<1>7. CASE PlaceOrder(t)
  <2>1. tab'[t].phase = "invoicing"
    BY <1>7, GoesTab DEF PlaceOrder, AddingUp
  <2> QED
    BY <2>1 DEF AddsUp
<1>8. CASE AddAnswered(t) \/ AnswerLost(t) \/ SetQty(t) \/ CheckoutFails(t) \/ CheckoutAnswered(t)
  <2>1. tab'[t] = Idle
    BY <1>8, GoesTab DEF AddAnswered, AnswerLost, SetQty, CheckoutFails, CheckoutAnswered, Ends,
                         AddingUp
  <2> QED
    BY <2>1 DEF Idle, AddsUp
<1>9. ASSUME NEW i \in DOMAIN items, RemoveItem(t, i)
      PROVE  tab'[t] = Idle
  BY <1>9, BeginsTab DEF RemoveItem, AddingUp
<1>10. \A r : r.phase \in {"counting", "answering", "setting", "idle"} => AddsUp(r)
  BY DEF AddsUp
<1> QED
  BY <1>1, <1>2, <1>3, <1>4, <1>5, <1>6, <1>7, <1>8, <1>9, <1>10 DEF TabStep, Idle

LEMMA TabAddingUp ==
  ASSUME Trailed, AddingUp, NEW t \in Tab, TabStep(t), UNCHANGED trailVars
  PROVE  AddingUp'
<1>1. Known' = Known
  BY DEF Known, trailVars
<1>2. ASSUME NEW u \in Tab PROVE AddsUp(tab[u])'
  <2>1. CASE u = t
    BY <1>1, <2>1, TabAddsUp DEF AddsUp
  <2>2. CASE u # t
    <3>1. /\ AddsUp(tab[u]) /\ "phase" \in DOMAIN tab[u]
          /\ DOMAIN tab'[u] = DOMAIN tab[u]
          /\ \A f \in DOMAIN tab[u] : f # "alone" => tab'[u][f] = tab[u][f]
      BY <2>2, OthersKept DEF AddingUp, TabsShaped
    <3> QED
      BY <1>1, <3>1 DEF AddsUp
  <2> QED
    BY <2>1, <2>2
<1>3. OrdersShaped' /\ OrderAddsUp'
  <2>1. CASE PlaceOrder(t)
    <3>1. /\ \A l \in tab[t].lines : l.unit \in Known
          /\ tab[t].total = Subtotal(tab[t].lines) + tab[t].shipping
      BY <2>1 DEF AddingUp, AddsUp, PlaceOrder
    <3>2. /\ OrderOf(tab[t]).total = Subtotal(OrderOf(tab[t]).lines) + OrderOf(tab[t]).shipping
          /\ \A l \in OrderOf(tab[t]).lines : l.unit \in Known
      BY <3>1 DEF OrderOf
    <3>3. ASSUME NEW i \in DOMAIN orders'
          PROVE  /\ orders'[i].total = Subtotal(orders'[i].lines) + orders'[i].shipping
                 /\ \A l \in orders'[i].lines : l.unit \in Known
      BY <2>1, <3>2, OrderPlaced DEF AddingUp, OrderAddsUp, Known
    <3> QED
      BY <1>1, <2>1, <3>3, OrderPlaced DEF OrderAddsUp, AddingUp, Known
  <2>2. CASE CheckoutAnswered(t)
    BY <1>1, <2>2, OrderRedirected DEF OrderAddsUp, AddingUp, Known, OrderFields
  <2>3. CASE orders' = orders
    BY <1>1, <2>3 DEF OrderAddsUp, AddingUp, Known, OrdersShaped
  <2> QED
    BY <2>1, <2>2, <2>3
       DEF TabStep, AddItem, ReadQty, WriteLine, AddAnswered, AnswerLost, UpdateItem, SetQty,
           RemoveItem, Checkout, Totals, ReadPaused, CheckoutFails
<1> QED
  BY <1>2, <1>3, OthersKept DEF AddingUp

LEMMA AddingUpStep ==
  ASSUME Trailed, AddingUp, [StoreNext]_storeVars
  PROVE  AddingUp'
<1>1. CASE \E t \in Tab : TabStep(t) /\ UNCHANGED <<settingsVars, trailVars>>
  BY <1>1, TabAddingUp
<1>2. CASE \E a \in Saver : SaverStep(a) /\ Resumed /\ UNCHANGED <<cartVars, trailVars, available, cartCookie, orders>>
  <2>1. /\ tab' = [u \in Tab |-> tab'[u]]
        /\ \A u \in Tab :
             /\ DOMAIN tab'[u] = DOMAIN tab[u]
             /\ \A f \in DOMAIN tab[u] : f # "paused" => tab'[u][f] = tab[u][f]
    BY <1>2, ResumedTab DEF AddingUp
  <2>2. TabsShaped' /\ Known' = Known /\ orders' = orders
    BY <1>2, <2>1 DEF AddingUp, TabsShaped, Known, trailVars
  <2>3. ASSUME NEW u \in Tab PROVE AddsUp(tab[u])'
    <3>1. AddsUp(tab[u]) /\ "phase" \in DOMAIN tab[u]
      BY DEF AddingUp, TabsShaped
    <3> QED
      BY <2>1, <2>2, <3>1 DEF AddsUp
  <2> QED
    BY <2>2, <2>3 DEF AddingUp, OrdersShaped, OrderAddsUp, Known
<1>3. CASE \E a \in Pricer : PricerStep(a) /\ UNCHANGED <<cartVars, settingsVars, shopVars>>
  <2>1. Known \subseteq Known' /\ tab' = tab /\ orders' = orders
    BY <1>3, KnownStay DEF shopVars
  <2>2. ASSUME NEW u \in Tab PROVE AddsUp(tab[u])'
    <3>1. AddsUp(tab[u])
      BY DEF AddingUp
    <3> QED
      BY <2>1, <3>1 DEF AddsUp
  <2> QED
    BY <2>1, <2>2 DEF AddingUp, OrdersShaped, TabsShaped, OrderAddsUp, Known
<1>4. CASE UNCHANGED <<cartVars, settingsVars, trailVars, cartCookie, tab, orders>>
  BY <1>4 DEF AddingUp, AddsUp, OrdersShaped, TabsShaped, OrderAddsUp, Known, trailVars
<1> QED
  BY <1>1, <1>2, <1>3, <1>4, StoreSteps

\* OrderAddsUp, whatever the office changes between the view and the order.
THEOREM OrderAddsUpHolds == StoreSpec => []OrderAddsUp
<1>1. AddingUp => OrderAddsUp
  BY DEF AddingUp
<1>2. Trailed /\ AddingUp /\ [StoreNext]_storeVars => AddingUp'
  BY AddingUpStep
<1> QED
  BY <1>1, <1>2, InitAddingUp, TrailedHolds, PTL DEF StoreSpec

-----------------------------------------------------------------------------
(* Carts: which request carries which.                                     *)

\* A row that is not deleted is a line of a cart that was opened.
RowFields == {"cart", "variant", "qty"}
Line(row) == row # gone => row.cart \in carts /\ RowFields \subseteq DOMAIN row
Rows ==
  /\ \E S : items \in Seq(S)
  /\ \A i \in DOMAIN items :
       "cart" \in DOMAIN items[i] /\ Line(items[i])

LEMMA RowChanged ==
  ASSUME Rows, NEW k \in DOMAIN items, NEW row,
         "cart" \in DOMAIN row, Line(row),
         items' = [items EXCEPT ![k] = row], carts' = carts
  PROVE  Rows'
<1>1. PICK S : items \in Seq(S)
  BY DEF Rows
<1>2. items \in Seq(S \cup {row})
  BY <1>1
<1>3. Len(items) \in Nat /\ items \in [1..Len(items) -> S \cup {row}]
  BY <1>2
<1>4. items' \in [1..Len(items) -> S \cup {row}]
  BY <1>3
<1>5. items' \in Seq(S \cup {row})
  BY <1>3, <1>4, SeqDef
<1>6. /\ DOMAIN items' = DOMAIN items
      /\ \A i \in DOMAIN items : items'[i] = IF i = k THEN row ELSE items[i]
  OBVIOUS
<1> QED
  BY <1>5, <1>6 DEF Rows, Line

LEMMA QtyChanged ==
  ASSUME Rows, NEW c, NEW k \in ListCartItems(c), NEW q,
         items' = [items EXCEPT ![k].qty = q], carts' = carts
  PROVE  Rows'
<1> DEFINE row == [items[k] EXCEPT !.qty = q]
<1>1. k \in DOMAIN items /\ items[k] # gone
  BY DEF ListCartItems
<1>2. "cart" \in DOMAIN row /\ row.cart = items[k].cart /\ RowFields \subseteq DOMAIN row
  BY <1>1 DEF Rows, Line
<1>3. items' = [items EXCEPT ![k] = row]
  OBVIOUS
<1> HIDE DEF row
<1>4. Line(row)
  BY <1>1, <1>2 DEF Rows, Line
<1> QED
  BY <1>1, <1>2, <1>3, <1>4, RowChanged

LEMMA RowsStay ==
  ASSUME Rows, NEW t \in Tab, TabStep(t),
         tab[t].phase = "writing" => tab[t].cart \in carts
  PROVE  Rows'
<1>1. CASE WriteLine(t)
  <2> DEFINE r == tab[t]
             found == GetCartItemByVariant(r.cart, r.variant)
             row == [cart |-> r.cart, variant |-> r.variant, qty |-> r.wanted]
  <2>1. /\ items' = InsertCartItem(r.cart, r.variant, r.wanted)
        /\ r.cart \in carts /\ carts' = carts
    BY <1>1 DEF WriteLine
  <2>2. CASE found = {}
    <3>1. items' = Append(items, row)
      BY <2>1, <2>2 DEF InsertCartItem
    <3>2. "cart" \in DOMAIN row /\ Line(row)
      BY <2>1 DEF Line, RowFields
    <3>3. PICK S : items \in Seq(S)
      BY DEF Rows
    <3> HIDE DEF row
    <3>4. /\ items' \in Seq(S \cup {row})
          /\ \A i \in DOMAIN items' : (i \in DOMAIN items /\ items'[i] = items[i]) \/ items'[i] = row
      BY <3>1, <3>3, AppendShape
    <3> QED
      BY <2>1, <3>2, <3>4 DEF Rows, Line
  <2>3. CASE found # {}
    <3>1. PICK k \in found : k = CHOOSE i \in found : TRUE
      BY <2>3
    <3>2. k \in ListCartItems(r.cart)
      BY <3>1 DEF GetCartItemByVariant
    <3>3. items' = [items EXCEPT ![k].qty = r.wanted]
      BY <2>1, <2>3, <3>1 DEF InsertCartItem
    <3> QED
      BY <2>1, <3>2, <3>3, QtyChanged
  <2> QED
    BY <2>2, <2>3
<1>2. CASE SetQty(t)
  <2>1. items' = UpdateCartItemQty(tab[t].cart, tab[t].item, tab[t].qty) /\ carts' = carts
    BY <1>2 DEF SetQty
  <2>2. CASE OwnedBy(tab[t].cart, tab[t].item)
    BY <2>1, <2>2, QtyChanged DEF UpdateCartItemQty, OwnedBy
  <2>3. CASE ~OwnedBy(tab[t].cart, tab[t].item)
    BY <2>1, <2>3 DEF UpdateCartItemQty, Rows, Line
  <2> QED
    BY <2>2, <2>3
<1>3. ASSUME NEW i \in DOMAIN items, RemoveItem(t, i)
      PROVE  Rows'
  <2>1. /\ items' = items \/ items' = [items EXCEPT ![i] = gone]
        /\ carts' = carts
    BY <1>3 DEF RemoveItem, DeleteCartItem
  <2>2. "cart" \in DOMAIN gone
    BY DEF gone
  <2> QED
    BY <2>1, <2>2, RowChanged DEF Rows, Line
<1>4. CASE items' = items /\ carts \subseteq carts'
  BY <1>4 DEF Rows, Line
<1> QED
  BY <1>1, <1>2, <1>3, <1>4
     DEF TabStep, AddItem, ReadQty, AddAnswered, AnswerLost, UpdateItem, Checkout, Totals,
         ReadPaused, PlaceOrder, CheckoutFails, CheckoutAnswered, cartVars

Carrying(r) == r.phase \in {"counting", "writing", "answering"}
HasCart(r) == Carrying(r) \/ r.phase \in {"pricing", "deciding", "placing"}
Sets(r) == Carrying(r) /\ r.sets

\* A cart that was opened for a request and is still on its way to the browser is known
\* to that request alone.
Fresh(t) ==
  /\ tab[t].cart # cartCookie
  /\ \A i \in DOMAIN orders : orders[i].cart # tab[t].cart
  /\ \A u \in Tab \ {t} : HasCart(tab[u]) => tab[u].cart # tab[t].cart

Carted(r) ==
  /\ HasCart(r) => "cart" \in DOMAIN r /\ r.cart \in carts
  /\ Carrying(r) => "sets" \in DOMAIN r

CartsOpened == carts \subseteq CartId /\ \E n \in Nat : carts = 1..n

Spending ==
  /\ TabsShaped /\ OrdersShaped /\ Rows /\ CartsOpened
  /\ cartCookie \in carts \cup {NoCart}
  /\ \A t \in Tab : Carted(tab[t])
  /\ \A t \in Tab : Sets(tab[t]) => Fresh(t)
  /\ \A i \in DOMAIN orders : orders[i].cart \in carts
  /\ SpentCartIsGone

\* No cart id is drawn twice.
LEMMA NextCartNew ==
  ASSUME CartsOpened, CanCreateCart
  PROVE  /\ NextCart \notin carts /\ NextCart \in CartId
         /\ carts \cup {NextCart} \subseteq CartId
         /\ \E n \in Nat : carts \cup {NextCart} = 1..n
<1>1. PICK n \in Nat : carts = 1..n
  BY DEF CartsOpened
<1>2. Cardinality(carts) = n
  BY <1>1, FS_Interval
<1>3. NextCart = n + 1 /\ NextCart \in CartId
  <2>1. NextCart = n + 1
    BY <1>2 DEF NextCart
  <2>2. NextCart \in CartId
    BY DEF CanCreateCart
  <2> QED
    BY <2>1, <2>2
<1>4. n + 1 \in Nat /\ 1..n \cup {n + 1} = 1..(n + 1)
  OBVIOUS
<1> QED
  BY <1>1, <1>3, <1>4 DEF CartsOpened

\* What a step does to the cart its request carries, one line per kind of step: it lets
\* the cart go, keeps it, takes the one of the cookie, opens one, or hands it over - to
\* the browser or to an order.
LEMMA CartSteps ==
  ASSUME Spending, NEW t \in Tab, TabStep(t)
  PROVE  LET old == tab[t]
             new == tab'[t]
         IN  \/ /\ ~HasCart(new) /\ UNCHANGED <<carts, cartCookie, orders>>
             \/ /\ HasCart(new) /\ HasCart(old) /\ UNCHANGED <<carts, cartCookie, orders>>
                /\ new.cart = old.cart /\ (Sets(new) => Sets(old)) /\ Carted(new)
             \/ /\ HasCart(new) /\ UNCHANGED <<carts, cartCookie, orders>>
                /\ new.cart = cartCookie /\ ~Sets(new) /\ Carted(new)
             \/ /\ HasCart(new) /\ UNCHANGED <<cartCookie, orders>>
                /\ CanCreateCart /\ carts' = carts \cup {NextCart}
                /\ {"cart", "sets"} \subseteq DOMAIN new /\ new.cart = NextCart
             \/ /\ ~HasCart(new) /\ UNCHANGED <<carts, orders>>
                /\ Carrying(old) /\ cartCookie' = IF old.sets THEN old.cart ELSE cartCookie
             \/ /\ ~HasCart(new) /\ UNCHANGED <<carts, cartCookie>>
                /\ PlaceOrder(t) /\ HasCart(old)
             \/ /\ ~HasCart(new) /\ UNCHANGED carts
                /\ CheckoutAnswered(t)
<1> USE DEF Spending
<1>1. ASSUME NEW v \in Variant, NEW q \in 0..MaxQty + 1, AddItem(t, v, q)
      PROVE  LET new == tab'[t]
             IN  \/ /\ HasCart(new) /\ UNCHANGED <<carts, cartCookie, orders>>
                    /\ new.cart = cartCookie /\ ~Sets(new) /\ Carted(new)
                 \/ /\ HasCart(new) /\ UNCHANGED <<cartCookie, orders>>
                    /\ CanCreateCart /\ carts' = carts \cup {NextCart}
                    /\ {"cart", "sets"} \subseteq DOMAIN new /\ new.cart = NextCart
  <2> DEFINE c == IF CartExists(cartCookie) THEN cartCookie ELSE NextCart
  <2>1. /\ tab'[t].phase \in {"counting", "answering"}
        /\ {"cart", "sets"} \subseteq DOMAIN tab'[t]
        /\ tab'[t].cart = c /\ tab'[t].sets = (c # cartCookie)
    BY <1>1, BeginsTab DEF AddItem, Refusal
  <2>2. /\ CartExists(cartCookie) \/ CanCreateCart
        /\ carts' = carts \cup {c} /\ UNCHANGED <<cartCookie, orders>>
    BY <1>1 DEF AddItem
  <2>3. CASE CartExists(cartCookie)
    BY <2>1, <2>2, <2>3 DEF CartExists, HasCart, Carrying, Sets, Carted
  <2>4. CASE ~CartExists(cartCookie)
    BY <2>1, <2>2, <2>4 DEF HasCart, Carrying
  <2> QED
    BY <2>3, <2>4
<1>2. CASE ReadQty(t) \/ WriteLine(t)
  <2>1. /\ tab[t].phase \in {"counting", "writing"} /\ UNCHANGED <<carts, cartCookie, orders>>
        /\ tab'[t].phase \in {"writing", "answering"}
        /\ {"cart", "sets"} \subseteq DOMAIN tab'[t]
        /\ tab'[t].cart = tab[t].cart /\ tab'[t].sets = tab[t].sets
    BY <1>2, GoesTab DEF ReadQty, WriteLine, Refusal, Success, cartVars
  <2> QED
    BY <2>1 DEF HasCart, Carrying, Sets, Carted
<1>3. ASSUME NEW i \in DOMAIN items, NEW q \in Qty, UpdateItem(t, i, q)
      PROVE  ~HasCart(tab'[t]) /\ UNCHANGED <<carts, cartCookie, orders>>
  BY <1>3, BeginsTab DEF UpdateItem, HasCart, Carrying, cartVars
<1>4. CASE Checkout(t)
  <2>1. cartCookie \in carts
    <3>1. PICK i \in DOMAIN items : items[i] # gone /\ items[i].cart = cartCookie
      BY <1>4 DEF Checkout, ListCartItems
    <3> QED
      BY <3>1 DEF Rows, Line
  <2>2. /\ tab'[t].phase = "pricing" /\ "cart" \in DOMAIN tab'[t] /\ tab'[t].cart = cartCookie
        /\ UNCHANGED <<carts, cartCookie, orders>>
    BY <1>4, BeginsTab DEF Checkout, cartVars
  <2> QED
    BY <2>1, <2>2 DEF HasCart, Carrying, Sets, Carted
<1>5. CASE Totals(t)
  <2>1. /\ tab[t].phase = "pricing" /\ tab'[t].phase = "deciding"
        /\ "cart" \in DOMAIN tab'[t] /\ tab'[t].cart = tab[t].cart
        /\ UNCHANGED <<carts, cartCookie, orders>>
    BY <1>5, GoesTab DEF Totals, cartVars
  <2> QED
    BY <2>1 DEF HasCart, Carrying, Sets, Carted
<1>6. CASE ReadPaused(t)
  <2> DEFINE new == [tab[t] EXCEPT !.phase = "placing"]
  <2>1. tab[t].phase = "deciding" /\ "cart" \in DOMAIN tab[t] /\ tab[t].cart \in carts
    BY <1>6 DEF ReadPaused, Carted, HasCart
  <2>2. new.phase = "placing" /\ "cart" \in DOMAIN new /\ new.cart = tab[t].cart
    BY <2>1 DEF TabsShaped
  <2>3. /\ Goes(t, new) \/ Goes(t, Idle)
        /\ UNCHANGED <<carts, cartCookie, orders>>
    BY <1>6 DEF ReadPaused, Ends, cartVars
  <2> HIDE DEF new
  <2> QED
    BY <2>1, <2>2, <2>3, GoesTab DEF HasCart, Carrying, Sets, Carted, Idle
<1>7. CASE PlaceOrder(t)
  BY <1>7, GoesTab DEF PlaceOrder, HasCart, Carrying, cartVars
<1>8. CASE AddAnswered(t)
  BY <1>8, GoesTab DEF AddAnswered, Ends, Idle, HasCart, Carrying, cartVars
<1>9. CASE AnswerLost(t) \/ SetQty(t) \/ CheckoutFails(t)
  BY <1>9, GoesTab DEF AnswerLost, SetQty, CheckoutFails, Ends, Idle, HasCart, Carrying, cartVars
<1>10. CASE CheckoutAnswered(t)
  BY <1>10, GoesTab DEF CheckoutAnswered, Ends, Idle, HasCart, Carrying, cartVars
<1>11. ASSUME NEW i \in DOMAIN items, RemoveItem(t, i)
       PROVE  ~HasCart(tab'[t]) /\ UNCHANGED <<carts, cartCookie, orders>>
  BY <1>11, BeginsTab DEF RemoveItem, Idle, HasCart, Carrying
<1> QED
  BY <1>1, <1>2, <1>3, <1>4, <1>5, <1>6, <1>7, <1>8, <1>9, <1>10, <1>11 DEF TabStep

LEMMA InitSpending == StoreInit => Spending
<1> SUFFICES ASSUME StoreInit PROVE Spending
  OBVIOUS
<1>1. orders \in Seq({}) /\ DOMAIN orders = {} /\ items \in Seq({}) /\ DOMAIN items = {}
  BY DEF StoreInit, CartsInit
<1>2. CartsOpened
  <2>1. carts = {} /\ 1..0 = {} /\ 0 \in Nat
    BY DEF StoreInit, CartsInit
  <2> QED
    BY <2>1 DEF CartsOpened
<1>3. TabsShaped /\ \A t \in Tab : ~HasCart(tab[t]) /\ ~Carrying(tab[t])
  BY DEF StoreInit, TabsShaped, Idle, HasCart, Carrying
<1> QED
  BY <1>1, <1>2, <1>3
     DEF Spending, OrdersShaped, Rows, Carted, Sets, SpentCartIsGone, StoreInit

\* What the requests of the other tabs carry stays with them.
LEMMA OthersCarry ==
  ASSUME TabsShaped, NEW t \in Tab, TabStep(t), NEW u \in Tab \ {t}, Carted(tab[u])
  PROVE  /\ HasCart(tab'[u]) <=> HasCart(tab[u])
         /\ Sets(tab'[u]) <=> Sets(tab[u])
         /\ HasCart(tab[u]) => "cart" \in DOMAIN tab'[u] /\ tab'[u].cart = tab[u].cart
         /\ Carrying(tab'[u]) => "sets" \in DOMAIN tab'[u]
<1>1. /\ "phase" \in DOMAIN tab[u]
      /\ DOMAIN tab'[u] = DOMAIN tab[u]
      /\ \A f \in DOMAIN tab[u] : f # "alone" => tab'[u][f] = tab[u][f]
  BY OthersKept DEF TabsShaped
<1>2. Carrying(tab'[u]) <=> Carrying(tab[u])
  BY <1>1 DEF Carrying
<1> QED
  BY <1>1, <1>2 DEF HasCart, Sets, Carted, Carrying

\* Spending but for the parts about single rows and the shape of the tables.
LEMMA CartsMove ==
  ASSUME Spending, NEW t \in Tab, TabStep(t)
  PROVE  /\ CartsOpened' /\ cartCookie' \in carts' \cup {NoCart}
         /\ \A u \in Tab : Carted(tab[u])'
         /\ \A u \in Tab : (Sets(tab[u]) => Fresh(u))'
         /\ OrdersShaped'
         /\ \A i \in DOMAIN orders' : orders'[i].cart \in carts'
         /\ SpentCartIsGone'
<1> DEFINE old == tab[t]
           new == tab'[t]
<1> USE DEF Spending
<1>1. ASSUME NEW u \in Tab \ {t}
      PROVE  /\ Carted(tab[u])
             /\ HasCart(tab'[u]) <=> HasCart(tab[u])
             /\ Sets(tab'[u]) <=> Sets(tab[u])
             /\ HasCart(tab[u]) => "cart" \in DOMAIN tab'[u] /\ tab'[u].cart = tab[u].cart
             /\ Carrying(tab'[u]) => "sets" \in DOMAIN tab'[u]
  BY OthersCarry
<1>2. NoCart \notin carts
  BY NoCartAssumption DEF CartsOpened
<1>3. \A u \in Tab : Sets(tab[u]) => HasCart(tab[u]) /\ tab[u].cart \in carts
  BY DEF Sets, HasCart, Carted
<1>4. CASE ~HasCart(new) /\ UNCHANGED <<carts, cartCookie, orders>>
  BY <1>1, <1>3, <1>4 DEF Sets, Fresh, Carted, HasCart, CartsOpened, SpentCartIsGone, OrdersShaped
<1>5. CASE /\ HasCart(new) /\ HasCart(old) /\ UNCHANGED <<carts, cartCookie, orders>>
           /\ new.cart = old.cart /\ (Sets(new) => Sets(old)) /\ Carted(new)
  <2>1. ASSUME NEW u \in Tab
        PROVE  /\ Carted(tab[u])' /\ (HasCart(tab'[u]) <=> HasCart(tab[u]))
               /\ HasCart(tab[u]) => tab'[u].cart = tab[u].cart
               /\ Sets(tab'[u]) => Sets(tab[u])
    BY <1>1, <1>5 DEF Carted
  <2>2. ASSUME NEW u \in Tab, Sets(tab'[u]) PROVE Fresh(u)'
    BY <1>3, <1>5, <2>1, <2>2 DEF Fresh
  <2> QED
    BY <1>5, <2>1, <2>2 DEF CartsOpened, SpentCartIsGone, OrdersShaped
<1>6. CASE /\ HasCart(new) /\ UNCHANGED <<carts, cartCookie, orders>>
           /\ new.cart = cartCookie /\ ~Sets(new) /\ Carted(new)
  BY <1>1, <1>3, <1>6 DEF Fresh, Carted, Sets, HasCart, CartsOpened, SpentCartIsGone, OrdersShaped
<1>7. CASE /\ HasCart(new) /\ UNCHANGED <<cartCookie, orders>>
           /\ CanCreateCart /\ carts' = carts \cup {NextCart}
           /\ {"cart", "sets"} \subseteq DOMAIN new /\ new.cart = NextCart
  <2>1. NextCart \notin carts /\ NextCart \in CartId /\ NextCart # NoCart /\ CartsOpened'
    BY <1>7, NextCartNew, NoCartAssumption DEF CartsOpened, CartId
  <2>2. ASSUME NEW u \in Tab PROVE Carted(tab[u])'
    BY <1>1, <1>7 DEF Carted
  <2>3. ASSUME NEW u \in Tab, Sets(tab'[u]) PROVE Fresh(u)'
    <3>1. CASE u = t
      BY <1>1, <1>7, <2>1, <3>1 DEF Fresh, Carted
    <3>2. CASE u # t
      BY <1>1, <1>3, <1>7, <2>1, <2>3, <3>2 DEF Fresh
    <3> QED
      BY <3>1, <3>2
  <2> QED
    BY <1>7, <2>1, <2>2, <2>3 DEF SpentCartIsGone, OrdersShaped
<1>8. CASE /\ ~HasCart(new) /\ UNCHANGED <<carts, orders>>
           /\ Carrying(old) /\ cartCookie' = IF old.sets THEN old.cart ELSE cartCookie
  <2>1. CASE old.sets
    <3>1. Sets(old) /\ Fresh(t) /\ cartCookie' = old.cart /\ old.cart \in carts
      BY <1>3, <1>8, <2>1 DEF Sets
    <3>2. ASSUME NEW u \in Tab, Sets(tab'[u]) PROVE Fresh(u)'
      <4>1. u # t
        BY <1>8, <3>2 DEF Sets, HasCart
      <4>2. Sets(tab[u]) /\ Fresh(u) /\ HasCart(tab[u])
        BY <1>1, <1>3, <3>2, <4>1
      <4>3. tab'[u].cart = tab[u].cart /\ tab[u].cart # old.cart
        BY <1>1, <3>1, <4>1, <4>2 DEF Fresh
      <4> QED
        BY <1>1, <1>8, <3>1, <4>1, <4>2, <4>3 DEF Fresh
    <3> QED
      BY <1>1, <1>8, <3>1, <3>2 DEF Fresh, Carted, HasCart, CartsOpened, SpentCartIsGone, OrdersShaped
  <2>2. CASE ~old.sets
    <3>1. UNCHANGED <<carts, cartCookie, orders>>
      BY <1>8, <2>2
    <3> QED
      BY <1>4, <1>8, <3>1
  <2> QED
    BY <2>1, <2>2
<1>9. CASE /\ ~HasCart(new) /\ UNCHANGED <<carts, cartCookie>>
           /\ PlaceOrder(t) /\ HasCart(old)
  <2>1. OrderOf(old).cart = old.cart /\ OrderOf(old).redirected = FALSE /\ old.cart \in carts
    BY <1>9 DEF OrderOf, Carted
  <2>2. /\ OrdersShaped'
        /\ \A i \in DOMAIN orders' :
             \/ i \in DOMAIN orders /\ orders'[i] = orders[i]
             \/ orders'[i] = OrderOf(old)
    BY <1>9, OrderPlaced
  <2>3. ASSUME NEW u \in Tab, Sets(tab'[u]) PROVE Fresh(u)'
    <3>1. u # t
      BY <1>9, <2>3 DEF Sets, HasCart
    <3>2. Sets(tab[u]) /\ Fresh(u) /\ HasCart(tab[u]) /\ tab'[u].cart = tab[u].cart
      BY <1>1, <1>3, <2>3, <3>1
    <3> QED
      BY <1>1, <1>9, <2>1, <2>2, <3>1, <3>2 DEF Fresh
  <2>4. \A u \in Tab : Carted(tab[u])'
    BY <1>1, <1>9 DEF Carted, HasCart
  <2> QED
    BY <1>9, <2>1, <2>2, <2>3, <2>4 DEF CartsOpened, SpentCartIsGone
<1>10. CASE ~HasCart(new) /\ UNCHANGED carts /\ CheckoutAnswered(t)
  <2>1. cartCookie' = NoCart
    BY <1>10 DEF CheckoutAnswered
  <2>2. /\ OrdersShaped' /\ DOMAIN orders' = DOMAIN orders
        /\ \A i \in DOMAIN orders : orders'[i].cart = orders[i].cart
    BY <1>10, OrderRedirected DEF OrderFields
  <2>3. ASSUME NEW u \in Tab, Sets(tab'[u]) PROVE Fresh(u)'
    <3>1. u # t
      BY <1>10, <2>3 DEF Sets, HasCart
    <3>2. /\ Sets(tab[u]) /\ Fresh(u) /\ HasCart(tab[u]) /\ tab'[u].cart = tab[u].cart
          /\ tab[u].cart \in carts
      BY <1>1, <1>3, <2>3, <3>1
    <3> QED
      BY <1>1, <1>2, <1>10, <2>1, <2>2, <3>1, <3>2 DEF Fresh
  <2>4. \A u \in Tab : Carted(tab[u])'
    BY <1>1, <1>10 DEF Carted, HasCart
  <2>5. \A i \in DOMAIN orders' : orders'[i].cart \in carts /\ cartCookie' # orders'[i].cart
    BY <1>2, <2>1, <2>2
  <2> QED
    BY <1>10, <2>1, <2>2, <2>3, <2>4, <2>5 DEF CartsOpened, SpentCartIsGone
<1> QED
  BY <1>4, <1>5, <1>6, <1>7, <1>8, <1>9, <1>10, CartSteps

LEMMA TabSpending ==
  ASSUME Spending, NEW t \in Tab, TabStep(t)
  PROVE  Spending'
<1>1. tab[t].phase = "writing" => tab[t].cart \in carts
  BY DEF Spending, Carted, HasCart, Carrying
<1>2. Rows' /\ TabsShaped'
  BY <1>1, RowsStay, OthersKept DEF Spending
<1> QED
  BY <1>2, CartsMove DEF Spending

LEMMA SpendingStep ==
  ASSUME Spending, [StoreNext]_storeVars
  PROVE  Spending'
<1>1. CASE \E t \in Tab : TabStep(t)
  BY <1>1, TabSpending
<1>2. CASE Resumed /\ UNCHANGED <<cartVars, cartCookie, orders>>
  <2>1. /\ tab' = [u \in Tab |-> tab'[u]]
        /\ \A u \in Tab :
             /\ DOMAIN tab'[u] = DOMAIN tab[u]
             /\ \A f \in DOMAIN tab[u] : f # "paused" => tab'[u][f] = tab[u][f]
    BY <1>2, ResumedTab DEF Spending
  <2>2. ASSUME NEW u \in Tab
        PROVE  /\ "phase" \in DOMAIN tab'[u]
               /\ HasCart(tab'[u]) <=> HasCart(tab[u])
               /\ Sets(tab'[u]) <=> Sets(tab[u])
               /\ HasCart(tab[u]) => "cart" \in DOMAIN tab'[u] /\ tab'[u].cart = tab[u].cart
               /\ Carrying(tab'[u]) => "sets" \in DOMAIN tab'[u]
    <3>1. "phase" \in DOMAIN tab[u] /\ Carted(tab[u])
      BY DEF Spending, TabsShaped
    <3>2. Carrying(tab'[u]) <=> Carrying(tab[u])
      BY <2>1, <3>1 DEF Carrying
    <3> QED
      BY <2>1, <3>1, <3>2 DEF HasCart, Sets, Carted, Carrying
  <2>3. TabsShaped' /\ UNCHANGED <<carts, items, cartCookie, orders>>
    BY <1>2, <2>1, <2>2 DEF TabsShaped, cartVars
  <2>4. \A u \in Tab : Carted(tab[u])'
    BY <2>2, <2>3 DEF Spending, Carted
  <2>5. ASSUME NEW u \in Tab, Sets(tab'[u]) PROVE Fresh(u)'
    <3>1. Fresh(u) /\ HasCart(tab[u]) /\ tab'[u].cart = tab[u].cart
      BY <2>2, <2>5 DEF Spending, Sets, HasCart
    <3> QED
      BY <2>2, <2>3, <3>1 DEF Fresh
  <2> QED
    BY <2>3, <2>4, <2>5 DEF Spending, OrdersShaped, Rows, Line, CartsOpened, SpentCartIsGone
<1>3. CASE UNCHANGED <<cartVars, cartCookie, tab, orders>>
  BY <1>3 DEF cartVars, Spending, TabsShaped, OrdersShaped, Rows, Line, CartsOpened, Carted, HasCart,
              Carrying, Sets, Fresh, SpentCartIsGone
<1> QED
  BY <1>1, <1>2, <1>3, StoreSteps DEF shopVars

\* SpentCartIsGone, whatever answers are under way, reordered or lost.
THEOREM SpentCartIsGoneHolds == StoreSpec => []SpentCartIsGone
<1>1. Spending => SpentCartIsGone
  BY DEF Spending
<1>2. Spending /\ [StoreNext]_storeVars => Spending'
  BY SpendingStep
<1> QED
  BY <1>1, <1>2, InitSpending, PTL DEF StoreSpec

-----------------------------------------------------------------------------
(* Adding alone.                                                           *)

\* QtyOf in any state of the table.
FoundIn(rows, c, v) ==
  {i \in {j \in DOMAIN rows : rows[j] # gone /\ rows[j].cart = c} : rows[i].variant = v}
QtyIn(rows, c, v) ==
  IF FoundIn(rows, c, v) = {} THEN 0 ELSE rows[CHOOSE i \in FoundIn(rows, c, v) : TRUE].qty

LEMMA QtyIsIn == \A c, v : QtyOf(c, v) = QtyIn(items, c, v)
BY DEF QtyOf, GetCartItemByVariant, ListCartItems, QtyIn, FoundIn

\* The line holds what was written, whether it was there before or not.
LEMMA LineWritten ==
  ASSUME Rows, NEW c, NEW v, NEW q, items' = InsertCartItem(c, v, q)
  PROVE  QtyIn(items', c, v) = q
<1> DEFINE found == FoundIn(items, c, v)
           row == [cart |-> c, variant |-> v, qty |-> q]
<1>1. GetCartItemByVariant(c, v) = found
  BY DEF GetCartItemByVariant, ListCartItems, FoundIn
<1>2. CASE found = {}
  <2>1. PICK S : items \in Seq(S)
    BY DEF Rows
  <2>2. items' = Append(items, row)
    BY <1>1, <1>2 DEF InsertCartItem
  <2>3. row.cart = c /\ row.variant = v /\ row.qty = q /\ row # gone
    <3>1. "qty" \in DOMAIN row /\ "qty" \notin DOMAIN gone
      BY DEF gone
    <3> QED
      BY <3>1
  <2> HIDE DEF row
  <2>4. /\ DOMAIN items' = DOMAIN items \cup {Len(items) + 1}
        /\ \A i \in DOMAIN items : items'[i] = items[i]
        /\ items'[Len(items) + 1] = row
    BY <2>1, <2>2, AppendShape
  <2>5. FoundIn(items', c, v) = {Len(items) + 1}
    BY <1>2, <2>3, <2>4 DEF FoundIn
  <2> QED
    BY <2>3, <2>4, <2>5 DEF QtyIn
<1>3. CASE found # {}
  <2> DEFINE k == CHOOSE i \in found : TRUE
             line == [items[k] EXCEPT !.qty = q]
  <2>1. k \in found
    BY <1>3
  <2>2. items' = [items EXCEPT ![k] = line]
    BY <1>1, <1>3 DEF InsertCartItem
  <2>3. k \in DOMAIN items /\ items[k] # gone /\ items[k].cart = c /\ items[k].variant = v
    BY <2>1 DEF FoundIn
  <2>4. /\ line.qty = q /\ line.cart = items[k].cart /\ line.variant = items[k].variant
        /\ line # gone
    <3>1. RowFields \subseteq DOMAIN items[k]
      BY <2>3 DEF Rows, Line
    <3>2. "qty" \in DOMAIN line /\ "qty" \notin DOMAIN gone
      BY <3>1 DEF gone, RowFields
    <3> QED
      BY <3>1, <3>2 DEF RowFields
  <2> HIDE DEF line
  <2>5. /\ DOMAIN items' = DOMAIN items
        /\ \A i \in DOMAIN items : items'[i] = IF i = k THEN line ELSE items[i]
    BY <2>2
  <2>6. FoundIn(items', c, v) = found
    BY <2>3, <2>4, <2>5 DEF FoundIn
  <2>7. items'[k].qty = q
    BY <2>3, <2>4, <2>5
  <2> QED
    BY <1>3, <2>6, <2>7 DEF QtyIn
<1> QED
  BY <1>2, <1>3

\* A cart that does not exist holds nothing.
LEMMA NothingIn ==
  ASSUME Rows, NEW c, c \notin carts, NEW v
  PROVE  QtyIn(items, c, v) = 0
BY DEF Rows, Line, QtyIn, FoundIn

\* What a request knows that has been alone since it began.
Adding(r) ==
  /\ r.sets \/ r.cart = cartCookie
  /\ r.phase \in {"counting", "writing"} => QtyIn(items, r.cart, r.variant) = r.before
  /\ r.phase = "writing" => r.wanted = r.before + r.qty
  /\ r.phase = "answering" => QtyIn(items, r.cart, r.variant) = r.kept

Marked(r) == "alone" \in DOMAIN r /\ "paused" \notin DOMAIN r

LoneAdds ==
  \A t \in Tab :
    /\ Carrying(tab[t]) => Marked(tab[t])
    /\ Carrying(tab[t]) /\ tab[t].alone =>
         (\A u \in Tab \ {t} : tab[u] = Idle) /\ Adding(tab[t])

LEMMA InitLoneAdds == StoreInit => LoneAdds
BY DEF StoreInit, LoneAdds, Carrying, Idle

\* Another request begins: nobody else is alone any more.
LEMMA NotAloneAfter ==
  ASSUME TabsShaped, LoneAdds, NEW t \in Tab, NEW q, Begins(t, q), NEW u \in Tab \ {t},
         Carrying(tab'[u])
  PROVE  Marked(tab'[u]) /\ ~tab'[u].alone
<1>1. "phase" \in DOMAIN tab[u] /\ tab'[u] = Disturbed(u)
  BY DEF Begins, TabsShaped
<1>2. tab'[u].phase = tab[u].phase
  BY <1>1 DEF Disturbed
<1>3. Marked(tab[u])
  BY <1>2 DEF LoneAdds, Carrying
<1> QED
  BY <1>1, <1>3 DEF Disturbed, Marked

LEMMA AddItemAlone ==
  ASSUME Spending, LoneAdds, NEW t \in Tab, NEW v \in Variant, NEW q \in 0..MaxQty + 1,
         AddItem(t, v, q)
  PROVE  LoneAdds'
<1> DEFINE c == IF CartExists(cartCookie) THEN cartCookie ELSE NextCart
           r == [phase |-> "counting", cart |-> c, variant |-> v, qty |-> q,
                 before |-> QtyOf(cartCookie, v), alone |-> Alone(t), sets |-> c # cartCookie,
                 seen |-> available[v]]
           new == IF ValidQty(q) THEN r ELSE Refusal(r)
<1>1. TabsShaped /\ Rows /\ CartsOpened
  BY DEF Spending
<1>2. Begins(t, new) /\ items' = items /\ cartCookie' = cartCookie
  BY DEF AddItem
<1>3. /\ new.cart = c /\ new.sets = (c # cartCookie) /\ Marked(new)
      /\ new.alone => Alone(t)
      /\ \/ new.phase = "counting" /\ new.variant = v /\ new.before = QtyOf(cartCookie, v)
         \/ new.phase = "answering" /\ ~new.alone
  BY DEF Refusal, Marked
<1>4. QtyIn(items, c, v) = QtyOf(cartCookie, v)
  <2>1. CASE CartExists(cartCookie)
    BY <2>1, QtyIsIn
  <2>2. CASE ~CartExists(cartCookie)
    <3>1. NextCart \notin carts
      BY <1>1, <2>2, NextCartNew DEF AddItem
    <3> QED
      BY <1>1, <2>2, <3>1, NothingIn, QtyIsIn DEF CartExists
  <2> QED
    BY <2>1, <2>2
<1> HIDE DEF new, c
<1>5. tab'[t] = new
  BY <1>1, <1>2, BeginsTab
<1>6. ASSUME new.alone
      PROVE  (\A u \in Tab \ {t} : tab'[u] = Idle) /\ Adding(tab[t])'
  <2>1. \A u \in Tab \ {t} : tab'[u] = Idle
    <3>1. \A u \in Tab \ {t} : tab[u] = Idle
      BY <1>3, <1>6 DEF Alone
    <3>2. \A u \in Tab \ {t} : tab'[u] = Disturbed(u)
      BY <1>2 DEF Begins
    <3> QED
      BY <3>1, <3>2 DEF Disturbed, Idle
  <2>2. QtyIn(items', c, v) = new.before
    BY <1>2, <1>3, <1>4, <1>6
  <2> QED
    BY <1>2, <1>3, <1>5, <1>6, <2>1, <2>2 DEF Adding
<1> QED
  BY <1>1, <1>2, <1>3, <1>5, <1>6, NotAloneAfter DEF LoneAdds

LEMMA GoesAlone ==
  ASSUME TabsShaped, LoneAdds, NEW t \in Tab, NEW q, Goes(t, q), tab[t].phase # "idle",
         Carrying(q) => Marked(q),
         Carrying(q) /\ q.alone =>
           (\A u \in Tab \ {t} : tab[u] = Idle) /\ tab'[t] = q /\ Adding(tab[t])'
  PROVE  LoneAdds'
<1>1. tab'[t] = q /\ \A u \in Tab \ {t} : tab'[u] = tab[u]
  BY GoesTab
<1>2. ASSUME NEW u \in Tab \ {t}, Carrying(tab[u])
      PROVE  Marked(tab[u]) /\ ~tab[u].alone
  BY <1>2 DEF LoneAdds, Idle
<1>3. \A u \in Tab : Carrying(tab'[u]) => Marked(tab'[u])
  BY <1>1, <1>2
<1>4. ASSUME NEW u \in Tab, Carrying(tab'[u]), tab'[u].alone
      PROVE  (\A w \in Tab \ {u} : tab'[w] = Idle) /\ Adding(tab[u])'
  BY <1>1, <1>2, <1>4
<1> QED
  BY <1>3, <1>4 DEF LoneAdds

LEMMA TabLoneAdds ==
  ASSUME Spending, LoneAdds, NEW t \in Tab, TabStep(t)
  PROVE  LoneAdds'
<1> DEFINE r == tab[t]
<1>0. TabsShaped /\ Rows
  BY DEF Spending
<1>1. ASSUME NEW v \in Variant, NEW q \in 0..MaxQty + 1, AddItem(t, v, q) PROVE LoneAdds'
  BY <1>1, AddItemAlone
<1>2. CASE ReadQty(t)
  <2> DEFINE wanted == QtyOf(r.cart, r.variant) + r.qty
             writing == [phase |-> "writing", cart |-> r.cart, variant |-> r.variant,
                         qty |-> r.qty, before |-> r.before, alone |-> r.alone,
                         sets |-> r.sets, wanted |-> wanted]
  <2>1. /\ r.phase = "counting" /\ items' = items /\ cartCookie' = cartCookie
        /\ Goes(t, writing) \/ Goes(t, Refusal(r))
    BY <1>2 DEF ReadQty, cartVars
  <2>2. CASE Goes(t, Refusal(r))
    BY <1>0, <2>1, <2>2, GoesAlone DEF Refusal, Marked
  <2>3. CASE Goes(t, writing)
    <3>1. /\ writing.phase = "writing" /\ writing.cart = r.cart /\ writing.variant = r.variant
          /\ writing.qty = r.qty /\ writing.before = r.before /\ writing.alone = r.alone
          /\ writing.sets = r.sets /\ writing.wanted = wanted /\ Marked(writing)
      BY DEF Marked
    <3> HIDE DEF writing
    <3>2. tab'[t] = writing
      BY <1>0, <2>3, GoesTab
    <3>3. ASSUME r.alone
          PROVE  (\A u \in Tab \ {t} : tab[u] = Idle) /\ Adding(tab[t])'
      <4>1. (\A u \in Tab \ {t} : tab[u] = Idle) /\ Adding(r)
        BY <2>1, <3>3 DEF LoneAdds, Carrying
      <4>2. QtyOf(r.cart, r.variant) = r.before
        BY <2>1, <4>1, QtyIsIn DEF Adding
      <4> QED
        BY <2>1, <3>1, <3>2, <4>1, <4>2 DEF Adding
    <3> QED
      BY <1>0, <2>1, <2>3, <3>1, <3>2, <3>3, GoesAlone
  <2> QED
    BY <2>1, <2>2, <2>3
<1>3. CASE WriteLine(t)
  <2>1. /\ r.phase = "writing" /\ cartCookie' = cartCookie
        /\ items' = InsertCartItem(r.cart, r.variant, r.wanted)
        /\ Goes(t, Success(r)) \/ Goes(t, Refusal(r))
    BY <1>3 DEF WriteLine
  <2>2. CASE Goes(t, Refusal(r))
    BY <1>0, <2>1, <2>2, GoesAlone DEF Refusal, Marked
  <2>3. CASE Goes(t, Success(r))
    <3>1. /\ Success(r).phase = "answering" /\ Success(r).cart = r.cart
          /\ Success(r).sets = r.sets /\ Success(r).alone = r.alone
          /\ Success(r).variant = r.variant /\ Success(r).kept = r.before + r.qty
          /\ Marked(Success(r))
      BY DEF Success, Marked
    <3>2. tab'[t] = Success(r)
      BY <1>0, <2>3, GoesTab
    <3>3. QtyIn(items', r.cart, r.variant) = r.wanted
      BY <1>0, <2>1, LineWritten
    <3>4. ASSUME r.alone
          PROVE  (\A u \in Tab \ {t} : tab[u] = Idle) /\ Adding(tab[t])'
      <4>1. (\A u \in Tab \ {t} : tab[u] = Idle) /\ Adding(r)
        BY <2>1, <3>4 DEF LoneAdds, Carrying
      <4> QED
        BY <2>1, <3>1, <3>2, <3>3, <4>1 DEF Adding
    <3> QED
      BY <1>0, <2>1, <2>3, <3>1, <3>2, <3>4, GoesAlone
  <2> QED
    BY <2>1, <2>2, <2>3
<1>4. ASSUME NEW q, Begins(t, q), ~Carrying(q) PROVE LoneAdds'
  <2>1. tab'[t] = q
    BY <1>0, <1>4, BeginsTab
  <2> QED
    BY <1>0, <1>4, <2>1, NotAloneAfter DEF LoneAdds
<1>5. ASSUME NEW q, Goes(t, q), ~Carrying(q), r.phase # "idle" PROVE LoneAdds'
  BY <1>0, <1>5, GoesAlone
<1>6. ASSUME NEW i \in DOMAIN items, NEW q \in Qty, UpdateItem(t, i, q) PROVE LoneAdds'
  BY <1>4, <1>6 DEF UpdateItem, Carrying
<1>7. ASSUME NEW i \in DOMAIN items, RemoveItem(t, i) PROVE LoneAdds'
  BY <1>4, <1>7 DEF RemoveItem, Idle, Carrying
<1>8. CASE Checkout(t)
  BY <1>4, <1>8 DEF Checkout, Carrying
<1>9. CASE Totals(t) \/ PlaceOrder(t)
  BY <1>5, <1>9 DEF Totals, PlaceOrder, Carrying
<1>10. CASE ReadPaused(t)
  <2> DEFINE new == [r EXCEPT !.phase = "placing"]
  <2>1. new.phase = "placing"
    BY <1>0 DEF TabsShaped
  <2>2. r.phase = "deciding" /\ (Goes(t, new) \/ Goes(t, Idle))
    BY <1>10 DEF ReadPaused, Ends
  <2> HIDE DEF new
  <2> QED
    BY <1>5, <2>1, <2>2 DEF Idle, Carrying
<1>11. CASE AddAnswered(t) \/ AnswerLost(t) \/ SetQty(t) \/ CheckoutFails(t) \/ CheckoutAnswered(t)
  BY <1>5, <1>11 DEF AddAnswered, AnswerLost, SetQty, CheckoutFails, CheckoutAnswered, Ends, Idle,
                     Carrying
<1> QED
  BY <1>1, <1>2, <1>3, <1>6, <1>7, <1>8, <1>9, <1>10, <1>11 DEF TabStep

LEMMA LoneAddsStep ==
  ASSUME Spending, LoneAdds, [StoreNext]_storeVars
  PROVE  LoneAdds'
<1>1. CASE \E t \in Tab : TabStep(t)
  BY <1>1, TabLoneAdds
<1>2. CASE Resumed /\ UNCHANGED <<cartVars, cartCookie>>
  <2>1. ASSUME NEW u \in Tab
        PROVE  /\ Carrying(tab'[u]) <=> Carrying(tab[u])
               /\ tab[u] = Idle \/ Carrying(tab[u]) => tab'[u] = tab[u]
    <3>1. Carrying(tab'[u]) <=> Carrying(tab[u])
      BY <1>2, ResumedTab DEF Spending, TabsShaped, Carrying
    <3>2. tab[u] = Idle \/ Carrying(tab[u]) => "paused" \notin DOMAIN tab[u]
      BY DEF LoneAdds, Marked, Idle
    <3> QED
      BY <1>2, <3>1, <3>2 DEF Resumed
  <2> QED
    BY <1>2, <2>1 DEF LoneAdds, Adding, cartVars
<1>3. CASE UNCHANGED <<cartVars, cartCookie, tab>>
  BY <1>3 DEF LoneAdds, Adding, cartVars
<1> QED
  BY <1>1, <1>2, <1>3, StoreSteps DEF shopVars

\* LoneAddIsKept, whatever lines, carts and lost answers there were before.
THEOREM LoneAddIsKeptHolds == StoreSpec => LoneAddIsKept
<1>1. ASSUME Spending, LoneAdds, NEW t \in Tab, NEW v \in Variant, AddAnswered(t),
             tab[t].alone, tab[t].variant = v
      PROVE  (QtyOf(cartCookie, v))' = tab[t].kept
  <2>1. /\ tab[t].phase = "answering" /\ items' = items
        /\ cartCookie' = IF tab[t].sets THEN tab[t].cart ELSE cartCookie
    BY <1>1 DEF AddAnswered, cartVars
  <2>2. Adding(tab[t])
    BY <1>1, <2>1 DEF LoneAdds, Carrying
  <2>3. cartCookie' = tab[t].cart /\ QtyIn(items', cartCookie', v) = tab[t].kept
    BY <1>1, <2>1, <2>2 DEF Adding
  <2>4. (QtyOf(cartCookie, v))' = QtyIn(items', cartCookie', v)
    BY DEF QtyOf, GetCartItemByVariant, ListCartItems, QtyIn, FoundIn
  <2> QED
    BY <2>3, <2>4
<1>2. Spending /\ LoneAdds => [\A t \in Tab, v \in Variant :
         LET r == tab[t] IN
           AddAnswered(t) /\ r.alone /\ r.variant = v
             => (QtyOf(cartCookie, v))' = r.kept]_storeVars
  BY <1>1
<1>3. Spending /\ LoneAdds /\ [StoreNext]_storeVars => Spending' /\ LoneAdds'
  BY SpendingStep, LoneAddsStep
<1> QED
  BY <1>2, <1>3, InitSpending, InitLoneAdds, PTL DEF StoreSpec, LoneAddIsKept
=============================================================================
