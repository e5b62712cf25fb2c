---------------------------- MODULE ShopSettings ----------------------------
(***************************************************************************)
(* The runtime settings: one row per key, read one by one on every request *)
(* and saved one by one, in the random order Go walks a map in. There is   *)
(* no transaction around a save, so that another save, a reader or a       *)
(* failure may come between two of its rows.                               *)
(***************************************************************************)
EXTENDS Integers

CONSTANTS
  Saver,        \* administrators, each with at most one save in flight
  Posted,       \* the settings forms that may be submitted
  Defaults,     \* what the environment supplies for keys never written
  MaxShipping, MinTTL, MaxTTL,   \* MaxShippingCents, MinTTLMinutes, MaxTTLMinutes
  Minute,       \* time.Minute, in the ticks a time.Duration counts
  HalfRange,    \* a Duration holds -HalfRange..HalfRange - 1 ticks (int64)
  Missing       \* no row under this key

Keys == {"shipping_cents", "order_ttl_minutes", "shop_paused"}
Values == [shipping_cents : Int, order_ttl_minutes : Int, shop_paused : BOOLEAN]

\* time.Duration(minutes) * time.Minute, which wraps round.
Duration(minutes) == ((minutes * Minute + HalfRange) % (2 * HalfRange)) - HalfRange

\* TTLMinutes: the whole minutes of a Duration, cut towards zero.
TTLMinutes(d) == IF d >= 0 THEN d \div Minute ELSE -((-d) \div Minute)

\* What SettingsSave makes of a form's text: the minutes go through a Duration and back.
Submitted(form) == [form EXCEPT !.order_ttl_minutes = TTLMinutes(Duration(@))]

ASSUME RangeAssumption == Minute \in Nat \ {0} /\ HalfRange \in Nat \ {0}
ASSUME ValuesAssumption == Defaults \in Values /\ Posted \subseteq Values
ASSUME MissingAssumption ==
  \A v \in {Submitted(form) : form \in Posted} \cup {Defaults} : \A k \in Keys : Missing # v[k]

VARIABLES
  stored,   \* the settings table
  saving    \* a save in flight: the values to store, the keys still to write, and (history)
            \* the form as typed and whether no other save was in flight at any time so far

settingsVars == <<stored, saving>>

NotSaving == [todo |-> {}]
SaveInFlight == [typed : Posted, values : Values, todo : SUBSET Keys, alone : BOOLEAN]

SettingsInit ==
  /\ stored = [k \in Keys |-> Missing]
  /\ saving = [a \in Saver |-> NotSaving]

\* readValue: a key never written falls back to the environment.
ReadValue(k) == IF stored[k] = Missing THEN Defaults[k] ELSE stored[k]
ShippingCents == ReadValue("shipping_cents")
OrderTTL == ReadValue("order_ttl_minutes")
Paused == ReadValue("shop_paused")

\* Values.Validate.
Valid(v) ==
  /\ v.shipping_cents \in 0..MaxShipping
  /\ v.order_ttl_minutes \in MinTTL..MaxTTL

\* Fault (mutation run): a value equal to the default is not worth a row.
UpsertUnlessDefault(k, value) ==
  stored' = IF value = Defaults[k] THEN stored ELSE [stored EXCEPT ![k] = value]

\* UpsertSetting: a row per key, overwritten.
UpsertSetting(k, value) == stored' = [stored EXCEPT ![k] = value]

\* SettingsSave: the form is parsed and validated as a whole before the first write.
SettingsSave(a, form) ==
  /\ saving[a] = NotSaving
  /\ Valid(Submitted(form))
  /\ saving' = [b \in Saver |->
       IF b = a THEN [typed |-> form, values |-> Submitted(form), todo |-> Keys,
                      alone |-> \A c \in Saver : saving[c] = NotSaving]
       ELSE IF saving[b] = NotSaving THEN NotSaving
       ELSE [saving[b] EXCEPT !.alone = FALSE]]
  /\ UNCHANGED stored

\* One turn of the loop in Save: any key that is left.
SaveKey(a, k) ==
  /\ k \in saving[a].todo
  /\ UpsertSetting(k, saving[a].values[k])
  /\ saving' = [saving EXCEPT ![a].todo = @ \ {k}]

\* The loop is through and the administrator is told so.
SaveDone(a) ==
  /\ saving[a] # NotSaving /\ saving[a].todo = {}
  /\ saving' = [saving EXCEPT ![a] = NotSaving]
  /\ UNCHANGED stored

\* A write fails: what was written before it stays.
SaveFails(a) ==
  /\ saving[a] # NotSaving /\ saving[a].todo # {}
  /\ saving' = [saving EXCEPT ![a] = NotSaving]
  /\ UNCHANGED stored

SaverStep(a) ==
  \/ \E form \in Posted : SettingsSave(a, form)
  \/ \E k \in Keys : SaveKey(a, k)
  \/ SaveDone(a)
  \/ SaveFails(a)

-----------------------------------------------------------------------------
(* Properties.                                                             *)

Holds(minutes) == minutes * Minute \in -HalfRange..HalfRange - 1

\* A save that met no other save and is reported as saved is what the shop runs on, whatever
\* was stored, missing or left half written before it: fee and pause as typed, and the
\* reservation window as typed unless a Duration cannot hold that many minutes; then it is
\* some other window within the bounds.
LoneSaveIsStored ==
  [][\A a \in Saver :
       /\ saving[a] # NotSaving /\ saving[a].todo = {} /\ saving[a].alone
       /\ saving'[a] = NotSaving
       => LET typed == saving[a].typed
          IN  /\ ShippingCents = typed.shipping_cents /\ Paused = typed.shop_paused
              /\ OrderTTL \in MinTTL..MaxTTL
              /\ Holds(typed.order_ttl_minutes) => OrderTTL = typed.order_ttl_minutes]_settingsVars
=============================================================================
