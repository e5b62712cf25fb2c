------------------------------ MODULE BotInbox ------------------------------
(***************************************************************************)
(* Updates from Telegram (handler/webhook/telegram.go, telegram/router.go).*)
(*                                                                         *)
(* Telegram delivers an update until it is acknowledged, and a delivery    *)
(* that times out may still be running when the next one arrives. The shop *)
(* records the update id before it handles the update and acknowledges     *)
(* whatever comes of that: it prefers to lose an update to doing it twice. *)
(***************************************************************************)
EXTENDS Naturals, FiniteSets

CONSTANTS
  Update,       \* updates the shop can parse
  Asks,         \* what each of them asks for
  Delivery,     \* deliveries that may be running at the same time
  MaxFailures   \* bound on failed statements and process stops

ASSUME AsksAssumption == Asks \in [Update -> {"link", "help", "status", "nothing"}]
ASSUME MaxFailuresAssumption == MaxFailures \in Nat

VARIABLES
  seen,      \* telegram_updates
  slot,      \* deliveries in progress
  pending,   \* updates Telegram holds and has no acknowledgement for
  arrived,   \* history: updates ever sent to the bot
  effects,   \* history: how often each was answered: a reply or a link
  failures   \* history: failed statements and stops so far

inboxVars == <<seen, slot, pending, arrived, effects, failures>>

Free == [phase |-> "free"]
At(phase, u) == [phase |-> phase, update |-> u]

InboxInit ==
  /\ seen = {} /\ pending = {} /\ arrived = {} /\ failures = 0
  /\ slot = [d \in Delivery |-> Free]
  /\ effects = [u \in Update |-> 0]

\* Somebody writes to the bot.
Write(u) ==
  /\ u \notin arrived
  /\ arrived' = arrived \cup {u}
  /\ pending' = pending \cup {u}
  /\ UNCHANGED <<seen, slot, effects, failures>>

\* The request reaches the handler, its secrets check out and its body is read.
Deliver(d, u) ==
  /\ slot[d] = Free
  /\ u \in pending
  /\ slot' = [slot EXCEPT ![d] = At("parsed", u)]
  /\ UNCHANGED <<seen, pending, arrived, effects, failures>>

\* ok(w): the answer reaches Telegram, or gets lost.
Acknowledge(d) ==
  /\ slot' = [slot EXCEPT ![d] = Free]
  /\ pending' \in {pending, pending \ {slot[d].update}}
  /\ failures' = IF pending' = pending /\ slot[d].update \in pending THEN failures + 1 ELSE failures
  /\ failures' <= MaxFailures

\* Fault (mutation run): nobody looks whether the insert has added a row.
SeenUpdateUncounted(d) ==
  /\ slot[d].phase = "parsed"
  /\ seen' = seen \cup {slot[d].update}
  /\ slot' = [slot EXCEPT ![d] = At("handling", slot[d].update)]
  /\ UNCHANGED <<pending, arrived, effects, failures>>

\* SeenUpdate: one INSERT ... ON CONFLICT DO NOTHING decides who handles the update ...
SeenUpdate(d) ==
  /\ slot[d].phase = "parsed" /\ slot[d].update \notin seen
  /\ seen' = seen \cup {slot[d].update}
  /\ slot' = [slot EXCEPT ![d] = At("handling", slot[d].update)]
  /\ UNCHANGED <<pending, arrived, effects, failures>>

\* ... and everybody else only acknowledges it.
AlreadySeen(d) ==
  /\ slot[d].phase = "parsed" /\ slot[d].update \in seen
  /\ Acknowledge(d)
  /\ UNCHANGED <<seen, arrived, effects>>

\* The statement fails and the answer is a 500: Telegram will try again.
SeenUpdateFails(d) ==
  /\ slot[d].phase = "parsed" /\ failures < MaxFailures
  /\ failures' = failures + 1
  /\ slot' = [slot EXCEPT ![d] = Free]
  /\ UNCHANGED <<seen, pending, arrived, effects>>

\* Router.Handle: /start with a code links the order (OrderStock has that transaction),
\* anything else is replied to, and an update without a message is nothing to the bot.
\* An error is only logged.
Handle(d) ==
  LET u == slot[d].update
  IN /\ slot[d].phase = "handling"
     /\ effects' \in IF Asks[u] = "nothing" THEN {effects}
                     ELSE {effects, [effects EXCEPT ![u] = @ + 1]}
     /\ slot' = [slot EXCEPT ![d] = At("answering", u)]
     /\ UNCHANGED <<seen, pending, arrived, failures>>

\* Fault (mutation run): an error of the router is answered with a 500 for ever.
AnswerHandled(d) ==
  /\ slot[d].phase = "answering" /\ effects[slot[d].update] > 0
  /\ Acknowledge(d)
  /\ UNCHANGED <<seen, arrived, effects>>

Answer(d) ==
  /\ slot[d].phase = "answering"
  /\ Acknowledge(d)
  /\ UNCHANGED <<seen, arrived, effects>>

\* The process stops: every delivery in progress is gone, and none was acknowledged.
StopInbox ==
  /\ failures < MaxFailures
  /\ failures' = failures + 1
  /\ slot' = [d \in Delivery |-> Free]
  /\ UNCHANGED <<seen, pending, arrived, effects>>

HandlerStep(d) == SeenUpdate(d) \/ AlreadySeen(d) \/ Handle(d) \/ Answer(d)

-----------------------------------------------------------------------------
(* Properties.                                                             *)

InboxTypeOK ==
  /\ seen \subseteq arrived /\ pending \subseteq arrived /\ arrived \subseteq Update
  /\ slot \in [Delivery -> {Free} \cup [phase : {"parsed", "handling", "answering"}, update : Update]]
  /\ effects \in [Update -> Nat] /\ failures \in 0..MaxFailures

\* "A retry must never be able to multiply the effect of an update" (Handle): redelivered,
\* delivered twice at once or cut off by a stop, an update is answered at most once.
AnsweredAtMostOnce == \A u \in Update : effects[u] <= 1

\* Telegram gets rid of every update: whatever became of it, some delivery is acknowledged.
EveryUpdateAcknowledged == \A u \in Update : u \in pending ~> u \notin pending
=============================================================================
