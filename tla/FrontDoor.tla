----------------------------- MODULE FrontDoor -----------------------------
(***************************************************************************)
(* What stands between the internet and the shop's panel and bot, on one   *)
(* clock: the limits every request passes first, the two ways to sign in,  *)
(* the updates Telegram delivers, and the housekeeping that clears up      *)
(* behind them (httpx/router.go, cmd/app/serve.go).                        *)
(***************************************************************************)
EXTENDS RateLimiter, AdminSessions, BotInbox

CONSTANTS
  Telegram,   \* the address Telegram's requests come from
  Proxy,      \* the address of our own proxy
  Claims      \* chains of addresses a client may write into X-Forwarded-For itself

ASSUME FrontDoorAssumption ==
  /\ Telegram \in Client /\ Proxy \in Hop
  /\ {"login", "webhook"} \subseteq Rule
  /\ Claims \subseteq Seq(Address \cup {Malformed})

doorVars == <<limiterVars, sessionVars, inboxVars>>

DoorInit == LimiterInit /\ SessionsInit /\ InboxInit

\* The key of a request of client c: it comes through the proxy, which appends the
\* address it sees, or straight from the internet. match names the rule.
Key(rule, c, claimed, direct) ==
  <<rule, IF direct THEN ClientIP(c, claimed) ELSE ClientIP(Proxy, Append(claimed, c))>>

\* POST /admin/login: limited before the password is looked at.
SignIn(c, claimed, direct) ==
  LET key == Key("login", c, claimed, direct)
  IN /\ \/ /\ Allow(key, c)
           /\ \/ UNCHANGED sessionVars
              \/ \E b \in Browser, a \in Administrator : Login(b, a)
              \/ \E a \in Administrator : LoginHalfDone(a)
        \/ Refuse(key) /\ UNCHANGED sessionVars
     /\ UNCHANGED inboxVars

\* POST /webhooks/telegram: a delivery over the limit is answered 429 and comes again.
Webhook(d, u) ==
  LET key == Key("webhook", Telegram, <<>>, FALSE)
  IN /\ u \in pending /\ slot[d] = Free
     /\ \/ Allow(key, Telegram) /\ Deliver(d, u)
        \/ Refuse(key) /\ UNCHANGED inboxVars
     /\ UNCHANGED sessionVars

Panel == SessionsStep /\ UNCHANGED <<limiterVars, inboxVars>>

Bot ==
  /\ \/ \E u \in Update : Write(u)
     \/ \E d \in Delivery : HandlerStep(d) \/ SeenUpdateFails(d)
  /\ UNCHANGED <<limiterVars, sessionVars>>

\* housekeeping: one pass over the windows and one statement over the sessions, which
\* may fail.
Housekeeping ==
  /\ Cleanup
  /\ DeleteExpired \/ UNCHANGED sessionVars
  /\ UNCHANGED inboxVars

\* The process stops and starts again.
Restart == RestartLimiter /\ StopSessions /\ StopInbox

Tick == LimiterTick /\ SessionsTick /\ UNCHANGED inboxVars

DoorNext ==
  \/ \E c \in Client, claimed \in Claims, direct \in BOOLEAN : SignIn(c, claimed, direct)
  \/ \E d \in Delivery, u \in Update : Webhook(d, u)
  \/ Panel \/ Bot
  \/ Housekeeping \/ Restart \/ Tick

DoorSpec == DoorInit /\ [][DoorNext]_doorVars

\* The clock advances, a handler that runs goes on, and Telegram retries an update it
\* has no acknowledgement for until one of its requests is let in.
DoorFairness ==
  /\ WF_doorVars(Tick)
  /\ \A d \in Delivery : WF_doorVars(HandlerStep(d) /\ UNCHANGED <<limiterVars, sessionVars>>)
  /\ \A u \in Update : SF_doorVars(\E d \in Delivery : Webhook(d, u) /\ slot' # slot)

=============================================================================
