--------------------------- MODULE MCLocksAndBot ---------------------------
(***************************************************************************)
(* What has to come to an end: the updates the bot is given, and the       *)
(* transactions that wait for each other's row locks. The two share        *)
(* nothing, so a behaviour looks at one of them. Values for the constants  *)
(* that a configuration file cannot write down.                            *)
(***************************************************************************)
EXTENDS FrontDoor, VariantLocks, TLC

CONSTANTS u1, u2

VARIABLE scene  \* what this behaviour looks at

Limits == [login |-> 1, webhook |-> 1]
Windows == [login |-> 1, webhook |-> 1]
WhatIsAsked == (u1 :> "link") @@ (u2 :> "nothing")

\* Bound: no restart follows another one, or a request, within a window. A handler that
\* runs stays in progress over any number of ticks.
LongSince ==
  \A r \in Rule, c \in Client : passed[c][r][Window[r]] = 0 /\ restarts[r][Window[r]] = 0

BotScene ==
  \/ \E d \in Delivery, u \in Update : Webhook(d, u)
  \/ Bot
  \/ Housekeeping \/ Tick
  \/ LongSince /\ Restart

MCInit ==
  /\ DoorInit /\ Init
  /\ scene \in {"bot", "locks"}
  /\ scene = "bot" => \A v \in Variant : committed[v].stock = 0

MCNext ==
  /\ \/ scene = "bot" /\ BotScene /\ UNCHANGED lockVars
     \/ scene = "locks" /\ Next /\ UNCHANGED doorVars
  /\ UNCHANGED scene

\* DoorFairness, of the scene with updates, and LockFairness of the one with transactions:
\* nothing is owed in the other.
MCFairness ==
  /\ WF_doorVars(scene = "bot" /\ Tick)
  /\ \A d \in Delivery :
       WF_doorVars(scene = "bot" /\ HandlerStep(d) /\ UNCHANGED <<limiterVars, sessionVars>>)
  /\ \A u \in Update :
       SF_doorVars(scene = "bot" /\ \E d \in Delivery : Webhook(d, u) /\ slot' # slot)
  /\ \A t \in Tx :
       /\ WF_lockVars(scene = "locks" /\ (UpdateRow(t) \/ Miss(t) \/ Commit(t)))
       /\ WF_lockVars(scene = "locks" /\ BreakDeadlock(t))

MCSpec == MCInit /\ [][MCNext]_<<doorVars, lockVars, scene>> /\ MCFairness
=============================================================================
