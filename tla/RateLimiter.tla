---------------------------- MODULE RateLimiter ----------------------------
(***************************************************************************)
(* The request limits of the shop (httpx/middleware/ratelimit.go): fixed   *)
(* windows counted in memory, one for each rule and client address, and    *)
(* the walk through X-Forwarded-For that finds the address                 *)
(* (httpx/middleware/clientip.go).                                         *)
(*                                                                         *)
(* Time is a number of ticks. A window keeps the ticks it has left instead *)
(* of the moment it ends, so that the clock never runs out of numbers.     *)
(***************************************************************************)
EXTENDS Integers, Sequences, SequencesExt

CONSTANTS
  Rule,       \* the rules of the table that are looked at
  Client,     \* addresses on the internet
  Hop,        \* addresses only our own network can have: the proxy
  Malformed,  \* an entry of X-Forwarded-For that is no address
  Limit,      \* Rule.Limit
  Window      \* Rule.Window, in ticks

ASSUME AddressAssumption == Client \cap Hop = {} /\ Malformed \notin Client \cup Hop
ASSUME RuleAssumption ==
  /\ Limit \in [Rule -> Nat \ {0}]
  /\ Window \in [Rule -> Nat \ {0}]

VARIABLES
  windows,  \* Limiter.windows: NoWindow or the count and the ticks left
  passed,   \* history: how many requests a client got through in the last so many ticks
  restarts  \* history: how often the process started anew in the last so many ticks

limiterVars == <<windows, passed, restarts>>

Address == Client \cup Hop
NoWindow == [count |-> 0, left |-> -1]
Never(r) == [ticks \in 0..Window[r] |-> 0]

\* A history has one more of its kind now, or is one tick older.
OneMoreNow(history) == [ticks \in DOMAIN history |-> history[ticks] + 1]
TickOlder(history) ==
  [ticks \in DOMAIN history |-> IF ticks = 0 THEN 0 ELSE history[ticks - 1]]

LimiterInit ==
  /\ windows = [key \in Rule \X Address |-> NoWindow]
  /\ passed = [c \in Client |-> [r \in Rule |-> Never(r)]]
  /\ restarts = [r \in Rule |-> Never(r)]

\* Fault (mutation run): the chain is walked from the left.
ClientIPFromLeft(peer, forwarded) ==
  LET believed == SelectSeq(forwarded, LAMBDA a : a \notin Hop)
  IN IF peer \notin Hop \/ believed = <<>> \/ believed[1] = Malformed THEN peer ELSE believed[1]

\* A peer of our own network is believed about the hops it names, from the right to
\* the first that is none of ours; a malformed entry ends the walk at the peer.
ClientIP(peer, forwarded) ==
  LET last == SelectLastInSeq(forwarded, LAMBDA a : a \notin Hop)
  IN IF peer \notin Hop \/ last = 0 \/ forwarded[last] = Malformed
       THEN peer ELSE forwarded[last]

Allowed(key) ==
  windows[key].left < 0 \/ windows[key].count < Limit[key[1]]

\* Allow, answered true, for a request of client c that is counted under key.
Allow(key, c) ==
  /\ Allowed(key)
  /\ windows' = [windows EXCEPT ![key] =
       IF @.left < 0 THEN [count |-> 1, left |-> Window[key[1]]]
       ELSE [count |-> @.count + 1, left |-> @.left]]
  /\ passed' = [passed EXCEPT ![c][key[1]] = OneMoreNow(@)]
  /\ UNCHANGED restarts

\* "too many requests": the window is left as it is.
Refuse(key) == ~Allowed(key) /\ UNCHANGED limiterVars

\* Cleanup: expired windows are dropped.
Cleanup ==
  /\ windows' = [key \in DOMAIN windows |->
                   IF windows[key].left < 0 THEN NoWindow ELSE windows[key]]
  /\ UNCHANGED <<passed, restarts>>

\* NewLimiter: the windows are lost with the process, and what they have counted.
RestartLimiter ==
  /\ windows' = [key \in Rule \X Address |-> NoWindow]
  /\ restarts' = [r \in Rule |-> OneMoreNow(restarts[r])]
  /\ UNCHANGED passed

LimiterTick ==
  /\ windows' = [key \in DOMAIN windows |->
                   [windows[key] EXCEPT !.left = IF @ < 0 THEN @ ELSE @ - 1]]
  /\ passed' = [c \in Client |-> [r \in Rule |-> TickOlder(passed[c][r])]]
  /\ restarts' = [r \in Rule |-> TickOlder(restarts[r])]

-----------------------------------------------------------------------------
(* Properties.                                                             *)

\* The limits of tech.md 9.6 hold for the client itself, whatever it writes into
\* X-Forwarded-For: however its requests fall across the borders of the fixed windows
\* and whenever the cleanup runs, any stretch of one window's length sees at most
\* twice the limit - and once the limit more for every restart in the stretch, as the
\* counts are kept in memory only.
BurstBounded ==
  \A c \in Client, r \in Rule :
    passed[c][r][Window[r]] <= (2 + restarts[r][Window[r]]) * Limit[r]
=============================================================================
