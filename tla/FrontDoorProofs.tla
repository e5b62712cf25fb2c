-------------------------- MODULE FrontDoorProofs ---------------------------
(***************************************************************************)
(* Theorems about the panel and the bot behind the front door, for any     *)
(* number of browsers, administrators, sessions, updates and deliveries;   *)
(* and about the forms of a browser with any number of tabs.               *)
(*                                                                         *)
(* The parts of FrontDoor share the clock and the process only: a step of  *)
(* the whole is a step of each part or leaves it alone (DoorSteps), and    *)
(* each part has an invariant of its own.                                  *)
(***************************************************************************)
EXTENDS FrontDoor, FormTokens, Sums, TLAPS

\* What a step of the front door can do to the sessions ...
SessionsMove ==
  \/ SessionsStep
  \/ \E b \in Browser, a \in Administrator : Login(b, a)
  \/ \E a \in Administrator : LoginHalfDone(a)
  \/ DeleteExpired \/ StopSessions \/ SessionsTick

\* ... and to the inbox.
InboxMove ==
  \/ \E u \in Update : Write(u)
  \/ \E d \in Delivery, u \in Update : Deliver(d, u)
  \/ \E d \in Delivery : HandlerStep(d) \/ SeenUpdateFails(d)
  \/ StopInbox

LEMMA DoorSteps ==
  ASSUME [DoorNext]_doorVars
  PROVE  [SessionsMove]_sessionVars /\ [InboxMove]_inboxVars
<1>1. CASE UNCHANGED doorVars
  BY <1>1 DEF doorVars
<1>2. ASSUME NEW c \in Client, NEW claimed \in Claims, NEW direct \in BOOLEAN,
             SignIn(c, claimed, direct)
      PROVE  [SessionsMove]_sessionVars /\ [InboxMove]_inboxVars
  <2>1. UNCHANGED inboxVars
    BY <1>2 DEF SignIn
  <2>2. \/ UNCHANGED sessionVars
        \/ \E b \in Browser, a \in Administrator : Login(b, a)
        \/ \E a \in Administrator : LoginHalfDone(a)
    BY <1>2 DEF SignIn
  <2> QED
    BY <2>1, <2>2 DEF SessionsMove, SessionsStep
<1>3. ASSUME NEW d \in Delivery, NEW u \in Update, Webhook(d, u)
      PROVE  [SessionsMove]_sessionVars /\ [InboxMove]_inboxVars
  <2>1. UNCHANGED sessionVars /\ (Deliver(d, u) \/ UNCHANGED inboxVars)
    BY <1>3 DEF Webhook
  <2> QED
    BY <2>1 DEF InboxMove
<1>4. CASE Panel \/ Bot \/ Housekeeping \/ Restart \/ Tick
  BY <1>4 DEF Panel, Bot, Housekeeping, Restart, Tick, SessionsMove, InboxMove
<1> QED
  BY <1>1, <1>2, <1>3, <1>4 DEF DoorNext

-----------------------------------------------------------------------------
(* A client gets through at most twice the limit in one window's length,   *)
(* and the limit more for every restart in it.                             *)

\* What a step of the front door can do to the limits.
LimiterMove ==
  \/ \E rule \in Rule, c \in Client : Allow(<<rule, c>>, c)
  \/ Cleanup \/ RestartLimiter \/ LimiterTick

\* The last hop that is not ours, where the client is the last.
LEMMA LastForeignHop ==
  ASSUME NEW All, NEW claimed \in Seq(All), NEW c \in All, c \notin Hop
  PROVE  SelectLastInSeq(Append(claimed, c), LAMBDA a : a \notin Hop) = Len(claimed) + 1
<1> DEFINE chain == Append(claimed, c)
<1> DEFINE Foreign == {i \in 1..Len(chain) : chain[i] \notin Hop}
<1>1. Len(chain) = Len(claimed) + 1 /\ chain[Len(claimed) + 1] = c /\ Len(claimed) \in Nat
  OBVIOUS
<1>3. Len(claimed) + 1 \in Foreign /\ \A i \in Foreign : Len(claimed) + 1 >= i
  BY <1>1
<1>4. Foreign \subseteq Int
  OBVIOUS
<1> HIDE DEF Foreign
<1> DEFINE m == Len(claimed) + 1
<1>6. m \in Foreign /\ \A i \in Foreign : m >= i
  BY <1>3
<1> HIDE DEF m
<1>5. Max(Foreign) \in Foreign /\ \A i \in Foreign : Max(Foreign) >= i
  BY <1>6, Greatest
<1>7. Max(Foreign) = m
  <2>1. Max(Foreign) \in Int /\ m \in Int
    BY <1>1, <1>4, <1>5, <1>6
  <2>2. Max(Foreign) >= m /\ m >= Max(Foreign)
    BY <1>5, <1>6
  <2> QED
    BY <2>1, <2>2
<1> QED
  BY <1>3, <1>7 DEF SelectLastInSeq, Foreign, m

\* Whatever a client writes into X-Forwarded-For, it is counted under its own address.
LEMMA CountedAsItself ==
  ASSUME NEW rule, NEW c \in Client, NEW claimed \in Seq(Address \cup {Malformed}),
         NEW direct \in BOOLEAN
  PROVE  Key(rule, c, claimed, direct) = <<rule, c>>
<1>1. c \notin Hop /\ c # Malformed /\ Proxy \in Hop
  BY AddressAssumption, FrontDoorAssumption
<1>2. ClientIP(c, claimed) = c
  BY <1>1 DEF ClientIP
<1>3. ClientIP(Proxy, Append(claimed, c)) = c
  <2>0. c \in Address \cup {Malformed}
    BY DEF Address
  <2>1. Append(claimed, c)[Len(claimed) + 1] = c /\ Len(claimed) + 1 # 0
    BY <2>0
  <2> QED
    BY <1>1, <2>0, <2>1, LastForeignHop DEF ClientIP
<1> QED
  BY <1>2, <1>3 DEF Key

LEMMA LimiterSteps ==
  ASSUME [DoorNext]_doorVars
  PROVE  [LimiterMove]_limiterVars
<1>1. CASE UNCHANGED doorVars
  BY <1>1 DEF doorVars
<1>2. ASSUME NEW c \in Client, NEW claimed \in Claims, NEW direct \in BOOLEAN,
             SignIn(c, claimed, direct)
      PROVE  [LimiterMove]_limiterVars
  <2>1. Key("login", c, claimed, direct) = <<"login", c>> /\ "login" \in Rule
    BY FrontDoorAssumption, CountedAsItself
  <2>2. Allow(<<"login", c>>, c) \/ UNCHANGED limiterVars
    BY <1>2, <2>1 DEF SignIn, Refuse
  <2> QED
    BY <2>1, <2>2 DEF LimiterMove
<1>3. ASSUME NEW d \in Delivery, NEW u \in Update, Webhook(d, u)
      PROVE  [LimiterMove]_limiterVars
  <2>1. Telegram \in Client /\ "webhook" \in Rule
    BY FrontDoorAssumption
  <2>2. Key("webhook", Telegram, <<>>, FALSE) = <<"webhook", Telegram>>
    <3>1. <<>> \in Seq(Address \cup {Malformed}) /\ FALSE \in BOOLEAN
      OBVIOUS
    <3> QED
      BY <2>1, <3>1, CountedAsItself
  <2>3. Allow(<<"webhook", Telegram>>, Telegram) \/ UNCHANGED limiterVars
    BY <1>3, <2>2 DEF Webhook, Refuse
  <2> QED
    BY <2>1, <2>3 DEF LimiterMove
<1>4. CASE Panel \/ Bot \/ Housekeeping \/ Restart \/ Tick
  BY <1>4 DEF Panel, Bot, Housekeeping, Restart, Tick, LimiterMove
<1> QED
  BY <1>1, <1>2, <1>3, <1>4 DEF DoorNext

\* So many whole limits.
Limits(n, limit) == n * limit

LEMMA LimitsAdd ==
  ASSUME NEW n \in Nat, NEW limit \in Nat
  PROVE  /\ Limits(n, limit) \in Nat /\ Limits(0, limit) = 0 /\ Limits(1, limit) = limit
         /\ Limits(n + 1, limit) = Limits(n, limit) + limit
         /\ Limits(2 + n, limit) = Limits(1 + n, limit) + limit
         /\ limit <= Limits(1 + n, limit)
<1>1. \A a, b \in Nat : a * b \in Nat
  OBVIOUS
<1>2. n * limit \in Nat
  BY <1>1
<1>3. (n + 1) * limit = n * limit + limit /\ (2 + n) * limit = n * limit + 2 * limit
  OBVIOUS
<1>4. (1 + n) * limit = n * limit + limit
  OBVIOUS
<1> QED
  BY <1>2, <1>3, <1>4 DEF Limits

\* A history by the ticks one looks back.
Histories(length) == [0..length -> Nat]

\* What holds of one window of a rule, of the requests p its client got through and of the
\* restarts k. No window: a limit, and one more for every restart. A window: those younger
\* than its start are counted; looking back beyond it, there are the counted ones and what
\* came before there was a window.
WithinLimit(p, k, count, left, length, limit) ==
  /\ left < 0 => \A x \in 0..length : p[x] <= Limits(1 + k[x], limit)
  /\ left >= 0 =>
       /\ count <= limit
       /\ \A x \in 0..length :
            IF x < length - left THEN p[x] <= count ELSE p[x] <= count + Limits(1 + k[x], limit)

LEMMA WithinBurst ==
  ASSUME NEW length \in Nat, NEW limit \in Nat,
         NEW p \in Histories(length), NEW k \in Histories(length),
         NEW count \in Nat, NEW left \in -1..length, WithinLimit(p, k, count, left, length, limit)
  PROVE  p[length] <= Limits(2 + k[length], limit)
<1>1. p[length] \in Nat /\ k[length] \in Nat /\ length \in 0..length
  BY DEF Histories
<1>2. PICK n \in Nat : n = k[length]
  BY <1>1
<1>3. /\ Limits(2 + n, limit) = Limits(1 + n, limit) + limit /\ limit <= Limits(1 + n, limit)
      /\ Limits(1 + n, limit) \in Nat
  <2>1. 1 + n \in Nat
    OBVIOUS
  <2> QED
    BY <2>1, LimitsAdd
<1>4. CASE left < 0
  BY <1>1, <1>2, <1>3, <1>4 DEF WithinLimit
<1>5. CASE left >= 0
  <2>1. count <= limit /\ (p[length] <= count \/ p[length] <= count + Limits(1 + n, limit))
    BY <1>1, <1>2, <1>5 DEF WithinLimit
  <2> QED
    BY <1>1, <1>2, <1>3, <2>1
<1> QED
  BY <1>4, <1>5

\* The history q is p one tick on.
OneTickOn(p, q, length) ==
  q[0] = 0 /\ \A x \in 0..length : x # 0 => x - 1 \in 0..length /\ q[x] = p[x - 1]

\* A tick, while the window runs ...
LEMMA TickRunning ==
  ASSUME NEW length \in Nat, NEW limit \in Nat,
         NEW p \in Histories(length), NEW k \in Histories(length),
         NEW count \in Nat, NEW left \in 1..length,
         WithinLimit(p, k, count, left, length, limit),
         NEW q, OneTickOn(p, q, length), NEW j, OneTickOn(k, j, length)
  PROVE  WithinLimit(q, j, count, left - 1, length, limit)
<1>1. left - 1 >= 0 /\ ~(left - 1 < 0) /\ left >= 0
  OBVIOUS
<1>2. count <= limit
  BY <1>1 DEF WithinLimit
<1>3. ASSUME NEW x \in 0..length
      PROVE  IF x < length - (left - 1) THEN q[x] <= count
             ELSE q[x] <= count + Limits(1 + j[x], limit)
  <2>1. CASE x = 0
    <3>1. q[x] = 0 /\ x < length - (left - 1)
      BY <2>1 DEF OneTickOn
    <3> QED
      BY <3>1
  <2>2. CASE x # 0
    <3>1. PICK y \in 0..length : y = x - 1
      BY <2>2
    <3>2. q[x] = p[y] /\ j[x] = k[y]
      BY <2>2, <3>1 DEF OneTickOn
    <3>3. IF y < length - left THEN p[y] <= count ELSE p[y] <= count + Limits(1 + k[y], limit)
      BY <1>1 DEF WithinLimit
    <3>4. (y < length - left) <=> (x < length - (left - 1))
      BY <3>1
    <3> QED
      BY <3>2, <3>3, <3>4
  <2> QED
    BY <2>1, <2>2
<1> QED
  BY <1>1, <1>2, <1>3 DEF WithinLimit

\* ... and when it has run out.
LEMMA TickOut ==
  ASSUME NEW length \in Nat \ {0}, NEW limit \in Nat,
         NEW p \in Histories(length), NEW k \in Histories(length),
         NEW count \in Nat, NEW left \in {-1, 0},
         WithinLimit(p, k, count, left, length, limit),
         NEW q, OneTickOn(p, q, length), NEW j, OneTickOn(k, j, length)
  PROVE  WithinLimit(q, j, count, -1, length, limit)
<1>1. ASSUME NEW x \in 0..length PROVE q[x] <= Limits(1 + j[x], limit)
  <2>1. CASE x = 0
    <3>1. q[x] = 0 /\ j[x] = 0
      BY <2>1 DEF OneTickOn
    <3>2. Limits(1 + 0, limit) \in Nat
      BY LimitsAdd
    <3>3. 0 <= Limits(1 + 0, limit)
      BY <3>2
    <3> QED
      BY <3>1, <3>3
  <2>2. CASE x # 0
    <3>1. PICK y \in 0..length : y = x - 1 /\ y < length
      BY <2>2
    <3>2. q[x] = p[y] /\ j[x] = k[y]
      BY <2>2, <3>1 DEF OneTickOn
    <3>3. PICK n \in Nat : n = k[y]
      BY DEF Histories
    <3>4. p[y] \in Nat /\ Limits(1 + n, limit) \in Nat /\ limit <= Limits(1 + n, limit)
      <4>1. 1 + n \in Nat /\ p[y] \in Nat
        BY DEF Histories
      <4> QED
        BY <4>1, LimitsAdd
    <3>5. p[y] <= Limits(1 + n, limit)
      <4>1. CASE left < 0
        BY <3>3, <4>1 DEF WithinLimit
      <4>2. CASE left = 0
        <5>1. left >= 0 /\ y < length - left
          BY <3>1, <4>2
        <5>2. p[y] <= count /\ count <= limit
          BY <5>1 DEF WithinLimit
        <5> QED
          BY <3>4, <5>2
      <4> QED
        BY <4>1, <4>2
    <3> QED
      BY <3>2, <3>3, <3>5
  <2> QED
    BY <2>1, <2>2
<1>2. -1 < 0 /\ ~(-1 >= 0)
  OBVIOUS
<1> QED
  BY <1>1, <1>2 DEF WithinLimit

\* The history q is p and one more now.
OneMore(p, q, length) == \A x \in 0..length : q[x] = p[x] + 1

\* A request the running window lets in, or that starts the next.
LEMMA AllowWithin ==
  ASSUME NEW length \in Nat, NEW limit \in Nat \ {0},
         NEW p \in Histories(length), NEW k \in Histories(length),
         NEW count \in Nat, NEW left \in -1..length, left < 0 \/ count < limit,
         WithinLimit(p, k, count, left, length, limit), NEW q, OneMore(p, q, length)
  PROVE  /\ left < 0 => WithinLimit(q, k, 1, length, length, limit)
         /\ ~(left < 0) => WithinLimit(q, k, count + 1, left, length, limit)
<1>0. ASSUME NEW x \in 0..length
      PROVE  /\ p[x] \in Nat /\ q[x] = p[x] + 1 /\ k[x] \in Nat
             /\ Limits(1 + k[x], limit) \in Nat
  <2>1. PICK n \in Nat : n = k[x]
    BY DEF Histories
  <2>2. 1 + n \in Nat /\ limit \in Nat
    OBVIOUS
  <2>3. Limits(1 + n, limit) \in Nat
    BY <2>2, LimitsAdd
  <2> QED
    BY <2>1, <2>3 DEF OneMore, Histories
<1>1. ASSUME left < 0 PROVE WithinLimit(q, k, 1, length, length, limit)
  <2>1. ASSUME NEW x \in 0..length PROVE ~(x < length - length) /\ q[x] <= 1 + Limits(1 + k[x], limit)
    <3>1. p[x] <= Limits(1 + k[x], limit)
      BY <1>1 DEF WithinLimit
    <3> QED
      BY <1>0, <3>1
  <2>2. ~(length < 0) /\ 1 <= limit
    OBVIOUS
  <2> QED
    BY <2>1, <2>2 DEF WithinLimit
<1>2. ASSUME ~(left < 0) PROVE WithinLimit(q, k, count + 1, left, length, limit)
  <2>0. left >= 0 /\ count + 1 <= limit
    BY <1>2
  <2>1. ASSUME NEW x \in 0..length
        PROVE  IF x < length - left THEN q[x] <= count + 1
               ELSE q[x] <= count + 1 + Limits(1 + k[x], limit)
    <3>1. IF x < length - left THEN p[x] <= count ELSE p[x] <= count + Limits(1 + k[x], limit)
      BY <2>0 DEF WithinLimit
    <3>2. PICK m \in Nat : m = Limits(1 + k[x], limit)
      BY <1>0
    <3> QED
      BY <1>0, <3>1, <3>2
  <2> QED
    BY <1>2, <2>0, <2>1 DEF WithinLimit
<1> QED
  BY <1>1, <1>2

\* The windows are gone, and there is one restart more.
LEMMA RestartWithin ==
  ASSUME NEW length \in Nat, NEW limit \in Nat,
         NEW p \in Histories(length), NEW k \in Histories(length),
         NEW count \in Nat, NEW left \in -1..length,
         WithinLimit(p, k, count, left, length, limit), NEW j, OneMore(k, j, length)
  PROVE  WithinLimit(p, j, 0, -1, length, limit)
<1>1. ASSUME NEW x \in 0..length PROVE p[x] <= Limits(1 + j[x], limit)
  <2>1. PICK n \in Nat : n = k[x]
    BY DEF Histories
  <2>2. 1 + j[x] = 2 + n /\ p[x] \in Nat
    BY <2>1 DEF OneMore, Histories
  <2>3. /\ Limits(2 + n, limit) = Limits(1 + n, limit) + limit
        /\ Limits(1 + n, limit) \in Nat
    <3>1. 1 + n \in Nat
      OBVIOUS
    <3> QED
      BY <3>1, LimitsAdd
  <2>4. p[x] <= Limits(2 + n, limit)
    <3>1. CASE left < 0
      <4>1. p[x] <= Limits(1 + n, limit)
        BY <2>1, <3>1 DEF WithinLimit
      <4> QED
        BY <2>2, <2>3, <4>1
    <3>2. CASE left >= 0
      <4>1. count <= limit /\ (p[x] <= count \/ p[x] <= count + Limits(1 + n, limit))
        BY <2>1, <3>2 DEF WithinLimit
      <4> QED
        BY <2>2, <2>3, <4>1
    <3> QED
      BY <3>1, <3>2
  <2> QED
    BY <2>2, <2>4
<1>2. -1 < 0 /\ ~(-1 >= 0)
  OBVIOUS
<1> QED
  BY <1>1, <1>2 DEF WithinLimit

-----------------------------------------------------------------------------
(* ... and so it is for every client, rule and window of the shop.         *)

LimiterTypeOK ==
  /\ windows \in [Rule \X Address -> [count : Nat, left : Int]]
  /\ \A rule \in Rule, a \in Address : windows[<<rule, a>>].left \in -1..Window[rule]
  /\ passed = [c \in Client |-> [rule \in Rule |-> passed[c][rule]]]
  /\ \A c \in Client, rule \in Rule : passed[c][rule] \in Histories(Window[rule])
  /\ restarts = [rule \in Rule |-> restarts[rule]]
  /\ \A rule \in Rule : restarts[rule] \in Histories(Window[rule])

\* The window of a client's own address, and what it let through.
Bounded(c, rule) ==
  WithinLimit(passed[c][rule], restarts[rule], windows[<<rule, c>>].count,
              windows[<<rule, c>>].left, Window[rule], Limit[rule])

LimiterInv == LimiterTypeOK /\ \A c \in Client, rule \in Rule : Bounded(c, rule)

LEMMA RulesOf ==
  ASSUME NEW rule \in Rule
  PROVE  /\ Limit[rule] \in Nat \ {0} /\ Window[rule] \in Nat \ {0}
         /\ Limit[rule] \in Nat /\ Window[rule] \in Nat
BY RuleAssumption

\* What is known of one client's window.
LEMMA WindowOf ==
  ASSUME LimiterInv, NEW r \in Rule, NEW c \in Client
  PROVE  /\ c \in Address /\ <<r, c>> \in Rule \X Address
         /\ windows[<<r, c>>] \in [count : Nat, left : Int]
         /\ windows[<<r, c>>].count \in Nat /\ windows[<<r, c>>].left \in -1..Window[r]
         /\ passed[c][r] \in Histories(Window[r]) /\ restarts[r] \in Histories(Window[r])
         /\ Window[r] \in Nat \ {0} /\ Limit[r] \in Nat \ {0}
         /\ Window[r] \in Nat /\ Limit[r] \in Nat
         /\ WithinLimit(passed[c][r], restarts[r], windows[<<r, c>>].count,
                        windows[<<r, c>>].left, Window[r], Limit[r])
<1>1. c \in Address
  BY DEF Address
<1> QED
  BY <1>1, RulesOf DEF LimiterInv, LimiterTypeOK, Bounded

\* No windows at all.
LEMMA NoWindows ==
  ASSUME windows = [key \in Rule \X Address |-> NoWindow]
  PROVE  /\ windows \in [Rule \X Address -> [count : Nat, left : Int]]
         /\ \A rule \in Rule, a \in Address :
              /\ windows[<<rule, a>>].left = -1 /\ windows[<<rule, a>>].count = 0
              /\ windows[<<rule, a>>].left \in -1..Window[rule]
<1>1. \A rule \in Rule, a \in Address :
        windows[<<rule, a>>].left = -1 /\ windows[<<rule, a>>].count = 0
  BY DEF NoWindow
<1>2. ASSUME NEW rule \in Rule, NEW a \in Address
      PROVE  windows[<<rule, a>>].left \in -1..Window[rule]
  <2>1. Window[rule] \in Nat /\ windows[<<rule, a>>].left = -1
    BY <1>1, RulesOf
  <2> QED
    BY <2>1
<1> QED
  BY <1>1, <1>2 DEF NoWindow

LEMMA InitLimits == DoorInit => LimiterInv
<1> SUFFICES ASSUME DoorInit PROVE LimiterInv
  OBVIOUS
<1>1. /\ windows = [key \in Rule \X Address |-> NoWindow]
      /\ passed = [c \in Client |-> [r \in Rule |-> Never(r)]]
      /\ restarts = [r \in Rule |-> Never(r)]
  BY DEF DoorInit, LimiterInit
<1>2. \A r \in Rule : Never(r) \in Histories(Window[r])
  BY DEF Never, Histories
<1>3. LimiterTypeOK
  BY <1>1, <1>2, NoWindows DEF LimiterTypeOK
<1>4. ASSUME NEW c \in Client, NEW r \in Rule PROVE Bounded(c, r)
  <2>1. passed[c][r] = Never(r) /\ restarts[r] = Never(r)
    BY <1>1
  <2>2. windows[<<r, c>>].left = -1
    BY <1>1, NoWindows DEF Address
  <2>3. \A x \in 0..Window[r] : Never(r)[x] = 0
    BY DEF Never
  <2>4. 0 <= Limits(1 + 0, Limit[r])
    <3>1. Limits(1, Limit[r]) \in Nat
      BY RulesOf, LimitsAdd
    <3> QED
      BY <3>1
  <2>5. \A x \in 0..Window[r] : Never(r)[x] <= Limits(1 + Never(r)[x], Limit[r])
    BY <2>3, <2>4
  <2>6. -1 < 0 /\ ~(-1 >= 0)
    OBVIOUS
  <2> QED
    BY <2>1, <2>2, <2>5, <2>6 DEF Bounded, WithinLimit
<1> QED
  BY <1>3, <1>4 DEF LimiterInv

LEMMA AllowKeepsLimits ==
  ASSUME LimiterInv, NEW r \in Rule, NEW c \in Client, Allow(<<r, c>>, c)
  PROVE  LimiterInv'
<1> DEFINE key == <<r, c>>
           p == passed[c][r]
           q == passed'[c][r]
           k == restarts[r]
           count == windows[key].count
           left == windows[key].left
           length == Window[r]
           limit == Limit[r]
<1>1. /\ c \in Address /\ key \in Rule \X Address
      /\ windows[key] \in [count : Nat, left : Int] /\ left \in -1..length /\ count \in Nat
      /\ p \in Histories(length) /\ k \in Histories(length)
      /\ length \in Nat \ {0} /\ length \in Nat /\ limit \in Nat \ {0}
      /\ WithinLimit(p, k, count, left, length, limit)
  BY WindowOf
<1>2. \A w \in Rule \X Address : w # key => windows'[w] = windows[w]
  BY <1>1 DEF Allow, LimiterInv, LimiterTypeOK
<1>3. /\ left < 0 => windows'[key] = [count |-> 1, left |-> length]
      /\ ~(left < 0) => windows'[key] = [count |-> count + 1, left |-> left]
      /\ left < 0 \/ count < limit
  BY <1>1 DEF Allow, Allowed, LimiterInv, LimiterTypeOK
<1>4. windows' \in [Rule \X Address -> [count : Nat, left : Int]]
  <2>1. windows'[key] \in [count : Nat, left : Int]
    BY <1>1, <1>3
  <2>2. windows' = [windows EXCEPT ![key] = windows'[key]]
    BY <1>1 DEF Allow, LimiterInv, LimiterTypeOK
  <2> QED
    BY <2>1, <2>2 DEF LimiterInv, LimiterTypeOK
<1>5. /\ \A d \in Client, s \in Rule : <<s, d>> # key => passed'[d][s] = passed[d][s]
      /\ passed' = [d \in Client |-> [s \in Rule |-> passed'[d][s]]]
      /\ restarts' = restarts
  BY DEF Allow, LimiterInv, LimiterTypeOK
<1>6. q = OneMoreNow(p)
  BY DEF Allow, LimiterInv, LimiterTypeOK
<1>7. q \in Histories(length) /\ OneMore(p, q, length)
  <2> HIDE DEF p, q, length
  <2>1. DOMAIN p = 0..length /\ \A x \in 0..length : p[x] \in Nat
    BY <1>1 DEF Histories
  <2> QED
    BY <1>6, <2>1 DEF OneMoreNow, OneMore, Histories
<1>8. Bounded(c, r)' /\ windows'[key].left \in -1..length
  <2>1. CASE left < 0
    <3>1. windows'[key].count = 1 /\ windows'[key].left = length
      BY <1>3, <2>1
    <3> HIDE DEF p, q, k, count, left, length, limit
    <3>2. WithinLimit(q, k, 1, length, length, limit)
      BY <1>1, <1>3, <1>7, <2>1, AllowWithin
    <3> QED
      BY <1>1, <1>5, <3>1, <3>2 DEF Bounded, q, k, length, limit
  <2>2. CASE ~(left < 0)
    <3>1. windows'[key].count = count + 1 /\ windows'[key].left = left
      BY <1>3, <2>2
    <3> HIDE DEF p, q, k, count, left, length, limit
    <3>2. WithinLimit(q, k, count + 1, left, length, limit)
      BY <1>1, <1>3, <1>7, <2>2, AllowWithin
    <3> QED
      BY <1>1, <1>5, <3>1, <3>2 DEF Bounded, q, k, length, limit
  <2> QED
    BY <2>1, <2>2
<1>9. ASSUME NEW d \in Client, NEW s \in Rule, <<s, d>> # key
      PROVE  Bounded(d, s)'
  <2>1. <<s, d>> \in Rule \X Address
    BY DEF Address
  <2>2. windows'[<<s, d>>] = windows[<<s, d>>] /\ passed'[d][s] = passed[d][s]
    BY <1>2, <1>5, <1>9, <2>1
  <2> QED
    BY <1>5, <2>2 DEF Bounded, LimiterInv
<1>10. \A d \in Client, s \in Rule : Bounded(d, s)'
  <2> TAKE d \in Client, s \in Rule
  <2>1. CASE <<s, d>> = key
    BY <1>8, <2>1
  <2>2. CASE <<s, d>> # key
    BY <1>9, <2>2
  <2> QED
    BY <2>1, <2>2
<1>11. \A s \in Rule, a \in Address : windows'[<<s, a>>].left \in -1..Window[s]
  BY <1>2, <1>8 DEF LimiterInv, LimiterTypeOK
<1>12. \A d \in Client, s \in Rule : passed'[d][s] \in Histories(Window[s])
  BY <1>5, <1>7 DEF LimiterInv, LimiterTypeOK
<1> QED
  BY <1>4, <1>5, <1>10, <1>11, <1>12 DEF LimiterInv, LimiterTypeOK

LEMMA CleanupKeepsLimits ==
  ASSUME LimiterInv, Cleanup
  PROVE  LimiterInv'
<1>1. \A key \in Rule \X Address :
        windows'[key] = IF windows[key].left < 0 THEN NoWindow ELSE windows[key]
  BY DEF Cleanup, LimiterInv, LimiterTypeOK
<1>2. windows' \in [Rule \X Address -> [count : Nat, left : Int]]
  BY DEF Cleanup, LimiterInv, LimiterTypeOK, NoWindow
<1>3. \A rule \in Rule, a \in Address : windows'[<<rule, a>>].left = windows[<<rule, a>>].left
  <2> TAKE rule \in Rule, a \in Address
  <2>1. windows[<<rule, a>>].left \in -1..Window[rule] /\ Window[rule] \in Nat
    BY RulesOf DEF LimiterInv, LimiterTypeOK
  <2> QED
    BY <1>1, <2>1 DEF NoWindow
<1>4. ASSUME NEW c \in Client, NEW rule \in Rule
      PROVE  Bounded(c, rule)'
  <2>1. c \in Address /\ <<rule, c>> \in Rule \X Address
    BY DEF Address
  <2>2. Bounded(c, rule) /\ passed' = passed /\ restarts' = restarts
    BY DEF LimiterInv, Cleanup
  <2>3. CASE windows[<<rule, c>>].left < 0
    <3>1. windows[<<rule, c>>].left \in -1..Window[rule] /\ Window[rule] \in Nat
      BY <2>1, RulesOf DEF LimiterInv, LimiterTypeOK
    <3>2. ~(windows[<<rule, c>>].left >= 0)
      BY <2>3, <3>1
    <3> QED
      BY <1>3, <2>1, <2>2, <2>3, <3>2 DEF Bounded, WithinLimit
  <2>4. CASE ~(windows[<<rule, c>>].left < 0)
    <3>1. windows'[<<rule, c>>] = windows[<<rule, c>>]
      BY <1>1, <2>1, <2>4
    <3> QED
      BY <2>2, <3>1 DEF Bounded
  <2> QED
    BY <2>3, <2>4
<1> QED
  BY <1>2, <1>3, <1>4 DEF LimiterInv, LimiterTypeOK, Cleanup

LEMMA RestartKeepsLimits ==
  ASSUME LimiterInv, RestartLimiter
  PROVE  LimiterInv'
<1>1. /\ windows' = [key \in Rule \X Address |-> NoWindow] /\ passed' = passed
      /\ restarts' = [r \in Rule |-> OneMoreNow(restarts[r])]
  BY DEF RestartLimiter
<1>2. /\ windows' \in [Rule \X Address -> [count : Nat, left : Int]]
      /\ \A rule \in Rule, a \in Address :
           /\ windows'[<<rule, a>>].left = -1 /\ windows'[<<rule, a>>].count = 0
           /\ windows'[<<rule, a>>].left \in -1..Window[rule]
  <2>1. (windows = [key \in Rule \X Address |-> NoWindow] =>
          /\ windows \in [Rule \X Address -> [count : Nat, left : Int]]
          /\ \A rule \in Rule, a \in Address :
               /\ windows[<<rule, a>>].left = -1 /\ windows[<<rule, a>>].count = 0
               /\ windows[<<rule, a>>].left \in -1..Window[rule])'
    BY NoWindows, PTL
  <2> QED
    BY <1>1, <2>1
<1>3. ASSUME NEW r \in Rule
      PROVE  restarts'[r] \in Histories(Window[r]) /\ OneMore(restarts[r], restarts'[r], Window[r])
  <2>1. PICK k : k = restarts[r]
    OBVIOUS
  <2>2. DOMAIN k = 0..Window[r] /\ \A x \in 0..Window[r] : k[x] \in Nat
    BY <2>1 DEF LimiterInv, LimiterTypeOK, Histories
  <2>3. restarts'[r] = OneMoreNow(k)
    BY <1>1, <2>1
  <2> QED
    BY <2>1, <2>2, <2>3 DEF OneMoreNow, OneMore, Histories
<1>4. ASSUME NEW c \in Client, NEW r \in Rule PROVE Bounded(c, r)'
  <2>1. windows'[<<r, c>>].left = -1 /\ windows'[<<r, c>>].count = 0
    BY <1>2 DEF Address
  <2>2. WithinLimit(passed[c][r], restarts'[r], 0, -1, Window[r], Limit[r])
    <3> DEFINE p == passed[c][r]
               k == restarts[r]
               j == restarts'[r]
               count == windows[<<r, c>>].count
               left == windows[<<r, c>>].left
               length == Window[r]
               limit == Limit[r]
    <3>1. /\ left \in -1..length /\ count \in Nat
          /\ p \in Histories(length) /\ k \in Histories(length)
          /\ length \in Nat /\ limit \in Nat
          /\ WithinLimit(p, k, count, left, length, limit) /\ OneMore(k, j, length)
      BY <1>3, WindowOf
    <3> HIDE DEF p, k, j, count, left, length, limit
    <3>2. WithinLimit(p, j, 0, -1, length, limit)
      BY <3>1, RestartWithin
    <3> QED
      BY <3>2 DEF p, j, length, limit
  <2> QED
    BY <1>1, <2>1, <2>2 DEF Bounded
<1> QED
  BY <1>1, <1>2, <1>3, <1>4 DEF LimiterInv, LimiterTypeOK

\* A history of the right length grows one tick older.
LEMMA OlderHistory ==
  ASSUME NEW length \in Nat, NEW p \in Histories(length), NEW q, q = TickOlder(p)
  PROVE  q \in Histories(length) /\ OneTickOn(p, q, length)
<1>1. DOMAIN p = 0..length /\ \A x \in 0..length : p[x] \in Nat
  BY DEF Histories
<1>2. \A x \in 0..length : x # 0 => x - 1 \in 0..length
  OBVIOUS
<1> QED
  BY <1>1, <1>2 DEF TickOlder, Histories, OneTickOn

LEMMA TickKeepsLimits ==
  ASSUME LimiterInv, LimiterTick
  PROVE  LimiterInv'
<1>1. ASSUME NEW rule \in Rule, NEW a \in Address
      PROVE  /\ windows'[<<rule, a>>] \in [count : Nat, left : Int]
             /\ windows'[<<rule, a>>].count = windows[<<rule, a>>].count
             /\ windows'[<<rule, a>>].left = (IF windows[<<rule, a>>].left < 0
                  THEN windows[<<rule, a>>].left ELSE windows[<<rule, a>>].left - 1)
             /\ windows'[<<rule, a>>].left \in -1..Window[rule]
  <2>1. <<rule, a>> \in Rule \X Address
    OBVIOUS
  <2>2. PICK w : w = windows[<<rule, a>>]
    OBVIOUS
  <2>3. w \in [count : Nat, left : Int] /\ w.left \in -1..Window[rule] /\ Window[rule] \in Nat
    BY <2>1, <2>2, RulesOf DEF LimiterInv, LimiterTypeOK
  <2>4. windows'[<<rule, a>>] = [w EXCEPT !.left = IF @ < 0 THEN @ ELSE @ - 1]
    BY <2>1, <2>2 DEF LimiterTick, LimiterInv, LimiterTypeOK
  <2>5. windows'[<<rule, a>>] =
          [count |-> w.count, left |-> IF w.left < 0 THEN w.left ELSE w.left - 1]
    BY <2>3, <2>4
  <2> QED
    BY <2>2, <2>3, <2>5
<1>2. windows' \in [Rule \X Address -> [count : Nat, left : Int]]
  <2>1. windows' = [key \in Rule \X Address |-> windows'[key]]
    BY DEF LimiterTick, LimiterInv, LimiterTypeOK
  <2>2. \A key \in Rule \X Address : windows'[key] \in [count : Nat, left : Int]
    BY <1>1
  <2> QED
    BY <2>1, <2>2
<1>3. /\ passed' = [c \in Client |-> [rule \in Rule |-> passed'[c][rule]]]
      /\ restarts' = [rule \in Rule |-> restarts'[rule]]
  BY DEF LimiterTick
<1>4. ASSUME NEW rule \in Rule
      PROVE  /\ restarts'[rule] \in Histories(Window[rule])
             /\ OneTickOn(restarts[rule], restarts'[rule], Window[rule])
  <2>1. restarts'[rule] = TickOlder(restarts[rule])
    BY DEF LimiterTick
  <2>2. restarts[rule] \in Histories(Window[rule]) /\ Window[rule] \in Nat
    BY RulesOf DEF LimiterInv, LimiterTypeOK
  <2> QED
    BY <2>1, <2>2, OlderHistory
<1>5. ASSUME NEW c \in Client, NEW rule \in Rule
      PROVE  passed'[c][rule] \in Histories(Window[rule]) /\ Bounded(c, rule)'
  <2> DEFINE p == passed[c][rule]
             q == passed'[c][rule]
             k == restarts[rule]
             j == restarts'[rule]
             count == windows[<<rule, c>>].count
             left == windows[<<rule, c>>].left
             length == Window[rule]
             limit == Limit[rule]
  <2>1. /\ c \in Address /\ left \in -1..length /\ count \in Nat
        /\ p \in Histories(length) /\ k \in Histories(length)
        /\ length \in Nat \ {0} /\ length \in Nat /\ limit \in Nat
        /\ WithinLimit(p, k, count, left, length, limit)
    BY WindowOf
  <2>2. q = TickOlder(p)
    BY DEF LimiterTick
  <2>3. /\ windows'[<<rule, c>>].count = count
        /\ windows'[<<rule, c>>].left = IF left < 0 THEN left ELSE left - 1
    BY <1>1, <2>1
  <2>4. j \in Histories(length) /\ OneTickOn(k, j, length)
    BY <1>4
  <2> HIDE DEF p, q, k, j, count, left, length, limit
  <2>5. q \in Histories(length) /\ OneTickOn(p, q, length)
    BY <2>1, <2>2, OlderHistory
  <2>6. CASE left > 0
    <3>1. left \in 1..length /\ windows'[<<rule, c>>].left = left - 1
      BY <2>1, <2>3, <2>6
    <3>2. WithinLimit(q, j, count, left - 1, length, limit)
      BY <2>1, <2>4, <2>5, <3>1, TickRunning
    <3> QED
      BY <2>3, <2>5, <3>1, <3>2 DEF Bounded, q, j, length, limit
  <2>7. CASE ~(left > 0)
    <3>1. left \in {-1, 0} /\ windows'[<<rule, c>>].left = -1
      BY <2>1, <2>3, <2>7
    <3>2. WithinLimit(q, j, count, -1, length, limit)
      BY <2>1, <2>4, <2>5, <3>1, TickOut
    <3> QED
      BY <2>3, <2>5, <3>1, <3>2 DEF Bounded, q, j, length, limit
  <2> QED
    BY <2>6, <2>7
<1> QED
  BY <1>1, <1>2, <1>3, <1>4, <1>5 DEF LimiterInv, LimiterTypeOK

\* BurstBounded holds for every table of limits and any number of clients, whatever they
\* write into X-Forwarded-For, whenever windows are cleaned up and however often the
\* process starts anew (Limiter.Allow, ClientIP, NewLimiter).
THEOREM BurstBoundedHolds == DoorSpec => []BurstBounded
<1>1. DoorInit => LimiterInv
  BY InitLimits
<1>2. LimiterInv /\ [DoorNext]_doorVars => LimiterInv'
  <2> SUFFICES ASSUME LimiterInv, [DoorNext]_doorVars PROVE LimiterInv'
    OBVIOUS
  <2>1. [LimiterMove]_limiterVars
    BY LimiterSteps
  <2>2. CASE UNCHANGED limiterVars
    BY <2>2 DEF limiterVars, LimiterInv, LimiterTypeOK, Bounded
  <2>3. CASE \E rule \in Rule, c \in Client : Allow(<<rule, c>>, c)
    BY <2>3, AllowKeepsLimits
  <2>4. CASE Cleanup
    BY <2>4, CleanupKeepsLimits
  <2>5. CASE RestartLimiter
    BY <2>5, RestartKeepsLimits
  <2>6. CASE LimiterTick
    BY <2>6, TickKeepsLimits
  <2> QED
    BY <2>1, <2>2, <2>3, <2>4, <2>5, <2>6 DEF LimiterMove
<1>3. LimiterInv => BurstBounded
  <2> SUFFICES ASSUME LimiterInv, NEW c \in Client, NEW r \in Rule
               PROVE  passed[c][r][Window[r]] <= (2 + restarts[r][Window[r]]) * Limit[r]
    BY DEF BurstBounded
  <2> DEFINE p == passed[c][r]
             k == restarts[r]
             count == windows[<<r, c>>].count
             left == windows[<<r, c>>].left
             length == Window[r]
             limit == Limit[r]
  <2>1. /\ left \in -1..length /\ count \in Nat
        /\ p \in Histories(length) /\ k \in Histories(length)
        /\ length \in Nat /\ limit \in Nat
        /\ WithinLimit(p, k, count, left, length, limit)
    BY WindowOf
  <2> HIDE DEF p, k, count, left, length, limit
  <2>2. p[length] <= Limits(2 + k[length], limit)
    BY <2>1, WithinBurst
  <2> QED
    BY <2>2 DEF Limits, p, k, length, limit
<1> QED
  BY <1>1, <1>2, <1>3, PTL DEF DoorSpec

-----------------------------------------------------------------------------
(* The bot answers at most once.                                           *)

\* Whoever handles an update has recorded it, is alone with it and has not answered it;
\* nobody answers an update that was never recorded. What is delivered was sent.
Handled ==
  /\ \A d \in Delivery : slot[d] # Free => slot[d].update \in arrived
  /\ \A d \in Delivery :
       slot[d].phase = "handling" => slot[d].update \in seen /\ effects[slot[d].update] = 0
  /\ \A d, e \in Delivery :
       slot[d].phase = "handling" /\ slot[e] = slot[d] => d = e
  /\ \A u \in Update : u \notin seen => effects[u] = 0

Inbox == InboxTypeOK /\ Handled /\ AnsweredAtMostOnce

LEMMA InitInbox == DoorInit => Inbox
BY MaxFailuresAssumption DEF DoorInit, InboxInit, Inbox, InboxTypeOK, Handled, AnsweredAtMostOnce, Free

\* A delivery whose phase is not "free" is about an update.
LEMMA SlotOf ==
  ASSUME InboxTypeOK, NEW d \in Delivery, slot[d] # Free
  PROVE  slot[d].update \in Update /\ slot[d] = At(slot[d].phase, slot[d].update)
BY DEF InboxTypeOK, Free, At

\* A delivery that is acknowledged, fails or starts handles nothing.
LEMMA SlotLeaves ==
  ASSUME Inbox, NEW d \in Delivery, NEW s, s.phase # "handling",
         s # Free => s.update \in arrived,
         s \in {Free} \cup [phase : {"parsed", "handling", "answering"}, update : Update],
         slot' = [slot EXCEPT ![d] = s], UNCHANGED <<seen, arrived, effects>>
  PROVE  /\ slot' \in [Delivery -> {Free} \cup [phase : {"parsed", "handling", "answering"},
                                                update : Update]]
         /\ Handled' /\ AnsweredAtMostOnce'
<1>1. slot \in [Delivery -> {Free} \cup [phase : {"parsed", "handling", "answering"}, update : Update]]
  BY DEF Inbox, InboxTypeOK
<1>2. /\ slot' \in [Delivery -> {Free} \cup [phase : {"parsed", "handling", "answering"}, update : Update]]
      /\ slot'[d] = s /\ \A e \in Delivery : e # d => slot'[e] = slot[e]
  BY <1>1
<1>3. Handled'
  BY <1>2 DEF Inbox, Handled
<1> QED
  BY <1>2, <1>3 DEF Inbox, AnsweredAtMostOnce

LEMMA AcknowledgeInbox ==
  ASSUME Inbox, NEW d \in Delivery, slot[d] # Free, Acknowledge(d), UNCHANGED <<seen, arrived, effects>>
  PROVE  Inbox'
<1>1. slot' = [slot EXCEPT ![d] = Free] /\ Free.phase # "handling"
  BY DEF Acknowledge, Free
<1>2. Handled' /\ AnsweredAtMostOnce' /\ slot' \in [Delivery -> {Free} \cup
         [phase : {"parsed", "handling", "answering"}, update : Update]]
  BY <1>1, SlotLeaves
<1>3. failures' \in 0..MaxFailures /\ pending' \subseteq pending
  BY MaxFailuresAssumption DEF Acknowledge, Inbox, InboxTypeOK
<1> QED
  BY <1>2, <1>3 DEF Inbox, InboxTypeOK

LEMMA WriteInbox ==
  ASSUME Inbox, NEW u \in Update, Write(u)
  PROVE  Inbox'
BY DEF Inbox, InboxTypeOK, Handled, AnsweredAtMostOnce, Write

LEMMA DeliverInbox ==
  ASSUME Inbox, NEW d \in Delivery, NEW u \in Update, Deliver(d, u)
  PROVE  Inbox'
<1> DEFINE s == At("parsed", u)
<1>1. /\ s.phase # "handling" /\ s.update \in arrived
      /\ s \in [phase : {"parsed", "handling", "answering"}, update : Update]
  BY DEF At, Deliver, Inbox, InboxTypeOK
<1>2. slot' = [slot EXCEPT ![d] = s] /\ UNCHANGED <<seen, pending, arrived, effects, failures>>
  BY DEF Deliver
<1> HIDE DEF s
<1>3. Handled' /\ AnsweredAtMostOnce' /\ slot' \in [Delivery -> {Free} \cup
         [phase : {"parsed", "handling", "answering"}, update : Update]]
  BY <1>1, <1>2, SlotLeaves
<1> QED
  BY <1>2, <1>3 DEF Inbox, InboxTypeOK

LEMMA SeenInbox ==
  ASSUME Inbox, NEW d \in Delivery, SeenUpdate(d)
  PROVE  Inbox'
<1> DEFINE u == slot[d].update
<1>1. slot[d] # Free /\ u \in Update /\ u \in arrived
  <2>1. slot[d] # Free
    BY DEF SeenUpdate, Free
  <2> QED
    BY <2>1, SlotOf DEF Inbox, Handled
<1>2. /\ seen' = seen \cup {u} /\ u \notin seen
      /\ slot' = [slot EXCEPT ![d] = At("handling", u)]
      /\ UNCHANGED <<pending, arrived, effects, failures>>
  BY DEF SeenUpdate
<1> HIDE DEF u
<1>3. InboxTypeOK'
  BY <1>1, <1>2 DEF Inbox, InboxTypeOK, At
<1>4. AnsweredAtMostOnce'
  BY <1>2 DEF Inbox, AnsweredAtMostOnce
<1>5. Handled'
  <2>1. effects[u] = 0
    BY <1>1, <1>2 DEF Inbox, Handled
  <2>2. \A e \in Delivery : e # d => slot'[e] = slot[e]
    BY <1>2 DEF Inbox, InboxTypeOK
  <2>3. slot'[d].phase = "handling" /\ slot'[d].update = u
    BY <1>2 DEF Inbox, InboxTypeOK, At
  <2>4. \A e \in Delivery : slot[e].phase = "handling" => slot[e].update # u
    BY <1>2 DEF Inbox, Handled
  <2>5. \A e \in Delivery :
          slot'[e].phase = "handling" => slot'[e].update \in seen' /\ effects[slot'[e].update] = 0
    BY <1>2, <2>1, <2>2, <2>3 DEF Inbox, Handled
  <2>6. ASSUME NEW e \in Delivery, NEW f \in Delivery,
               slot'[e].phase = "handling", slot'[f] = slot'[e]
        PROVE  e = f
    BY <2>2, <2>3, <2>4, <2>6 DEF Inbox, Handled
  <2>7. \A e \in Delivery : slot'[e] # Free => slot'[e].update \in arrived
    BY <1>1, <2>2, <2>3 DEF Inbox, Handled
  <2>8. \A x \in Update : x \notin seen' => effects[x] = 0
    BY <1>2 DEF Inbox, Handled
  <2> QED
    BY <1>2, <2>5, <2>6, <2>7, <2>8 DEF Handled
<1> QED
  BY <1>3, <1>4, <1>5 DEF Inbox

LEMMA HandleInbox ==
  ASSUME Inbox, NEW d \in Delivery, Handle(d)
  PROVE  Inbox'
<1> DEFINE u == slot[d].update
<1>1. /\ slot[d].phase = "handling" /\ u \in Update /\ u \in arrived
      /\ u \in seen /\ effects[u] = 0 /\ slot[d] = At("handling", u)
  <2>1. slot[d] # Free
    BY DEF Handle, Free
  <2> QED
    BY <2>1, SlotOf DEF Handle, Inbox, Handled
<1>2. /\ effects' \in {effects, [effects EXCEPT ![u] = @ + 1]}
      /\ slot' = [slot EXCEPT ![d] = At("answering", u)]
      /\ UNCHANGED <<seen, pending, arrived, failures>>
  BY DEF Handle
<1> HIDE DEF u
<1>3. /\ effects' \in [Update -> Nat] /\ effects'[u] \in {0, 1}
      /\ \A x \in Update : x # u => effects'[x] = effects[x]
  BY <1>1, <1>2 DEF Inbox, InboxTypeOK
<1>4. InboxTypeOK'
  BY <1>1, <1>2, <1>3 DEF Inbox, InboxTypeOK, At
<1>5. AnsweredAtMostOnce'
  BY <1>3 DEF Inbox, AnsweredAtMostOnce
<1>6. Handled'
  <2>1. \A e \in Delivery : e # d => slot'[e] = slot[e]
    BY <1>2 DEF Inbox, InboxTypeOK
  <2>2. slot'[d].phase = "answering" /\ slot'[d].update = u
    BY <1>2 DEF Inbox, InboxTypeOK, At
  <2>3. ASSUME NEW e \in Delivery, slot'[e].phase = "handling"
        PROVE  slot'[e] = slot[e] /\ e # d /\ slot[e].update # u /\ slot[e].update \in Update
    <3>1. e # d /\ slot'[e] = slot[e] /\ slot[e].phase = "handling"
      BY <2>1, <2>2, <2>3
    <3>2. slot[e] # Free
      BY <3>1 DEF Free
    <3>3. slot[e].update \in Update /\ slot[e] = At("handling", slot[e].update)
      BY <3>1, <3>2, SlotOf DEF Inbox
    <3> QED
      BY <1>1, <3>1, <3>3 DEF Inbox, Handled
  <2>4. \A e \in Delivery :
          slot'[e].phase = "handling" => slot'[e].update \in seen /\ effects'[slot'[e].update] = 0
    BY <1>3, <2>3 DEF Inbox, Handled
  <2>5. ASSUME NEW e \in Delivery, NEW f \in Delivery,
               slot'[e].phase = "handling", slot'[f] = slot'[e]
        PROVE  e = f
    BY <2>3, <2>5 DEF Inbox, Handled
  <2>6. \A e \in Delivery : slot'[e] # Free => slot'[e].update \in arrived
    BY <1>1, <2>1, <2>2 DEF Inbox, Handled
  <2>7. \A x \in Update : x \notin seen => effects'[x] = 0
    BY <1>1, <1>3 DEF Inbox, Handled
  <2> QED
    BY <1>2, <2>4, <2>5, <2>6, <2>7 DEF Handled
<1> QED
  BY <1>4, <1>5, <1>6 DEF Inbox

LEMMA FailureInbox ==
  ASSUME Inbox, StopInbox \/ \E d \in Delivery : SeenUpdateFails(d)
  PROVE  Inbox'
<1>1. CASE StopInbox
  BY <1>1, MaxFailuresAssumption
     DEF StopInbox, Inbox, InboxTypeOK, Handled, AnsweredAtMostOnce, Free
<1>2. ASSUME NEW d \in Delivery, SeenUpdateFails(d) PROVE Inbox'
  <2>1. slot' = [slot EXCEPT ![d] = Free] /\ UNCHANGED <<seen, arrived, effects>> /\ Free.phase # "handling"
    BY <1>2 DEF SeenUpdateFails, Free
  <2>2. Handled' /\ AnsweredAtMostOnce' /\ slot' \in [Delivery -> {Free} \cup
           [phase : {"parsed", "handling", "answering"}, update : Update]]
    BY <2>1, SlotLeaves
  <2> QED
    BY <1>2, <2>2, MaxFailuresAssumption DEF SeenUpdateFails, Inbox, InboxTypeOK
<1> QED
  BY <1>1, <1>2

LEMMA InboxStep == Inbox /\ [DoorNext]_doorVars => Inbox'
<1> SUFFICES ASSUME Inbox, [DoorNext]_doorVars PROVE Inbox'
  OBVIOUS
<1>1. [InboxMove]_inboxVars
  BY DoorSteps
<1>2. CASE UNCHANGED inboxVars
  BY <1>2 DEF inboxVars, Inbox, InboxTypeOK, Handled, AnsweredAtMostOnce
<1>3. ASSUME NEW d \in Delivery, HandlerStep(d) PROVE Inbox'
  <2>1. CASE AlreadySeen(d) \/ Answer(d)
    <3>1. slot[d] # Free /\ Acknowledge(d) /\ UNCHANGED <<seen, arrived, effects>>
      BY <2>1 DEF AlreadySeen, Answer, Free
    <3> QED
      BY <3>1, AcknowledgeInbox
  <2> QED
    BY <1>3, <2>1, SeenInbox, HandleInbox DEF HandlerStep
<1> QED
  BY <1>1, <1>2, <1>3, WriteInbox, DeliverInbox, FailureInbox DEF InboxMove

\* Redelivered, delivered twice at once or cut off by a stop, an update is answered at most
\* once.
THEOREM AnsweredAtMostOnceHolds == DoorSpec => []AnsweredAtMostOnce
<1>1. Inbox => AnsweredAtMostOnce
  BY DEF Inbox
<1> QED
  BY <1>1, InitInbox, InboxStep, PTL DEF DoorSpec

-----------------------------------------------------------------------------
(* Who gets into the panel.                                                *)

Who == {{}} \cup {{a} : a \in Administrator}

Reached == [admin : Who, left : Nat, via : {"none", "form", "launch"}, age : Int]

SessionsShape ==
  /\ sessions \in [Session -> [admin : Who, left : Nat]]
  /\ cookie \in [Browser -> Session \cup {NoSession}]
  /\ inside \in [Browser -> [session : Session \cup {NoSession}, admin : Who]]
  /\ launch \in [Browser -> SUBSET Payload]
  /\ reach \in [Browser -> Reached]
  /\ \A s \in Session : sessions[s].left > 0 => sessions[s].admin # {}

\* A cookie never opens more than its browser signed in for: the row lives no longer, and
\* while it lives it names the same administrator.
Covered ==
  \A b \in Browser :
    cookie[b] # NoSession =>
      /\ sessions[cookie[b]].left <= reach[b].left
      /\ sessions[cookie[b]].left > 0 => sessions[cookie[b]].admin = reach[b].admin

Panelled == SessionsShape /\ Covered /\ LaunchWearsOff

LEMMA InitPanelled == DoorInit => Panelled
<1> SUFFICES ASSUME DoorInit PROVE Panelled
  OBVIOUS
<1>1. SessionsInit
  BY DEF DoorInit
<1> QED
  BY <1>1, TTLAssumption
     DEF SessionsInit, Panelled, SessionsShape, Covered, LaunchWearsOff, Who, NoRow,
         Outside, NoReach, Reached

\* A new session: nobody else holds its id.
LEMMA CreatePanelled ==
  ASSUME Panelled, NEW b \in Browser, NEW s \in Session, NEW a \in Administrator,
         NEW ttl \in Nat, NEW via \in {"form", "launch"}, NEW age \in Int,
         CreateSession(b, s, a, ttl, via, age),
         via = "launch" => ttl + age <= LaunchAge + MiniTTL,
         UNCHANGED <<inside, bound, launch>>
  PROVE  Panelled'
<1> USE DEF Panelled
<1>1. /\ sessions' = [sessions EXCEPT ![s] = [admin |-> {a}, left |-> ttl]]
      /\ cookie' = [cookie EXCEPT ![b] = s]
      /\ reach' = [reach EXCEPT ![b] = [admin |-> {a}, left |-> ttl, via |-> via, age |-> age]]
  BY DEF CreateSession
<1>2. \A x \in Browser : cookie[x] # s
  BY DEF CreateSession, Unused
<1>3. {a} \in Who /\ {a} # {}
  BY DEF Who
<1>4. SessionsShape'
  BY <1>1, <1>3 DEF SessionsShape, Reached
<1>5. Covered'
  BY <1>1, <1>2, NoSessionAssumption DEF Covered, SessionsShape
<1>6. LaunchWearsOff'
  BY <1>1 DEF LaunchWearsOff, SessionsShape
<1> QED
  BY <1>4, <1>5, <1>6

\* What the records hold, and what makes one.
LEMMA Fields ==
  ASSUME SessionsShape
  PROVE  /\ \A s \in Session : sessions[s].admin \in Who /\ sessions[s].left \in Nat
         /\ \A b \in Browser : /\ reach[b].admin \in Who /\ reach[b].left \in Nat
                               /\ reach[b].via \in {"none", "form", "launch"}
                               /\ reach[b].age \in Int
BY DEF SessionsShape, Reached

LEMMA Records ==
  /\ \A r \in [admin : Who, left : Nat], n \in Nat :
       LET q == [r EXCEPT !.left = n]
       IN q \in [admin : Who, left : Nat] /\ q.left = n /\ q.admin = r.admin
  /\ \A p \in Payload, m \in Int : [p EXCEPT !.age = m] \in Payload
BY DEF Payload

\* A tick takes one from what is left: what was less stays less.
LEMMA TickPanelled ==
  ASSUME Panelled, SessionsTick
  PROVE  Panelled'
<1> DEFINE less(n) == IF n = 0 THEN 0 ELSE n - 1
<1>1. /\ \A n \in Nat : less(n) \in Nat /\ less(n) <= n
      /\ \A m, n \in Nat : m <= n => less(m) <= less(n)
      /\ \A n \in Nat : n > 0 => less(n) = n - 1
      /\ less(0) = 0
  OBVIOUS
<1>3. SessionsShape /\ Covered /\ LaunchWearsOff /\ UNCHANGED <<cookie, inside>>
  BY DEF Panelled, SessionsTick
<1>4. ASSUME NEW s \in Session
      PROVE  /\ sessions'[s] \in [admin : Who, left : Nat]
             /\ sessions'[s].left = less(sessions[s].left) /\ sessions'[s].admin = sessions[s].admin
  <2>1. sessions'[s] = [sessions[s] EXCEPT !.left = less(sessions[s].left)]
    BY DEF SessionsTick
  <2>2. sessions[s] \in [admin : Who, left : Nat] /\ less(sessions[s].left) \in Nat
    BY <1>3 DEF SessionsShape
  <2> DEFINE n == less(sessions[s].left)
  <2> HIDE DEF n
  <2> QED
    BY <2>1, <2>2, Records DEF n
<1>5. ASSUME NEW b \in Browser
      PROVE  /\ reach'[b] \in Reached
             /\ reach'[b].left = less(reach[b].left) /\ reach'[b].admin = reach[b].admin
             /\ reach'[b].via = reach[b].via
             /\ reach[b].left # 0 => reach'[b].left + reach'[b].age = reach[b].left + reach[b].age
             /\ reach[b].left = 0 => reach'[b] = reach[b]
  <2>1. PICK r \in Reached : r = reach[b]
    BY <1>3 DEF SessionsShape
  <2>2. reach'[b] = IF r.left = 0 THEN r ELSE [r EXCEPT !.left = r.left - 1, !.age = r.age + 1]
    BY <2>1 DEF SessionsTick
  <2>3. r.left \in Nat /\ r.age \in Int
    BY DEF Reached
  <2>4. CASE r.left = 0
    BY <1>1, <2>1, <2>2, <2>4
  <2>5. CASE r.left # 0
    <3>1. PICK n \in Nat, m \in Int : n = r.left - 1 /\ m = r.age + 1
      BY <2>3, <2>5
    <3>2. reach'[b] = [r EXCEPT !.left = n, !.age = m] /\ less(r.left) = n
      BY <2>2, <2>5, <3>1
    <3>3. /\ reach'[b] \in Reached /\ reach'[b].left = n /\ reach'[b].age = m
          /\ reach'[b].admin = r.admin /\ reach'[b].via = r.via
      <4>1. PICK q : q = reach'[b]
        OBVIOUS
      <4>2. q = [r EXCEPT !.left = n, !.age = m]
        BY <3>2, <4>1
      <4>3. q \in Reached /\ q.left = n /\ q.age = m /\ q.admin = r.admin /\ q.via = r.via
        BY <4>2 DEF Reached
      <4> QED
        BY <4>1, <4>3
    <3> HIDE DEF less
    <3>4. n + m = r.left + r.age
      BY <2>3, <3>1
    <3> QED
      BY <2>1, <2>5, <3>2, <3>3, <3>4
  <2> QED
    BY <2>4, <2>5
<1>6. ASSUME NEW b \in Browser PROVE launch'[b] \in SUBSET Payload
  <2> DEFINE older(p) == [p EXCEPT !.age = IF @ > LaunchAge THEN @ ELSE @ + 1]
  <2>1. launch'[b] = {older(p) : p \in launch[b]}
    BY DEF SessionsTick
  <2>2. ASSUME NEW p \in launch[b] PROVE older(p) \in Payload
    <3>1. p \in Payload /\ p.age \in Int
      BY <1>3 DEF SessionsShape, Payload
    <3>2. PICK m \in Int : m = IF p.age > LaunchAge THEN p.age ELSE p.age + 1
      BY <3>1
    <3>3. older(p) = [p EXCEPT !.age = m]
      BY <3>2
    <3> QED
      BY <3>1, <3>3, Records
  <2> HIDE DEF older
  <2> QED
    BY <2>1, <2>2
<1> HIDE DEF less
<1>7. /\ \A s \in Session : sessions'[s].left = less(sessions[s].left) /\ sessions'[s].admin = sessions[s].admin
      /\ \A b \in Browser : reach'[b].left = less(reach[b].left) /\ reach'[b].admin = reach[b].admin
  BY <1>4, <1>5
<1>8. ASSUME NEW m \in Nat, NEW n \in Nat, m <= n
      PROVE  less(m) <= less(n) /\ (less(m) > 0 => m > 0)
  <2>1. less(m) \in Nat /\ less(m) <= m /\ less(m) <= less(n)
    BY <1>1, <1>8
  <2> QED
    BY <2>1
<1>9. SessionsShape'
  <2>1. sessions' \in [Session -> [admin : Who, left : Nat]]
    BY <1>4 DEF SessionsTick
  <2>2. reach' \in [Browser -> Reached]
    BY <1>5 DEF SessionsTick
  <2>3. launch' \in [Browser -> SUBSET Payload]
    BY <1>6 DEF SessionsTick
  <2>4. ASSUME NEW s \in Session, sessions'[s].left > 0 PROVE sessions'[s].admin # {}
    <3>1. sessions[s].left > 0
      BY <1>3, <1>7, <1>8, <2>4, Fields
    <3> QED
      BY <1>3, <1>7, <3>1 DEF SessionsShape
  <2> QED
    BY <1>3, <2>1, <2>2, <2>3, <2>4 DEF SessionsShape
<1>10. Covered'
  <2> SUFFICES ASSUME NEW b \in Browser, cookie[b] # NoSession
               PROVE  /\ sessions'[cookie[b]].left <= reach'[b].left
                      /\ sessions'[cookie[b]].left > 0 => sessions'[cookie[b]].admin = reach'[b].admin
    BY <1>3 DEF Covered
  <2>1. cookie[b] \in Session
    BY <1>3 DEF SessionsShape
  <2>2. /\ sessions[cookie[b]].left <= reach[b].left
        /\ sessions[cookie[b]].left > 0 => sessions[cookie[b]].admin = reach[b].admin
    BY <1>3 DEF Covered
  <2>3. sessions[cookie[b]].left \in Nat /\ reach[b].left \in Nat
    BY <1>3, <2>1, Fields
  <2>4. /\ less(sessions[cookie[b]].left) <= less(reach[b].left)
        /\ less(sessions[cookie[b]].left) > 0 => sessions[cookie[b]].left > 0
    BY <1>8, <2>2, <2>3
  <2> QED
    BY <1>7, <2>1, <2>2, <2>4
<1>11. LaunchWearsOff'
  <2> SUFFICES ASSUME NEW b \in Browser, reach'[b].via = "launch"
               PROVE  reach'[b].left + reach'[b].age <= LaunchAge + MiniTTL
    BY DEF LaunchWearsOff
  <2>1. reach[b].via = "launch"
    BY <1>5
  <2>2. reach[b].left + reach[b].age <= LaunchAge + MiniTTL
    BY <1>3, <2>1 DEF LaunchWearsOff
  <2>3. reach[b].left = 0 => reach'[b] = reach[b]
    BY <1>5
  <2>4. reach[b].left # 0 => reach'[b].left + reach'[b].age = reach[b].left + reach[b].age
    BY <1>5
  <2> QED
    BY <2>2, <2>3, <2>4
<1> QED
  BY <1>9, <1>10, <1>11 DEF Panelled

\* A browser that loses its cookie loses what it could reach; rows may go with it.
LEMMA PulledCookie ==
  ASSUME Panelled, NEW b \in Browser,
         cookie' = [cookie EXCEPT ![b] = NoSession],
         reach' = [reach EXCEPT ![b] = NoReach],
         sessions' \in [Session -> [admin : Who, left : Nat]],
         inside' \in [Browser -> [session : Session \cup {NoSession}, admin : Who]],
         \A s \in Session : sessions'[s] = sessions[s] \/ sessions'[s] = NoRow,
         UNCHANGED launch
  PROVE  Panelled'
<1> USE DEF Panelled
<1>1. NoReach \in Reached /\ NoReach.via = "none"
  BY DEF NoReach, Who, Reached
<1>2. \A s \in Session : sessions'[s].left = 0 \/ sessions'[s] = sessions[s]
  BY DEF NoRow
<1>3. SessionsShape'
  <2>1. reach' \in [Browser -> Reached]
    BY <1>1 DEF SessionsShape
  <2>2. \A s \in Session : sessions'[s].left > 0 => sessions'[s].admin # {}
    BY <1>2 DEF SessionsShape
  <2> QED
    BY <2>1, <2>2 DEF SessionsShape
<1>4. Covered'
  <2> SUFFICES ASSUME NEW c \in Browser, cookie'[c] # NoSession
               PROVE  /\ sessions'[cookie'[c]].left <= reach'[c].left
                      /\ sessions'[cookie'[c]].left > 0 => sessions'[cookie'[c]].admin = reach'[c].admin
    BY DEF Covered
  <2>1. c # b /\ cookie'[c] = cookie[c] /\ reach'[c] = reach[c]
    BY DEF SessionsShape
  <2>2. cookie[c] \in Session /\ reach[c].left \in Nat
    BY <2>1 DEF SessionsShape, Reached
  <2>3. /\ sessions[cookie[c]].left <= reach[c].left
        /\ sessions[cookie[c]].left > 0 => sessions[cookie[c]].admin = reach[c].admin
    BY <2>1, <2>2, NoSessionAssumption DEF Covered
  <2>4. CASE sessions'[cookie[c]].left = 0
    BY <2>1, <2>2, <2>4
  <2>5. CASE sessions'[cookie[c]] = sessions[cookie[c]]
    BY <2>1, <2>3, <2>5
  <2> QED
    BY <1>2, <2>2, <2>4, <2>5
<1>5. LaunchWearsOff'
  BY <1>1 DEF LaunchWearsOff, SessionsShape
<1> QED
  BY <1>3, <1>4, <1>5

LEMMA SessionsPanelled ==
  ASSUME Panelled, SessionsMove
  PROVE  Panelled'
<1> USE DEF Panelled
<1>1. ASSUME NEW b \in Browser, NEW a \in Administrator, Login(b, a) PROVE Panelled'
  <2>1. PICK s \in Session : CreateSession(b, s, a, WebTTL, "form", 0)
    BY <1>1 DEF Login
  <2>2. WebTTL \in Nat /\ UNCHANGED <<inside, bound, launch>>
    BY <1>1, TTLAssumption DEF Login
  <2> QED
    BY <2>1, <2>2, CreatePanelled
<1>2. ASSUME NEW b \in Browser, Auth(b) PROVE Panelled'
  <2>1. PICK p \in launch[b], s \in Session :
          Fresh(p.age) /\ CreateSession(b, s, p.admin, MiniTTL, "launch", p.age)
    BY <1>2 DEF Auth
  <2>2. p.admin \in Administrator /\ p.age \in Int
    BY DEF SessionsShape, Payload
  <2>3. MiniTTL \in Nat /\ p.age <= LaunchAge /\ LaunchAge \in Nat
    BY <2>1, TTLAssumption DEF Fresh
  <2>4. MiniTTL + p.age <= LaunchAge + MiniTTL
    BY <2>2, <2>3
  <2> QED
    BY <1>2, <2>1, <2>2, <2>3, <2>4, CreatePanelled DEF Auth
<1>3. ASSUME NEW a \in Administrator, LoginHalfDone(a) PROVE Panelled'
  <2>1. PICK s \in Unused : sessions' = [sessions EXCEPT ![s] = [admin |-> {a}, left |-> WebTTL]]
    BY <1>3 DEF LoginHalfDone
  <2>2. s \in Session /\ \A b \in Browser : cookie[b] # s
    BY DEF Unused
  <2>3. SessionsShape'
    BY <1>3, <2>1, <2>2, TTLAssumption DEF LoginHalfDone, SessionsShape, Who
  <2> QED
    BY <1>3, <2>1, <2>2, <2>3 DEF LoginHalfDone, Covered, LaunchWearsOff, SessionsShape
<1>4. ASSUME NEW b \in Browser, NEW a \in Administrator, OpenMiniApp(b, a) PROVE Panelled'
  <2>1. PICK ahead \in Skew :
          launch' = [launch EXCEPT ![b] = @ \cup {[admin |-> a, age |-> -ahead]}]
    BY <1>4 DEF OpenMiniApp
  <2>2. [admin |-> a, age |-> -ahead] \in Payload
    BY SkewAssumption DEF Payload
  <2> QED
    BY <1>4, <2>1, <2>2 DEF OpenMiniApp, SessionsShape, Covered, LaunchWearsOff
<1>5. CASE \/ \E b \in Browser : Enter(b) \/ Leave(b)
           \/ \E a \in Administrator, on \in BOOLEAN : SetTelegramID(a, on)
           \/ StopSessions
  <2> DEFINE Insides == [session : Session \cup {NoSession}, admin : Who]
  <2>1. UNCHANGED <<sessions, cookie, launch, reach>>
    BY <1>5 DEF Enter, Leave, SetTelegramID, StopSessions
  <2>2. Outside \in Insides
    BY DEF Outside, Who
  <2>3. inside' \in [Browser -> Insides]
    <3>1. ASSUME NEW b \in Browser, Enter(b) PROVE inside' \in [Browser -> Insides]
      <4>1. cookie[b] \in Session /\ sessions[cookie[b]].admin \in Who
        BY <3>1 DEF Enter, SessionsShape
      <4> QED
        BY <3>1, <4>1 DEF Enter, SessionsShape
    <3>2. inside \in [Browser -> Insides]
      BY DEF SessionsShape
    <3> HIDE DEF Insides
    <3> QED
      BY <1>5, <2>2, <3>1, <3>2 DEF Leave, SetTelegramID, StopSessions
  <2> QED
    BY <2>1, <2>3 DEF SessionsShape, Covered, LaunchWearsOff
<1>6. ASSUME NEW b \in Browser, Logout(b) PROVE Panelled'
  <2>1. /\ \/ sessions' = [sessions EXCEPT ![inside[b].session] = NoRow]
           \/ UNCHANGED sessions
        /\ inside' = [inside EXCEPT ![b] = Outside]
        /\ UNCHANGED launch
    BY <1>6 DEF Logout, DeleteSession
  <2>2. \A s \in Session : sessions'[s] = sessions[s] \/ sessions'[s] = NoRow
    BY <2>1 DEF SessionsShape
  <2>3. /\ sessions' \in [Session -> [admin : Who, left : Nat]]
        /\ inside' \in [Browser -> [session : Session \cup {NoSession}, admin : Who]]
    <3>1. NoRow \in [admin : Who, left : Nat]
      BY DEF NoRow, Who
    <3>2. Outside \in [session : Session \cup {NoSession}, admin : Who]
      BY DEF Outside, Who
    <3> QED
      BY <2>1, <3>1, <3>2 DEF SessionsShape
  <2> QED
    BY <1>6, <2>1, <2>2, <2>3, PulledCookie DEF Logout
<1>7. ASSUME NEW b \in Browser, DropCookie(b) PROVE Panelled'
  BY <1>7, PulledCookie DEF DropCookie, SessionsShape
<1>8. CASE DeleteExpired
  <2>1. /\ sessions' = [s \in Session |-> IF sessions[s].left = 0 THEN NoRow ELSE sessions[s]]
        /\ UNCHANGED <<cookie, inside, launch, reach>>
    BY <1>8 DEF DeleteExpired
  <2>2. NoRow \in [admin : Who, left : Nat] /\ NoRow.left = 0
    BY DEF NoRow, Who
  <2>3. SessionsShape'
    BY <2>1, <2>2 DEF SessionsShape
  <2>4. Covered'
    <3> SUFFICES ASSUME NEW b \in Browser, cookie[b] # NoSession
                 PROVE  /\ sessions'[cookie[b]].left <= reach[b].left
                        /\ sessions'[cookie[b]].left > 0 => sessions'[cookie[b]].admin = reach[b].admin
      BY <2>1 DEF Covered
    <3>1. cookie[b] \in Session /\ reach[b].left \in Nat
      BY Fields DEF SessionsShape
    <3> QED
      BY <2>1, <2>2, <3>1 DEF Covered
  <2> QED
    BY <2>1, <2>3, <2>4 DEF LaunchWearsOff
<1>9. CASE SessionsTick
  BY <1>9, TickPanelled
<1> QED
  BY <1>1, <1>2, <1>3, <1>4, <1>5, <1>6, <1>7, <1>8, <1>9 DEF SessionsMove, SessionsStep

LEMMA PanelledStep == Panelled /\ [DoorNext]_doorVars => Panelled'
<1> SUFFICES ASSUME Panelled, [DoorNext]_doorVars PROVE Panelled'
  OBVIOUS
<1>1. [SessionsMove]_sessionVars
  BY DoorSteps
<1>2. CASE UNCHANGED sessionVars
  BY <1>2 DEF sessionVars, Panelled, SessionsShape, Covered, LaunchWearsOff
<1> QED
  BY <1>1, <1>2, SessionsPanelled

\* However often a launch is exchanged, the panel is not open longer than a session beyond
\* the age at which the launch is refused.
THEOREM LaunchWearsOffHolds == DoorSpec => []LaunchWearsOff
<1>1. Panelled => LaunchWearsOff
  BY DEF Panelled
<1> QED
  BY <1>1, InitPanelled, PanelledStep, PTL DEF DoorSpec

\* Nobody gets behind AdminAuth but with the session this browser signed in for.
THEOREM ActsSignedInHolds == DoorSpec => ActsSignedIn
<1> DEFINE SignedIn(b) ==
      inside[b] = Outside /\ inside'[b] # Outside =>
        reach[b].left > 0 /\ reach[b].admin = inside'[b].admin
<1>1. Panelled /\ [DoorNext]_doorVars => \A b \in Browser : SignedIn(b)
  <2> SUFFICES ASSUME Panelled, [DoorNext]_doorVars, NEW b \in Browser,
                      inside[b] = Outside, inside'[b] # Outside
               PROVE  reach[b].left > 0 /\ reach[b].admin = inside'[b].admin
    OBVIOUS
  <2>1. [SessionsMove]_sessionVars
    BY DoorSteps
  <2>2. inside \in [Browser -> [session : Session \cup {NoSession}, admin : Who]]
    BY DEF Panelled, SessionsShape
  <2>3. inside' # inside
    OBVIOUS
  <2>4. SessionsMove
    BY <2>1, <2>3 DEF sessionVars
  <2>5. PICK c \in Browser : Enter(c) \/ Leave(c) \/ Logout(c) \/ StopSessions
    BY <2>3, <2>4 DEF SessionsMove, SessionsStep, Login, LoginHalfDone, OpenMiniApp, Auth,
                      DropCookie, DeleteExpired, SetTelegramID, SessionsTick
  <2>6. Enter(c) /\ b = c
    BY <2>2, <2>5 DEF Enter, Leave, Logout, StopSessions
  <2>7. /\ cookie[b] # NoSession /\ sessions[cookie[b]].left > 0
        /\ inside'[b].admin = sessions[cookie[b]].admin
    BY <2>2, <2>6 DEF Enter, Live
  <2>8. cookie[b] \in Session /\ reach[b].left \in Nat /\ sessions[cookie[b]].left \in Nat
    BY <2>7, Fields DEF Panelled, SessionsShape
  <2> QED
    BY <2>7, <2>8 DEF Panelled, Covered
<1>2. Panelled /\ [DoorNext]_doorVars => [\A b \in Browser : SignedIn(b)]_sessionVars
  BY <1>1
<1> HIDE DEF SignedIn
<1>3. DoorSpec => [][\A b \in Browser : SignedIn(b)]_sessionVars
  BY <1>2, InitPanelled, PanelledStep, PTL DEF DoorSpec
<1> QED
  BY <1>3 DEF ActsSignedIn, SignedIn

\* Neither housekeeping nor anybody else's logout ends a session before its time.
THEOREM LiveSessionsKeptHolds == DoorSpec => LiveSessionsKept
<1> DEFINE Kept(s) ==
      sessions[s].left > 0 /\ sessions'[s] = NoRow =>
        \E b \in Browser : inside[b].session = s /\ cookie'[b] = NoSession
<1>1. Panelled /\ [DoorNext]_doorVars => \A s \in Session : Kept(s)
  <2> SUFFICES ASSUME Panelled, [DoorNext]_doorVars, NEW s \in Session,
                      sessions[s].left > 0, sessions'[s] = NoRow
               PROVE  \E b \in Browser : inside[b].session = s /\ cookie'[b] = NoSession
    OBVIOUS
  <2>1. /\ sessions \in [Session -> [admin : Who, left : Nat]]
        /\ cookie \in [Browser -> Session \cup {NoSession}]
        /\ sessions[s].admin # {}
    BY DEF Panelled, SessionsShape
  <2>2. sessions'[s].admin = {} /\ sessions'[s].left = 0
    BY DEF NoRow
  <2>3. SessionsMove /\ sessions' # sessions
    BY <2>1, <2>2, DoorSteps DEF sessionVars
  <2>4. ASSUME NEW x \in Session, NEW a \in Administrator, NEW ttl \in Nat,
               sessions' = [sessions EXCEPT ![x] = [admin |-> {a}, left |-> ttl]]
        PROVE  FALSE
    BY <2>1, <2>2, <2>4
  <2>5. /\ ~ \E b \in Browser, a \in Administrator : Login(b, a)
        /\ ~ \E b \in Browser : Auth(b)
        /\ ~ \E a \in Administrator : LoginHalfDone(a)
    <3>1. Panelled /\ WebTTL \in Nat /\ MiniTTL \in Nat
      BY TTLAssumption
    <3>2. ASSUME NEW b \in Browser, Auth(b) PROVE FALSE
      <4>1. PICK p \in launch[b], x \in Session :
              CreateSession(b, x, p.admin, MiniTTL, "launch", p.age)
        BY <3>2 DEF Auth
      <4>2. p.admin \in Administrator
        BY DEF Panelled, SessionsShape, Payload
      <4> QED
        BY <2>4, <3>1, <4>1, <4>2 DEF CreateSession
    <3> QED
      BY <2>4, <3>1, <3>2 DEF Login, LoginHalfDone, CreateSession, Unused
  <2>6. ~ DeleteExpired
    BY <2>1, <2>2 DEF DeleteExpired
  <2>7. ~ SessionsTick
    <3>1. SUFFICES ASSUME SessionsTick PROVE FALSE
      OBVIOUS
    <3>2. sessions'[s] = [sessions[s] EXCEPT !.left = IF @ = 0 THEN 0 ELSE @ - 1]
      BY <3>1 DEF SessionsTick
    <3>3. sessions'[s].admin = sessions[s].admin
      BY <2>1, <3>2
    <3> QED
      BY <2>1, <2>2, <3>3
  <2>8. PICK b \in Browser : Logout(b)
    <3>1. ~ StopSessions /\ \A b \in Browser : ~(Enter(b) \/ Leave(b) \/ DropCookie(b))
      BY <2>3 DEF Enter, Leave, DropCookie, StopSessions
    <3>2. \A a \in Administrator, on \in BOOLEAN : ~ SetTelegramID(a, on)
      BY <2>3 DEF SetTelegramID
    <3>3. \A b \in Browser, a \in Administrator : ~ OpenMiniApp(b, a)
      BY <2>3 DEF OpenMiniApp
    <3>4. ~ \E b \in Browser : Auth(b)
      BY <2>5
    <3>5. ~ \E a \in Administrator : LoginHalfDone(a)
      BY <2>5
    <3>6. SessionsStep
      BY <2>3, <2>5, <2>6, <2>7, <3>1 DEF SessionsMove
    <3> QED
      BY <3>1, <3>2, <3>3, <3>4, <3>5, <3>6 DEF SessionsStep
  <2>9. /\ sessions' = [sessions EXCEPT ![inside[b].session] = NoRow]
        /\ cookie' = [cookie EXCEPT ![b] = NoSession]
    BY <2>3, <2>8 DEF Logout, DeleteSession
  <2> QED
    BY <2>1, <2>2, <2>9
<1>2. Panelled /\ [DoorNext]_doorVars => [\A s \in Session : Kept(s)]_sessionVars
  BY <1>1
<1> HIDE DEF Kept
<1>3. DoorSpec => [][\A s \in Session : Kept(s)]_sessionVars
  BY <1>2, InitPanelled, PanelledStep, PTL DEF DoorSpec
<1> QED
  BY <1>3 DEF LiveSessionsKept, Kept
-----------------------------------------------------------------------------
(* The forms of a browser's tabs.                                          *)

\* What tabs and answers look like.
Tabs ==
  /\ open = [p \in Page |-> [page |-> open[p].page, panel |-> open[p].panel,
                             disturbed |-> open[p].disturbed]]
  /\ under = [p \in Page |-> [kind |-> under[p].kind, cookie |-> under[p].cookie,
                              token |-> under[p].token, disturbed |-> under[p].disturbed]]
  /\ \A p \in Page : open[p].disturbed \in BOOLEAN /\ under[p].disturbed \in BOOLEAN

\* While a new cookie is under way it may replace the old one: no form relies on that.
NothingToLose ==
  Bare # {} => \A p \in Page :
                 open[p].disturbed \/ (open[p].page = NoToken /\ open[p].panel = NoToken)

\* An undisturbed answer fits the jar it will find: with its own cookie it is the only one
\* that has any and the jar is empty, without one it has the token of the jar and no cookie
\* is under way.
AnswersFit ==
  \A p \in Page : ~under[p].disturbed =>
    /\ under[p].cookie # NoToken =>
         Bare \subseteq {p} /\ jar = NoToken /\ under[p].token \in {NoToken, under[p].cookie}
    /\ under[p].cookie = NoToken /\ under[p].token # NoToken =>
         Bare = {} /\ under[p].token = jar

FormsHold == Tabs /\ NothingToLose /\ AnswersFit /\ DeadFormHasACause

LEMMA InitForms == FormTokensInit => FormsHold
<1> SUFFICES ASSUME FormTokensInit PROVE FormsHold
  OBVIOUS
<1>1. \A p \in Page : open[p] = Blank /\ under[p] = Nothing
  BY DEF FormTokensInit
<1>2. open = [p \in Page |-> [page |-> open[p].page, panel |-> open[p].panel,
                             disturbed |-> open[p].disturbed]]
  BY <1>1 DEF FormTokensInit, Blank
<1>3. under = [p \in Page |-> [kind |-> under[p].kind, cookie |-> under[p].cookie,
                              token |-> under[p].token, disturbed |-> under[p].disturbed]]
  BY <1>1 DEF FormTokensInit, Nothing
<1>4. Tabs
  <2>1. ASSUME NEW p \in Page
        PROVE  open[p].disturbed = FALSE /\ under[p].disturbed = FALSE
    BY <1>1 DEF Blank, Nothing
  <2> QED
    BY <1>2, <1>3, <2>1 DEF Tabs
<1> QED
  BY <1>1, <1>4 DEF FormsHold, NothingToLose, AnswersFit, DeadFormHasACause, Bare, Blank, Nothing

\* A request: whatever it asks for, its answer has the token of the request or none.
LEMMA SentForms ==
  ASSUME FormsHold, NEW p \in Page, NEW kind, NEW token \in {NoToken, Issue.token},
         under[p] = Nothing, Sent(p, kind, token), UNCHANGED <<jar, open>>
  PROVE  FormsHold'
<1> DEFINE new == [kind |-> kind, cookie |-> Issue.cookie, token |-> token, disturbed |-> Bare # {}]
<1> DEFINE met(q) == IF q \in Bare /\ jar = NoToken THEN [under[q] EXCEPT !.disturbed = TRUE] ELSE under[q]
<1>1. p \notin Bare
  BY DEF Bare, Nothing
<1>2. under' = [q \in Page |-> IF q = p THEN new ELSE met(q)]
  BY DEF Sent
<1>3. /\ under'[p] = new
      /\ new.kind = kind /\ new.cookie = Issue.cookie /\ new.token = token
      /\ new.disturbed = (Bare # {})
  BY <1>2
<1>4. ASSUME NEW q \in Page, q # p
      PROVE  /\ under'[q] = [kind |-> under[q].kind, cookie |-> under[q].cookie, token |-> under[q].token,
                             disturbed |-> under[q].disturbed \/ (q \in Bare /\ jar = NoToken)]
             /\ under'[q].cookie = under[q].cookie /\ under'[q].token = under[q].token
             /\ under'[q].kind = under[q].kind
             /\ under'[q].disturbed = (under[q].disturbed \/ (q \in Bare /\ jar = NoToken))
  <2>1. /\ under[q] = [kind |-> under[q].kind, cookie |-> under[q].cookie, token |-> under[q].token,
                       disturbed |-> under[q].disturbed]
        /\ under[q].disturbed \in BOOLEAN
    BY DEF FormsHold, Tabs
  <2>2. under'[q] = met(q)
    BY <1>2, <1>4
  <2>3. CASE q \in Bare /\ jar = NoToken
    BY <2>1, <2>2, <2>3
  <2>4. CASE ~(q \in Bare /\ jar = NoToken)
    BY <2>1, <2>2, <2>4
  <2> QED
    BY <2>3, <2>4
<1> HIDE DEF new, met
<1>5. Tabs'
  <2>1. under' = [q \in Page |-> [kind |-> under'[q].kind, cookie |-> under'[q].cookie,
                                  token |-> under'[q].token, disturbed |-> under'[q].disturbed]]
    <3>1. ASSUME NEW q \in Page
          PROVE  under'[q] = [kind |-> under'[q].kind, cookie |-> under'[q].cookie,
                              token |-> under'[q].token, disturbed |-> under'[q].disturbed]
      BY <1>3, <1>4 DEF new
    <3> QED
      BY <1>2, <3>1
  <2>2. \A q \in Page : under'[q].disturbed \in BOOLEAN
    BY <1>3, <1>4
  <2> QED
    BY <2>1, <2>2 DEF FormsHold, Tabs
<1>6. Bare' = IF Issue.cookie = NoToken THEN Bare ELSE Bare \cup {p}
  BY <1>1, <1>3, <1>4 DEF Bare
<1>7. CASE jar # NoToken
  <2>1. Issue.token = jar /\ Issue.cookie = NoToken
    BY <1>7 DEF Issue
  <2>2. Bare' = Bare
    BY <1>6, <2>1
  <2>3. NothingToLose' /\ DeadFormHasACause'
    BY <2>2 DEF FormsHold, NothingToLose, DeadFormHasACause
  <2>4. AnswersFit'
    BY <1>3, <1>4, <1>7, <2>1, <2>2 DEF FormsHold, AnswersFit
  <2> QED
    BY <1>5, <2>3, <2>4 DEF FormsHold
<1>8. CASE jar = NoToken
  <2>1. Issue.token = Issue.cookie
    BY <1>8 DEF Issue
  <2>2. NothingToLose' /\ DeadFormHasACause'
    BY <1>8 DEF FormsHold, NothingToLose, DeadFormHasACause
  <2>3. ASSUME NEW q \in Page, ~under'[q].disturbed
        PROVE  /\ under'[q].cookie # NoToken =>
                    Bare' \subseteq {q} /\ jar' = NoToken /\ under'[q].token \in {NoToken, under'[q].cookie}
               /\ under'[q].cookie = NoToken /\ under'[q].token # NoToken =>
                    Bare' = {} /\ under'[q].token = jar'
    <3>1. CASE q = p
      BY <1>3, <1>6, <1>8, <2>1, <2>3, <3>1
    <3>2. CASE q # p
      <4>1. ~under[q].disturbed /\ q \notin Bare
        BY <1>4, <1>8, <2>3, <3>2
      <4> QED
        BY <1>4, <1>8, <3>2, <4>1 DEF FormsHold, AnswersFit, Bare
    <3> QED
      BY <3>1, <3>2
  <2>4. AnswersFit'
    BY <2>3 DEF AnswersFit
  <2> QED
    BY <1>5, <2>2, <2>4 DEF FormsHold
<1> QED
  BY <1>7, <1>8

\* An answer is gone, arrived or lost: those of the other tabs are as they were.
LEMMA AnswerGone ==
  ASSUME Tabs, NEW p \in Page, under' = [under EXCEPT ![p] = Nothing]
  PROVE  /\ under'[p] = Nothing
         /\ \A q \in Page : q # p => under'[q] = under[q]
         /\ Bare' = Bare \ {p}
<1>1. /\ under'[p] = Nothing
      /\ \A q \in Page : q # p => under'[q] = under[q]
  BY DEF Tabs
<1> QED
  BY <1>1 DEF Bare, Nothing

LEMMA ArriveForms ==
  ASSUME FormsHold, NEW p \in Page, Arrive(p)
  PROVE  FormsHold'
<1> DEFINE answer == under[p]
<1>1. /\ under'[p] = Nothing
      /\ \A q \in Page : q # p => under'[q] = under[q]
      /\ Bare' = Bare \ {p}
  BY AnswerGone DEF Arrive, FormsHold
<1>2. /\ jar' = IF under[p].cookie # NoToken THEN under[p].cookie ELSE jar
      /\ \A q \in Page : q # p => open'[q] = open[q]
  BY DEF Arrive, FormsHold, Tabs
<1>3. /\ open'[p].page = IF answer.kind = "page" THEN answer.token ELSE open[p].page
      /\ open'[p].panel = IF answer.kind \in {"page", "panel"} THEN answer.token ELSE open[p].panel
      /\ open'[p].disturbed = IF answer.kind = "page" THEN answer.disturbed
                              ELSE open[p].disturbed \/ answer.disturbed
      /\ open'[p] = [page |-> open'[p].page, panel |-> open'[p].panel, disturbed |-> open'[p].disturbed]
  <2>1. open[p] = [page |-> open[p].page, panel |-> open[p].panel, disturbed |-> open[p].disturbed]
    BY DEF FormsHold, Tabs
  <2> DEFINE spoiled == open[p].disturbed \/ answer.disturbed
             asPage == [page |-> answer.token, panel |-> answer.token, disturbed |-> answer.disturbed]
             asPanel == [open[p] EXCEPT !.panel = answer.token, !.disturbed = spoiled]
             asData == [open[p] EXCEPT !.disturbed = spoiled]
  <2>2. open'[p] = CASE answer.kind = "page" -> asPage
                     [] answer.kind = "panel" -> asPanel
                     [] OTHER -> asData
    <3>1. p \in DOMAIN open
      BY DEF FormsHold, Tabs
    <3>2. open' = [open EXCEPT ![p] = CASE answer.kind = "page" -> asPage
                                       [] answer.kind = "panel" -> asPanel
                                       [] OTHER -> asData]
      BY DEF Arrive
    <3> HIDE DEF asPage, asPanel, asData
    <3> QED
      BY <3>1, <3>2
  <2>3. CASE answer.kind = "page"
    BY <2>1, <2>2, <2>3
  <2>4. CASE answer.kind = "panel"
    BY <2>1, <2>2, <2>4
  <2>5. CASE answer.kind \notin {"page", "panel"}
    BY <2>1, <2>2, <2>5
  <2> QED
    BY <2>3, <2>4, <2>5
<1>4. Tabs'
  <2>1. open' = [q \in Page |-> [page |-> open'[q].page, panel |-> open'[q].panel,
                                 disturbed |-> open'[q].disturbed]]
    <3>1. ASSUME NEW q \in Page
          PROVE  open'[q] = [page |-> open'[q].page, panel |-> open'[q].panel,
                             disturbed |-> open'[q].disturbed]
      BY <1>2, <1>3 DEF FormsHold, Tabs
    <3>2. DOMAIN open' = Page /\ open' = [q \in Page |-> open'[q]]
      BY DEF Arrive, FormsHold, Tabs
    <3> QED
      BY <3>1, <3>2
  <2>2. under' = [q \in Page |-> [kind |-> under'[q].kind, cookie |-> under'[q].cookie,
                                  token |-> under'[q].token, disturbed |-> under'[q].disturbed]]
    <3>1. ASSUME NEW q \in Page
          PROVE  under'[q] = [kind |-> under'[q].kind, cookie |-> under'[q].cookie,
                              token |-> under'[q].token, disturbed |-> under'[q].disturbed]
      BY <1>1 DEF FormsHold, Tabs, Nothing
    <3>2. under' = [q \in Page |-> under'[q]]
      BY DEF Arrive, FormsHold, Tabs
    <3> QED
      BY <3>1, <3>2
  <2>3. \A q \in Page : open[q].disturbed \in BOOLEAN /\ under[q].disturbed \in BOOLEAN
    BY DEF FormsHold, Tabs
  <2>4. \A q \in Page : open'[q].disturbed \in BOOLEAN
    BY <1>2, <1>3, <2>3
  <2>5. \A q \in Page : under'[q].disturbed \in BOOLEAN
    <3>1. under'[p].disturbed = FALSE
      BY <1>1 DEF Nothing
    <3> QED
      BY <1>1, <2>3, <3>1
  <2> QED
    BY <2>1, <2>2, <2>4, <2>5 DEF Tabs
<1> HIDE DEF answer
<1>5. CASE p \in Bare
  <2>1. jar' = under[p].cookie /\ under[p].cookie # NoToken
    BY <1>2, <1>5 DEF Bare
  <2>2. /\ ~under[p].disturbed => Bare' = {} /\ under[p].token \in {NoToken, under[p].cookie}
        /\ \A q \in Page : open[q].disturbed \/ (open[q].page = NoToken /\ open[q].panel = NoToken)
    BY <1>1, <1>5, <2>1 DEF FormsHold, AnswersFit, NothingToLose
  <2>3. NothingToLose'
    BY <1>2, <1>3, <2>2 DEF NothingToLose, answer, FormsHold, Tabs
  <2>4. DeadFormHasACause'
    BY <1>2, <1>3, <2>1, <2>2 DEF DeadFormHasACause, answer, FormsHold, Tabs
  <2>5. AnswersFit'
    BY <1>1, <1>5 DEF FormsHold, AnswersFit, Nothing
  <2> QED
    BY <1>4, <2>3, <2>4, <2>5 DEF FormsHold
<1>6. CASE p \notin Bare
  <2>1. jar' = jar /\ Bare' = Bare /\ under[p].cookie = NoToken
    BY <1>1, <1>2, <1>6 DEF Bare
  <2>2. ~under[p].disturbed => under[p].token = NoToken \/ (Bare = {} /\ under[p].token = jar)
    BY <2>1 DEF FormsHold, AnswersFit
  <2>3. NothingToLose'
    BY <1>2, <1>3, <2>1, <2>2 DEF FormsHold, NothingToLose, answer, Tabs
  <2>4. DeadFormHasACause'
    BY <1>2, <1>3, <2>1, <2>2 DEF FormsHold, DeadFormHasACause, answer, Tabs
  <2>5. AnswersFit'
    BY <1>1, <2>1 DEF FormsHold, AnswersFit, Nothing
  <2> QED
    BY <1>4, <2>3, <2>4, <2>5 DEF FormsHold
<1> QED
  BY <1>5, <1>6

LEMMA LostForms ==
  ASSUME FormsHold, NEW p \in Page, Lost(p)
  PROVE  FormsHold'
<1>1. /\ under'[p] = Nothing
      /\ \A q \in Page : q # p => under'[q] = under[q]
      /\ Bare' = Bare \ {p}
  BY AnswerGone DEF Lost, FormsHold
<1>2. Tabs'
  <2>1. ASSUME NEW q \in Page
        PROVE  under'[q] = [kind |-> under'[q].kind, cookie |-> under'[q].cookie,
                            token |-> under'[q].token, disturbed |-> under'[q].disturbed]
    BY <1>1 DEF FormsHold, Tabs, Nothing
  <2>2. under' = [q \in Page |-> under'[q]]
    BY DEF Lost, FormsHold, Tabs
  <2>3. under' = [q \in Page |-> [kind |-> under'[q].kind, cookie |-> under'[q].cookie,
                                  token |-> under'[q].token, disturbed |-> under'[q].disturbed]]
    BY <2>1, <2>2
  <2> QED
    BY <1>1, <2>3 DEF Lost, FormsHold, Tabs, Nothing
<1>3. NothingToLose' /\ DeadFormHasACause'
  BY <1>1 DEF Lost, FormsHold, NothingToLose, DeadFormHasACause
<1>4. AnswersFit'
  BY <1>1 DEF Lost, FormsHold, AnswersFit, Nothing
<1> QED
  BY <1>2, <1>3, <1>4 DEF FormsHold

LEMMA LapseForms ==
  ASSUME FormsHold, Lapse
  PROVE  FormsHold'
<1>1. ASSUME NEW q \in Page
      PROVE  /\ open'[q] = [page |-> open[q].page, panel |-> open[q].panel,
                            disturbed |-> open[q].disturbed \/ open[q] # Blank]
             /\ under'[q] = [kind |-> under[q].kind, cookie |-> under[q].cookie,
                             token |-> under[q].token, disturbed |-> under[q].disturbed \/ under[q] # Nothing]
             /\ open'[q].disturbed = (open[q].disturbed \/ open[q] # Blank)
             /\ open'[q].page = open[q].page /\ open'[q].panel = open[q].panel
             /\ under'[q].disturbed = (under[q].disturbed \/ under[q] # Nothing)
             /\ under'[q].cookie = under[q].cookie /\ under'[q].token = under[q].token
  <2>1. /\ open[q] = [page |-> open[q].page, panel |-> open[q].panel, disturbed |-> open[q].disturbed]
        /\ under[q] = [kind |-> under[q].kind, cookie |-> under[q].cookie, token |-> under[q].token,
                       disturbed |-> under[q].disturbed]
    BY DEF FormsHold, Tabs
  <2>2. /\ open'[q] = [open[q] EXCEPT !.disturbed = @ \/ open[q] # Blank]
        /\ under'[q] = [under[q] EXCEPT !.disturbed = @ \/ under[q] # Nothing]
    BY DEF Lapse
  <2>3. /\ open'[q] = [page |-> open[q].page, panel |-> open[q].panel,
                        disturbed |-> open[q].disturbed \/ open[q] # Blank]
        /\ under'[q] = [kind |-> under[q].kind, cookie |-> under[q].cookie,
                         token |-> under[q].token, disturbed |-> under[q].disturbed \/ under[q] # Nothing]
    BY <2>1, <2>2
  <2> QED
    BY <2>3
<1>2. Tabs'
  <2>1. open' = [q \in Page |-> open'[q]] /\ under' = [q \in Page |-> under'[q]]
    BY DEF Lapse
  <2>2. open' = [q \in Page |-> [page |-> open'[q].page, panel |-> open'[q].panel,
                                 disturbed |-> open'[q].disturbed]]
    BY <1>1, <2>1
  <2>3. under' = [q \in Page |-> [kind |-> under'[q].kind, cookie |-> under'[q].cookie,
                                  token |-> under'[q].token, disturbed |-> under'[q].disturbed]]
    BY <1>1, <2>1
  <2>4. \A q \in Page : open'[q].disturbed \in BOOLEAN /\ under'[q].disturbed \in BOOLEAN
    BY <1>1 DEF FormsHold, Tabs
  <2> QED
    BY <2>2, <2>3, <2>4 DEF Tabs
<1>3. \A q \in Page : open'[q].disturbed \/ (open'[q].page = NoToken /\ open'[q].panel = NoToken)
  <2> SUFFICES ASSUME NEW q \in Page, ~open'[q].disturbed
               PROVE  open'[q].page = NoToken /\ open'[q].panel = NoToken
    OBVIOUS
  <2>1. open[q] = Blank
    BY <1>1
  <2> QED
    <3>1. open[q].page = NoToken /\ open[q].panel = NoToken
      BY <2>1 DEF Blank
    <3> QED
      BY <1>1, <3>1
<1>4. NothingToLose' /\ DeadFormHasACause'
  BY <1>3 DEF NothingToLose, DeadFormHasACause
<1>5. AnswersFit'
  <2> SUFFICES ASSUME NEW q \in Page, ~under'[q].disturbed
               PROVE  under'[q].cookie = NoToken /\ under'[q].token = NoToken
    BY DEF AnswersFit
  <2>1. under[q] = Nothing
    BY <1>1
  <2> QED
    <3>1. under[q].cookie = NoToken /\ under[q].token = NoToken
      BY <2>1 DEF Nothing
    <3> QED
      BY <1>1, <3>1
<1> QED
  BY <1>2, <1>4, <1>5 DEF FormsHold

\* DeadFormHasACause, for any number of tabs and tokens: a form that the shop would refuse
\* is on a page since whose request the cookie lapsed or another first request was under way.
THEOREM DeadFormHasACauseHolds == FormTokensSpec => []DeadFormHasACause
<1>1. FormTokensInit => FormsHold
  BY InitForms
<1>2. FormsHold /\ [FormTokensNext]_tokenVars => FormsHold'
  <2> SUFFICES ASSUME FormsHold, [FormTokensNext]_tokenVars PROVE FormsHold'
    OBVIOUS
  <2>1. ASSUME NEW p \in Page, Get(p) PROVE FormsHold'
    BY <2>1, SentForms DEF Get
  <2>2. ASSUME NEW p \in Page, PollData(p) PROVE FormsHold'
    BY <2>2, SentForms DEF PollData
  <2>3. ASSUME NEW p \in Page, NEW form, NEW fetched \in BOOLEAN, Post(p, form, fetched) PROVE FormsHold'
    <3>1. CASE fetched
      BY <2>3, <3>1, SentForms DEF Post
    <3>2. CASE ~fetched
      BY <2>3, <3>2, SentForms DEF Post
    <3> QED
      BY <3>1, <3>2
  <2>4. CASE UNCHANGED tokenVars
    BY <2>4 DEF FormsHold, Tabs, NothingToLose, AnswersFit, DeadFormHasACause, Bare, tokenVars
  <2> QED
    BY <2>1, <2>2, <2>3, <2>4, ArriveForms, LostForms, LapseForms DEF FormTokensNext
<1>3. FormsHold => DeadFormHasACause
  BY DEF FormsHold
<1> QED
  BY <1>1, <1>2, <1>3, PTL DEF FormTokensSpec
=============================================================================
