\* The row locks of two transactions of any kind over two variants, against a recount; and two
\* updates delivered to two handlers, on a clock. MaxFailures bounds what fails or stops while
\* the bot works. Nobody signs in.
CONSTANTS
  Rule = {"login", "webhook"}
  Client = {telegram}
  Hop = {proxy}
  Malformed = Malformed
  Limit <- Limits
  Window <- Windows
  Browser = {b1}
  Administrator = {a1}
  Session = {n1}
  NoSession = NoSession
  WebTTL = 2
  MiniTTL = 1
  LaunchAge = 1
  Skew = {1}
  Update = {u1, u2}
  Asks <- WhatIsAsked
  Delivery = {d1, d2}
  MaxFailures = 2
  Telegram = telegram
  Proxy = proxy
  Claims = {}
  u1 = u1
  u2 = u2
  Tx = {w1, w2}
  Variants = 2
  MaxQty = 1
  MaxStock = 2
SPECIFICATION MCSpec
CHECK_DEADLOCK FALSE
INVARIANTS AnsweredAtMostOnce CheckoutsNeverDeadlock
PROPERTIES EveryUpdateAcknowledged AtomicSpec EveryTransactionEnds
