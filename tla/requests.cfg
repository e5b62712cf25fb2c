\* In the shop: two tabs of one browser, a tab against an administrator, two administrators.
\* At the door: two tabs that never hold more than the seven tokens; two clients who write what
\* they like into X-Forwarded-For; two administrators who share a browser. The bot is at rest.
CONSTANTS
  t1 = t1
  t2 = t2
  s1 = s1
  s2 = s2
  p1 = p1
  p2 = p2
  Tab = {t1, t2}
  Saver = {s1, s2}
  Pricer = {p1, p2}
  Variant = {v1}
  MaxQty = 2
  MaxCarts = 2
  MaxItems = 2
  NoCart = 0
  MaxAvailable = 2
  MaxOrders = 1
  Missing = Missing
  MaxShipping = 8
  MinTTL = 5
  MaxTTL = 8
  Minute = 3
  HalfRange = 32
  Posted <- Forms
  Defaults <- Environment
  Typed <- Texts
  MaxPriceCents = 500
  FirstPrice = 105
  MaxChanges = 2
  Nobody = Nobody
  Page = {x1, x2}
  Token = {k1, k2, k3, k4, k5, k6, k7}
  NoToken = NoToken
  a1 = a1
  a2 = a2
  home = home
  proxy = proxy
  Rule = {"login", "webhook"}
  Client = {home, telegram}
  Hop = {proxy}
  Malformed = Malformed
  Limit <- Limits
  Window <- Windows
  Browser = {b1}
  Administrator = {a1, a2}
  Session = {n1, n2}
  NoSession = NoSession
  WebTTL = 2
  MiniTTL = 1
  LaunchAge = 1
  Skew = {1}
  Update = {u1}
  Asks <- NoUpdates
  Delivery = {d1}
  MaxFailures = 0
  Telegram = telegram
  Proxy = proxy
  Claims <- Lies
SPECIFICATION MCSpec
INVARIANTS SpentCartIsGone OrderAddsUp TrailExplainsPrice FormKeepsPrice  LaunchWearsOff DeadFormHasACause
PROPERTIES LoneAddIsKept PauseStopsLaterCheckouts LoneSaveIsStored TypedPriceStored ActsSignedIn LiveSessionsKept
