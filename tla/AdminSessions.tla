--------------------------- MODULE AdminSessions ---------------------------
(***************************************************************************)
(* Who gets into the admin panel: the password form, the launch of the     *)
(* Telegram Mini App, the session rows behind the cookie, and the check    *)
(* every panel request passes (handler/admin/admin.go, tgapp.go,           *)
(* middleware/adminauth.go, postgres/admin.go).                            *)
(*                                                                         *)
(* The check is one query and the handler behind it runs afterwards, so a  *)
(* request that has passed may find its session gone. Moments in time are  *)
(* kept as the ticks left until, or passed since.                          *)
(***************************************************************************)
EXTENDS Integers, FiniteSets

CONSTANTS
  Browser, Administrator,
  Session,      \* session ids; an id nobody refers to any more may come up again
  NoSession,    \* no session cookie
  WebTTL,       \* sessionTTL, in ticks
  MiniTTL,      \* miniSessionTTL
  LaunchAge,    \* telegram.InitDataMaxAge
  Skew          \* how far ahead of ours Telegram's clock may be

ASSUME NoSessionAssumption == NoSession \notin Session
ASSUME TTLAssumption ==
  /\ WebTTL \in Nat \ {0} /\ MiniTTL \in 1..WebTTL /\ LaunchAge \in Nat
ASSUME SkewAssumption == Skew \subseteq Nat

VARIABLES
  sessions,  \* admin_sessions: NoRow, or the administrator and the ticks left
  cookie,    \* the admin_session cookie of a browser
  inside,    \* requests behind AdminAuth: the session and administrator they act for
  bound,     \* administrators with a telegram_id
  launch,    \* the launch payloads Telegram gave a browser: for whom, and their ages
  reach      \* history: for whom, and how long from now, a browser was signed in, and how
             \* old the payload is that it was signed in with

sessionVars == <<sessions, cookie, inside, bound, launch, reach>>

NoRow == [admin |-> {}, left |-> 0]
Outside == [session |-> NoSession, admin |-> {}]
Payload == [admin : Administrator, age : Int]
NoReach == [admin |-> {}, left |-> 0, via |-> "none", age |-> 0]

SessionsInit ==
  /\ sessions = [s \in Session |-> NoRow]
  /\ cookie = [b \in Browser |-> NoSession]
  /\ inside = [b \in Browser |-> Outside]
  /\ bound = Administrator
  /\ launch = [b \in Browser |-> {}]
  /\ reach = [b \in Browser |-> NoReach]

\* uuid.New never repeats an id: an id that no row, cookie or request holds stands
\* for one that was never used.
Unused == {s \in Session : /\ sessions[s] = NoRow
                           /\ \A b \in Browser : cookie[b] # s /\ inside[b].session # s}

\* CreateAdminSession, and the cookie that names it.
CreateSession(b, s, a, ttl, via, age) ==
  /\ s \in Unused
  /\ sessions' = [sessions EXCEPT ![s] = [admin |-> {a}, left |-> ttl]]
  /\ cookie' = [cookie EXCEPT ![b] = s]
  /\ reach' = [reach EXCEPT ![b] = [admin |-> {a}, left |-> ttl, via |-> via, age |-> age]]

\* The login form, right password. The session of an earlier sign-in stays.
Login(b, a) ==
  /\ \E s \in Session : CreateSession(b, s, a, WebTTL, "form", 0)
  /\ UNCHANGED <<inside, bound, launch>>

\* SetAdminLastLogin fails after the row was written: the browser is told that it
\* could not be signed in and gets no cookie, but the session is there.
LoginHalfDone(a) ==
  /\ \E s \in Unused : sessions' = [sessions EXCEPT ![s] = [admin |-> {a}, left |-> WebTTL]]
  /\ UNCHANGED <<cookie, inside, bound, launch, reach>>

\* Telegram opens the Mini App and hands it a payload dated now, by its own clock. The
\* payloads of earlier launches are still around: an open page, its history, a copy.
OpenMiniApp(b, a) ==
  /\ \E ahead \in Skew :
       launch' = [launch EXCEPT ![b] = @ \cup {[admin |-> a, age |-> -ahead]}]
  /\ UNCHANGED <<sessions, cookie, inside, bound, reach>>

\* Fault (mutation run): a payload is good for ever.
FreshAlways(age) == TRUE

\* VerifyInitData: neither too old nor too far ahead.
Fresh(age) == age <= LaunchAge /\ -age <= LaunchAge

\* Auth: every exchange of a payload opens a session of its own; nobody keeps track of
\* the payloads that have been exchanged.
Auth(b) ==
  /\ \E p \in launch[b], s \in Session :
       /\ Fresh(p.age)
       /\ p.admin \in bound
       /\ CreateSession(b, s, p.admin, MiniTTL, "launch", p.age)
  /\ UNCHANGED <<inside, bound, launch>>

\* Fault (mutation run): a row is a session until housekeeping has removed it.
LiveUntilDeleted(s) == sessions[s] # NoRow

\* WHERE expires_at > now().
Live(s) == sessions[s].left > 0

\* AdminAuth lets the request through, or sends it to the login form.
Enter(b) ==
  /\ inside[b] = Outside
  /\ cookie[b] # NoSession /\ Live(cookie[b])
  /\ inside' = [inside EXCEPT ![b] = [session |-> cookie[b], admin |-> sessions[cookie[b]].admin]]
  /\ UNCHANGED <<sessions, cookie, bound, launch, reach>>

\* The handler is done.
Leave(b) ==
  /\ inside[b] # Outside
  /\ inside' = [inside EXCEPT ![b] = Outside]
  /\ UNCHANGED <<sessions, cookie, bound, launch, reach>>

\* Fault (mutation run): all sessions of the administrator are ended.
DeleteSessionsOfAdmin(b) ==
  sessions' = [s \in Session |-> IF sessions[s].admin = inside[b].admin THEN NoRow ELSE sessions[s]]

DeleteSession(b) == sessions' = [sessions EXCEPT ![inside[b].session] = NoRow]

\* Logout: the cookie is cleared whether or not the row could be deleted.
Logout(b) ==
  /\ inside[b] # Outside
  /\ DeleteSession(b) \/ UNCHANGED sessions
  /\ cookie' = [cookie EXCEPT ![b] = NoSession]
  /\ reach' = [reach EXCEPT ![b] = NoReach]
  /\ inside' = [inside EXCEPT ![b] = Outside]
  /\ UNCHANGED <<bound, launch>>

\* The browser drops the cookie. It should on the day the session expires, but nothing
\* makes it.
DropCookie(b) ==
  /\ cookie[b] # NoSession
  /\ cookie' = [cookie EXCEPT ![b] = NoSession]
  /\ reach' = [reach EXCEPT ![b] = NoReach]
  /\ UNCHANGED <<sessions, inside, bound, launch>>

\* DeleteExpiredSessions: WHERE expires_at <= now().
DeleteExpired ==
  /\ sessions' = [s \in Session |-> IF sessions[s].left = 0 THEN NoRow ELSE sessions[s]]
  /\ UNCHANGED <<cookie, inside, bound, launch, reach>>

\* SetTelegramID, from the command line. Binding an administrator to another Telegram
\* account is what takes the panel away from the launches of the first.
SetTelegramID(a, on) ==
  /\ bound' = IF on THEN bound \cup {a} ELSE bound \ {a}
  /\ UNCHANGED <<sessions, cookie, inside, launch, reach>>

\* Requests in progress end with the process; rows and cookies do not.
StopSessions ==
  /\ inside' = [b \in Browser |-> Outside]
  /\ UNCHANGED <<sessions, cookie, bound, launch, reach>>

\* Payloads that are refused for their age are alike.
SessionsTick ==
  LET less(n) == IF n = 0 THEN 0 ELSE n - 1
      older(p) == [p EXCEPT !.age = IF @ > LaunchAge THEN @ ELSE @ + 1]
      nearer(r) == IF r.left = 0 THEN r ELSE [r EXCEPT !.left = @ - 1, !.age = @ + 1]
  IN /\ sessions' = [s \in Session |-> [sessions[s] EXCEPT !.left = less(@)]]
     /\ reach' = [b \in Browser |-> nearer(reach[b])]
     /\ launch' = [b \in Browser |-> {older(p) : p \in launch[b]}]
     /\ UNCHANGED <<cookie, inside, bound>>

SessionsStep ==
  \/ \E b \in Browser, a \in Administrator : OpenMiniApp(b, a)
  \/ \E b \in Browser : Auth(b) \/ Enter(b) \/ Leave(b) \/ Logout(b) \/ DropCookie(b)
  \/ \E a \in Administrator, on \in BOOLEAN : SetTelegramID(a, on)

-----------------------------------------------------------------------------
(* Properties.                                                             *)

\* Nobody acts in the panel without having signed in from this very browser, as the same
\* administrator, and less than a session's lifetime ago - also when housekeeping is late,
\* a logout could not delete its row or the cookie outlives its date.
ActsSignedIn ==
  [][\A b \in Browser :
       inside[b] = Outside /\ inside'[b] # Outside =>
         reach[b].left > 0 /\ reach[b].admin = inside'[b].admin]_sessionVars

\* "The Telegram client can re-authenticate silently at any time", so a launch is worth
\* little: however often its payload is exchanged, and whichever of the payloads that were
\* ever handed out it is, the panel is open for at most a session beyond the age at which
\* that payload is refused. (It is not single use, as Entry has it.)
LaunchWearsOff ==
  \A b \in Browser :
    reach[b].via = "launch" => reach[b].left + reach[b].age <= LaunchAge + MiniTTL

\* A session that has not expired ends by its own logout only: neither housekeeping nor the
\* logout of another browser - of the same administrator, perhaps - takes it away.
LiveSessionsKept ==
  [][\A s \in Session :
       sessions[s].left > 0 /\ sessions'[s] = NoRow =>
         \E b \in Browser : inside[b].session = s /\ cookie'[b] = NoSession]_sessionVars
=============================================================================
