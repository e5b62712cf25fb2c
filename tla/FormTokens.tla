----------------------------- MODULE FormTokens -----------------------------
(***************************************************************************)
(* The double submit token against forged forms, as the tabs of one        *)
(* browser live with it (httpx/middleware/csrf.go).                        *)
(*                                                                         *)
(* The token is in a signed cookie and in every form of every page. A      *)
(* request that comes without the cookie is given a new one, whatever it   *)
(* asks for, and the cookie lapses a fixed time after it was set. The      *)
(* server keeps nothing: a request is decided with what it carries, so an  *)
(* answer is made when the request is sent, and only its arrival is late.  *)
(***************************************************************************)
EXTENDS Naturals, FiniteSets

CONSTANTS
  Page,     \* the tabs of the browser
  Token,    \* tokens randomToken may draw
  NoToken   \* no cookie, or no form

ASSUME TokenAssumption == NoToken \notin Token

VARIABLES
  \* the cookie the browser holds
  jar,
  \* per tab: the token in the forms of the page, the token in the forms of its
  \* cart panel, and, as history, whether something came between since the page was
  \* asked for: the cookie lapsed, or a request that carried no cookie was under way
  open,
  \* per tab: the answer that is under way to it
  under

tokenVars == <<jar, open, under>>

\* What is in a tab: nothing, or a page with its forms.
Blank == [page |-> NoToken, panel |-> NoToken, disturbed |-> FALSE]

\* What is under way to a tab: the answer's cookie, and the page or panel it brings.
Nothing == [kind |-> "nothing", cookie |-> NoToken, token |-> NoToken, disturbed |-> FALSE]

FormTokensInit ==
  /\ jar = NoToken
  /\ open = [p \in Page |-> Blank]
  /\ under = [p \in Page |-> Nothing]

InUse ==
  {jar} \cup UNION {{open[p].page, open[p].panel, under[p].cookie, under[p].token} : p \in Page}

\* A token nobody holds: which one makes no difference.
randomToken == CHOOSE k \in Token : k \notin InUse

\* Requests that were sent without the cookie and have not been answered yet.
Bare == {p \in Page : under[p].cookie # NoToken}

\* Fault (mutation run): every page is given a token of its own.
IssueAlways == [token |-> randomToken, cookie |-> randomToken]

\* What the middleware does before anything else: the token of the request, and the
\* cookie its answer sets.
Issue ==
  IF jar = NoToken THEN [token |-> randomToken, cookie |-> randomToken]
  ELSE [token |-> jar, cookie |-> NoToken]

\* The request of tab p is answered: `kind` is what it brings, `token` its forms'.
\* It has met the requests without a cookie that are still under way, and they it, if
\* it has none either.
Sent(p, kind, token) ==
  under' = [q \in Page |->
    IF q = p THEN [kind |-> kind, cookie |-> Issue.cookie, token |-> token, disturbed |-> Bare # {}]
    ELSE IF q \in Bare /\ jar = NoToken THEN [under[q] EXCEPT !.disturbed = TRUE] ELSE under[q]]

\* The browser asks for a page: every GET is let through.
Get(p) ==
  /\ under[p] = Nothing
  /\ Sent(p, "page", Issue.token)
  /\ UNCHANGED <<jar, open>>

\* A script of the page asks for data, as the status page does: only the cookie matters.
PollData(p) ==
  /\ under[p] = Nothing /\ open[p].page # NoToken
  /\ Sent(p, "data", NoToken)
  /\ UNCHANGED <<jar, open>>

\* validToken: the form's token is the one of the request.
ValidToken(token) == token = Issue.token

\* A form of the page or of its cart panel is submitted. With fetch the answer is put
\* into the panel: the cart with the request's token in its forms, or an alert that has
\* none when the token was refused. Otherwise the answer is a page, with or without error.
Post(p, form, fetched) ==
  /\ under[p] = Nothing /\ form # NoToken
  /\ IF fetched
     THEN Sent(p, "panel", IF ValidToken(form) THEN Issue.token ELSE NoToken)
     ELSE Sent(p, "page", Issue.token)
  /\ UNCHANGED <<jar, open>>

\* The answer arrives: its cookie, if any, replaces the one in the jar.
Arrive(p) ==
  LET answer == under[p]
      spoiled == open[p].disturbed \/ answer.disturbed
  IN /\ answer # Nothing
     /\ jar' = IF answer.cookie # NoToken THEN answer.cookie ELSE jar
     /\ open' = [open EXCEPT ![p] =
          CASE answer.kind = "page" ->
                 [page |-> answer.token, panel |-> answer.token, disturbed |-> answer.disturbed]
            [] answer.kind = "panel" ->
                 [open[p] EXCEPT !.panel = answer.token, !.disturbed = spoiled]
            [] OTHER -> [open[p] EXCEPT !.disturbed = spoiled]]
     /\ under' = [under EXCEPT ![p] = Nothing]

\* The answer is lost, and its cookie with it.
Lost(p) ==
  /\ under[p] # Nothing
  /\ under' = [under EXCEPT ![p] = Nothing]
  /\ UNCHANGED <<jar, open>>

\* csrfTTL after it was set the browser drops the cookie, whoever is looking at a page.
Lapse ==
  /\ jar # NoToken
  /\ jar' = NoToken
  /\ open' = [p \in Page |-> [open[p] EXCEPT !.disturbed = @ \/ open[p] # Blank]]
  /\ under' = [p \in Page |-> [under[p] EXCEPT !.disturbed = @ \/ under[p] # Nothing]]

FormTokensNext ==
  \/ \E p \in Page : Get(p) \/ PollData(p) \/ Arrive(p) \/ Lost(p)
  \/ \E p \in Page, fetched \in BOOLEAN : \E form \in {open[p].page, open[p].panel} : Post(p, form, fetched)
  \/ Lapse

FormTokensSpec == FormTokensInit /\ [][FormTokensNext]_tokenVars

-----------------------------------------------------------------------------
\* "Both causes the CSRF layer refuses for are fixed by the same action" (Forbidden): a
\* page that was loaded since the cookie was last dropped, and that met no other first
\* request, has forms the shop takes: reloading helps, and no tab, poll or fragment
\* spoils the forms of another.
DeadFormHasACause ==
  \A p \in Page :
    \/ open[p].page \in {NoToken, jar} /\ open[p].panel \in {NoToken, jar}
    \/ open[p].disturbed
=============================================================================
