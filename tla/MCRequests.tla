---------------------------- MODULE MCRequests ----------------------------
(***************************************************************************)
(* What requests do to each other: the storefront and the back office, the *)
(* forms of one browser, the limits at the door, and the panel's sessions. *)
(* These parts share nothing, so a behaviour looks at one of them, with    *)
(* the others at rest. Values for the constants that a configuration file  *)
(* cannot write down.                                                      *)
(***************************************************************************)
EXTENDS Storefront, FormTokens, FrontDoor

CONSTANTS t1, t2, s1, s2, p1, p2, a1, a2, home, proxy

VARIABLES
  scene,  \* what this behaviour looks at
  crew    \* who acts in the shop: every pair side by side instead of all of them at once

Texts ==
  {<<"1">>, <<"1", ",", "5">>, <<"$", "1", ".", "0", "5">>, <<"1", ".">>,
   <<"-", "0", ".", "5">>, <<"9", "9">>}

\* A Duration has 64 values and a minute three of them: 27 minutes wrap round to 5.
Form(fee, minutes, stopped) ==
  [shipping_cents |-> fee, order_ttl_minutes |-> minutes, shop_paused |-> stopped]
Environment == Form(7, 6, FALSE)
Forms == {Form(7, 6, TRUE), Form(0, 27, FALSE), Form(9, 6, FALSE)}

Crews == {{t1, t2}, {t1, s1}, {t1, p1}, {s1, s2}, {p1, p2}}

ShopStep ==
  \/ \E t \in Tab \cap crew : TabStep(t)
  \/ \E a \in (Saver \cup Pricer) \cap crew : OfficeStep(a)
  \/ \E v \in Variant : OthersTrade(v)

Limits == [login |-> 2, webhook |-> 1]
Windows == [login |-> 2, webhook |-> 1]

\* Nothing, or an address somebody else may have.
Lies == {<<>>, <<Telegram>>, <<Malformed, proxy>>}

NoUpdates == [u \in Update |-> "nothing"]

\* Bound: where the panel is looked at, no restart follows another one, or a request,
\* within a window, and one sign-in is tried per window.
LongSince ==
  \A r \in Rule, c \in Client : passed[c][r][Window[r]] = 0 /\ restarts[r][Window[r]] = 0

\* The other administrator signs in by the form only. Bound: two payloads of different age.
OneUsesTheMiniApp ==
  /\ a2 \in bound'
  /\ \A b \in Browser : Cardinality(launch'[b]) <= 2 /\ \A p \in launch'[b] : p.admin # a2

DoorStep ==
  \/ /\ scene = "limits"
     /\ UNCHANGED sessionVars
     /\ \E c \in Client, claimed \in Claims, direct \in BOOLEAN : SignIn(c, claimed, direct)
  \/ /\ scene = "panel"
     /\ \/ SignIn(home, <<>>, FALSE) /\ windows[<<"login", home>>] = NoWindow
        \/ Panel /\ OneUsesTheMiniApp
  \/ Housekeeping
  \/ Tick
  \/ (scene = "panel" => LongSince) /\ Restart

MCInit ==
  /\ StoreInit /\ FormTokensInit /\ DoorInit
  /\ \/ scene = "shop" /\ crew \in Crews
     \/ scene \in {"forms", "limits", "panel"} /\ crew = {} /\ \A v \in Variant : available[v] = 0

MCNext ==
  /\ \/ scene = "shop" /\ ShopStep /\ UNCHANGED <<tokenVars, doorVars>>
     \/ scene = "forms" /\ FormTokensNext /\ UNCHANGED <<storeVars, doorVars>>
     \/ scene \in {"limits", "panel"} /\ DoorStep /\ UNCHANGED <<storeVars, tokenVars>>
  /\ UNCHANGED <<scene, crew>>

MCSpec == MCInit /\ [][MCNext]_<<storeVars, tokenVars, doorVars, scene, crew>>
=============================================================================
