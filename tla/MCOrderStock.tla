---------------------------- MODULE MCOrderStock ----------------------------
(***************************************************************************)
(* Values for the constants of OrderStock that a configuration file cannot *)
(* write down.                                                             *)
(***************************************************************************)
EXTENDS OrderStock, TLC

Call(o, raw, full) ==
  [order |-> o, raw |-> raw, fullyPaid |-> full, body |-> 0, verified |-> TRUE]

\* The provider's first callback may overtake the checkout that opened the invoice.
WaitingOrPaid == UNION {{Call(o, "waiting", FALSE), Call(o, "finished", TRUE)} : o \in Order}

WaitingPaidOrRefunded == WaitingOrPaid \cup {Call(o, "refunded", TRUE) : o \in Order}

\* The full amount, too little, the money back, a forgery and somebody else's order.
PaidShortRefundedOrStray ==
  UNION {{Call(o, "finished", TRUE), Call(o, "refunded", TRUE), Call(o, "finished", FALSE)}
         : o \in Order}
    \cup {[Call(NoOrder, "other", FALSE) EXCEPT !.verified = v] : v \in BOOLEAN}

JustPaid == {Call(o, "finished", TRUE) : o \in Order}

\* The pause flag is read by nothing but the start of a checkout: states in which
\* the shop is paused afterwards are left out.
PausedBeforeCheckouts == paused => \A o \in Order : checkout[o] = "idle"

\* Chats that link an order again and again are followed for two confirmations, and
\* behaviours with a stray callback on file up to their first checkout.
FewConfirmations ==
  /\ Cardinality({n \in outbox : n.kind = "order_linked"}) <= 2
  /\ (\E c \in events : c.order = NoOrder) => \A o \in Order : checkout[o] = "idle"

ChatSymmetry == Permutations(Chat)
OrderSymmetry == Permutations(Order)
=============================================================================
