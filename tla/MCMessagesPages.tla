--------------------------- MODULE MCMessagesPages ---------------------------
(***************************************************************************)
(* How people are told what the shop knows: the messages of the outbox,    *)
(* the pages that stay open in a tab, and the order list that is read page *)
(* by page. They share nothing, so a behaviour looks at one of them, and   *)
(* of the pages at the shop's or at those of one order.                    *)
(***************************************************************************)
EXTENDS Outbox, Pages, OrderBook, TLC

VARIABLE scene  \* what this behaviour looks at

\* No filter, one by status, and one whose status cannot be read.
SomeBars ==
  {[status |-> "", fixed |-> ""], [status |-> "asked", fixed |-> ""],
   [status |-> "unreadable", fixed |-> "asked"]}

MCInit ==
  /\ Init /\ PagesInit /\ BookInit
  /\ scene \in {"outbox", "shop", "order", "book"}

MCNext ==
  /\ \/ scene = "outbox" /\ Next /\ UNCHANGED <<pagesVars, bookVars>>
     \/ scene = "shop" /\ (BuyerStep \/ ShelfStep) /\ UNCHANGED <<outboxVars, bookVars>>
     \/ scene = "order" /\ OrderStep /\ UNCHANGED <<outboxVars, bookVars>>
     \/ scene = "book" /\ BookNext /\ UNCHANGED <<outboxVars, pagesVars>>
  /\ UNCHANGED scene

MCSpec == MCInit /\ [][MCNext]_<<outboxVars, pagesVars, bookVars, scene>> /\ OutboxFairness /\ PagesFairness
=============================================================================
