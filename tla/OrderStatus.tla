---------------------------- MODULE OrderStatus ----------------------------
(***************************************************************************)
(* The order status machine every other part of the shop is judged by      *)
(* (internal/domain/order/types.go), the moves an administrator owns       *)
(* (internal/domain/order/admin.go) and the translation of a provider      *)
(* status into a status of the machine (internal/domain/payment).          *)
(*                                                                         *)
(* The map[Status][]Status of the code is a relation here: no property     *)
(* depends on the order of a status's successors.                          *)
(***************************************************************************)

Status == {"created", "awaiting_payment", "paid", "shipped", "delivered",
           "expired", "cancelled", "refunded"}

transitions ==
  {<<"created", "awaiting_payment">>,
   <<"awaiting_payment", "paid">>,
   <<"awaiting_payment", "expired">>,
   <<"awaiting_payment", "cancelled">>,
   <<"paid", "shipped">>,
   <<"paid", "refunded">>,
   <<"paid", "cancelled">>,
   <<"shipped", "delivered">>,
   <<"expired", "cancelled">>}

CanTransition(from, to) == <<from, to>> \in transitions

\* The statuses an administrator may set by hand, whatever else is allowed.
manualTargets == {"shipped", "delivered", "cancelled"}

ManualTargets(from) == {to \in manualTargets : CanTransition(from, to)}

-----------------------------------------------------------------------------
(* Provider callbacks.                                                     *)

\* "other" stands for every raw status the shop has no case for.
ProviderStatus ==
  {"waiting", "confirming", "sending", "confirmed", "finished",
   "partially_paid", "failed", "expired", "refunded", "other"}

unknown == "unknown"

\* Fault (mutation run): a short payment counts.
MapStatusIgnoringAmount(raw, fullyPaid) ==
  CASE raw \in {"waiting", "confirming", "sending", "partially_paid"} -> "awaiting_payment"
    [] raw \in {"confirmed", "finished"} -> "paid"
    [] raw \in {"failed", "expired"} -> "expired"
    [] raw = "refunded" -> "refunded"
    [] OTHER -> unknown

\* The status a provider status asks for. A short payment never counts as paid.
MapStatus(raw, fullyPaid) ==
  CASE raw \in {"waiting", "confirming", "sending", "partially_paid"} -> "awaiting_payment"
    [] raw \in {"confirmed", "finished"} -> IF fullyPaid THEN "paid" ELSE "awaiting_payment"
    [] raw \in {"failed", "expired"} -> "expired"
    [] raw = "refunded" -> "refunded"
    [] OTHER -> unknown

\* The target is carried out only where the machine allows it; `unknown` is no
\* status, so CanTransition already refuses it.
Decides(current, target) == CanTransition(current, target)
=============================================================================
