---------------------------- MODULE ClampedMinus ----------------------------
(***************************************************************************)
(* The subtraction of the stock queries, which "can never push the columns *)
(* below their check constraints" (db/query/order.sql).                    *)
(***************************************************************************)
EXTENDS Naturals

\* Fault (mutation run): the subtraction is not clamped.
MinusUnclamped(x, qty) == x - qty

\* x - LEAST(x, qty).
Minus(x, qty) == IF qty >= x THEN 0 ELSE x - qty
=============================================================================
