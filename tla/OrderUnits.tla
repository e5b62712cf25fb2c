----------------------------- MODULE OrderUnits -----------------------------
(***************************************************************************)
(* Counting the units of stock a set of orders asked for.                  *)
(*                                                                         *)
(* A sum of quantities over a set of orders is written as the cardinality  *)
(* of a set of units, one pair <<order, i>> for the i-th unit of a line,   *)
(* so that what the code does one order at a time can be reasoned about    *)
(* with set algebra.                                                       *)
(***************************************************************************)
EXTENDS ClampedMinus, FiniteSets

CONSTANTS Order,     \* the orders that may ever be placed
          Variant,   \* product variants (a size of a product)
          MaxQty     \* the most units one order line may carry (cart.MaxQty)

ASSUME OrderAssumption == IsFiniteSet(Order)
ASSUME MaxQtyAssumption == MaxQty \in Nat \ {0}

\* What an order asks of each variant; a variant it does not contain has 0.
Lines == [Variant -> 0..MaxQty]

NoLines == [v \in Variant |-> 0]

\* A cart has at least one line: checkout turns an empty one away.
Cart == Lines \ {NoLines}

\* The units of v that the orders os hold, given every order's lines.
UnitsOf(os, lines, v) == {u \in os \X (1..MaxQty) : u[2] <= lines[u[1]][v]}

Qty(os, lines, v) == Cardinality(UnitsOf(os, lines, v))
=============================================================================
