------------------------------- MODULE Carts --------------------------------
(***************************************************************************)
(* The tables carts and cart_items, one operator per statement, and the    *)
(* rules of the cart service that stand between a request and a statement. *)
(* A statement that changes rows is an expression for the new table.       *)
(***************************************************************************)
EXTENDS Naturals, Sequences, FiniteSets, FiniteSetsExt

CONSTANTS
  Variant,    \* the sizes on sale
  MaxQty,     \* cart.MaxQty: units of one size in one cart
  MaxCarts,   \* bound on the carts ever opened
  MaxItems,   \* bound on the lines ever inserted
  NoCart      \* no cart id: no cookie, or one that names no cart

ASSUME MaxQtyAssumption == MaxQty \in Nat \ {0}
ASSUME CartBoundsAssumption == MaxCarts \in Nat /\ MaxItems \in Nat

\* Ids are uuids: never drawn twice. Numbers drawn in order stand for them.
CartId == 1..MaxCarts
ItemId == 1..MaxItems
Qty == 1..MaxQty

ASSUME NoCartAssumption == NoCart \notin CartId

VARIABLES
  carts,   \* carts: the ids there are
  items    \* cart_items: the rows by id; `gone` for a deleted one

cartVars == <<carts, items>>

gone == [cart |-> NoCart]
Row == [cart : CartId, variant : Variant, qty : Qty]

CartsInit == carts = {} /\ items = << >>

\* ValidateQty.
ValidQty(q) == q \in Qty

\* CartExists, CreateCart.
CartExists(c) == c \in carts
NextCart == Cardinality(carts) + 1
CanCreateCart == NextCart \in CartId

\* ListCartItems: the rows of one cart.
ListCartItems(c) == {i \in DOMAIN items : items[i] # gone /\ items[i].cart = c}

\* GetCartItemByVariant: the row of a size in a cart, as a set of at most one id.
GetCartItemByVariant(c, v) == {i \in ListCartItems(c) : items[i].variant = v}

\* QtyOf: 0 when the size is not in the cart.
QtyOf(c, v) ==
  LET found == GetCartItemByVariant(c, v)
  IN  IF found = {} THEN 0 ELSE items[CHOOSE i \in found : TRUE].qty

\* Fault (mutation run): ON CONFLICT DO NOTHING.
InsertCartItemOnce(c, v, q) ==
  IF GetCartItemByVariant(c, v) # {} THEN items
  ELSE Append(items, [cart |-> c, variant |-> v, qty |-> q])

\* InsertCartItem: ON CONFLICT (cart_id, variant_id) DO UPDATE SET qty.
CanInsertItem(c, v) == GetCartItemByVariant(c, v) # {} \/ Len(items) < MaxItems
InsertCartItem(c, v, q) ==
  LET found == GetCartItemByVariant(c, v)
  IN  IF found = {} THEN Append(items, [cart |-> c, variant |-> v, qty |-> q])
      ELSE [items EXCEPT ![CHOOSE i \in found : TRUE].qty = q]

\* UpdateCartItemQty and DeleteCartItem address a row by its id and its cart.
OwnedBy(c, i) == i \in ListCartItems(c)
UpdateCartItemQty(c, i, q) ==
  IF OwnedBy(c, i) THEN [items EXCEPT ![i].qty = q] ELSE items
DeleteCartItem(c, i) ==
  IF OwnedBy(c, i) THEN [items EXCEPT ![i] = gone] ELSE items

\* Cart.Subtotal of priced lines, and LineTotal of one.
LineTotal(line) == line.unit * line.qty
Subtotal(lines) == MapThenSumSet(LineTotal, lines)
=============================================================================
