---------------------------- MODULE OrderLedger ----------------------------
(***************************************************************************)
(* What the shop promises about orders, with nothing said of carts,        *)
(* requests, reservations or transactions.                                 *)
(*                                                                         *)
(* A sale happens in one step: the order appears, complete and pending, in *)
(* the same step that takes all of its lines out of the stock, and only if *)
(* every line is in stock.  The stock changes otherwise only because an    *)
(* admin wrote a product.  A pending order may be paid, once, and an order *)
(* never changes in any other way.  Module Shop is shown to implement this *)
(* specification.                                                          *)
(***************************************************************************)
EXTENDS Naturals, FiniteSetsExt

CONSTANTS
    Products,  \* products that may be sold
    Orders,    \* identities an order may get
    Prices,    \* prices a product may have
    LineMax    \* largest quantity of one line

VARIABLES
    stock,     \* [Products -> Nat]: units of each product left to sell
    supplied,  \* [Products -> Nat]: units sold or left to sell
    orders     \* [Orders -> order]

ledgerVars == <<stock, supplied, orders>>

Line == [quantity : 0..LineMax, price : Prices]
Lines == [Products -> Line]

Total(lines) ==
    MapThenSumSet(LAMBDA p : lines[p].quantity * lines[p].price, Products)

NoOrder == [status |-> "none"]

NewOrder(lines) ==
    [status |-> "pending", lines |-> lines, total |-> Total(lines)]

Init ==
    /\ stock \in [Products -> Nat]
    /\ supplied = stock
    /\ orders = [o \in Orders |-> NoOrder]

(* An order with at least one unit is placed, and its units leave the stock. *)
PlaceOrder(o, lines) ==
    /\ orders[o] = NoOrder
    /\ \E p \in Products : lines[p].quantity > 0
    /\ \A p \in Products : lines[p].quantity <= stock[p]
    /\ orders' = [orders EXCEPT ![o] = NewOrder(lines)]
    /\ stock' = [p \in Products |-> stock[p] - lines[p].quantity]
    /\ UNCHANGED supplied

(* PawPal has taken the customer's money for a pending order. *)
PayOrder(o) ==
    /\ orders[o].status = "pending"
    /\ orders' = [orders EXCEPT ![o].status = "paid"]
    /\ UNCHANGED <<stock, supplied>>

(* An admin writes a new stock of one product; the units sold stay sold. *)
SetStock(p) ==
    /\ stock'[p] \in Nat
    /\ stock' = [stock EXCEPT ![p] = stock'[p]]
    /\ supplied' = [supplied EXCEPT ![p] = (supplied[p] - stock[p]) + stock'[p]]
    /\ UNCHANGED orders

Next ==
    \/ \E o \in Orders, lines \in Lines : PlaceOrder(o, lines)
    \/ \E o \in Orders : PayOrder(o)
    \/ \E p \in Products : SetStock(p)

Spec == Init /\ [][Next]_ledgerVars

=============================================================================
