----------------------------- MODULE ShopProofs -----------------------------
(***************************************************************************)
(* Proofs about module Shop, for every value of its constants.             *)
(***************************************************************************)
EXTENDS Shop, SumProofs, TLAPS

-----------------------------------------------------------------------------
(* Lemmas about the data *)

\* A cart lists as a snapshot of the right type.
LEMMA ListItemsType ==
    ASSUME TypeOK, NEW u \in Users
    PROVE  ListItems(u) \in Lines
  BY DEF TypeOK, ListItems, Lines, Line

\* A new order is an order.
LEMMA NewOrderType ==
    ASSUME NEW ls \in Lines
    PROVE  NewOrder(ls) \in Orders
  BY DEF NewOrder, Orders

\* Paying a pending order gives an order.
LEMMA PaidOrderType ==
    ASSUME NEW o \in Orders, o.status = "pending"
    PROVE  /\ [o EXCEPT !.status = "paid"] \in Orders
           /\ o \in [status : {"pending", "paid"}, lines : Lines,
                     total : {OrderTotal(ls) : ls \in Lines}]
  BY DEF Orders, NoOrder

-----------------------------------------------------------------------------
(* Type correctness *)

\* The server starts with every column and every local variable in its type.
LEMMA InitType == Init => TypeOK
  <1> SUFFICES ASSUME Init PROVE TypeOK
    OBVIOUS
  <1> USE SeedsAreProducts, MaximumIsPositive, RowBound, StocksAreNatural,
          PricesAreNatural
  <1>1. NoLines \in Lines
    <2>1. (CHOOSE c \in Prices : TRUE) \in Prices
      OBVIOUS
    <2> QED BY <2>1 DEF NoLines, Lines, Line
  <1>2. inventory \in [Products -> Nat]
    <2>1. InitialStocks \cup {0} \subseteq Nat
      OBVIOUS
    <2>2. inventory \in [Products -> InitialStocks \cup {0}]
      BY DEF Init
    <2> QED BY <2>1, <2>2
  <1>3. NoOrder \in Orders
    BY DEF Orders
  <1> QED
    BY <1>1, <1>2, <1>3 DEF Init, TypeOK, NoStock, Places

\* One step per action; the variables an action leaves alone keep their type.
LEMMA NextType == TypeOK /\ [Next]_vars => TypeOK'
  <1> SUFFICES ASSUME TypeOK, [Next]_vars PROVE TypeOK'
    OBVIOUS
  <1> USE DEF vars, catalog, cartRows, snapshot, transaction, payments, counts,
              Places, Refusals
  <1>1. ASSUME NEW u \in Users, NEW p \in Products, NEW q \in 1..MaximumQuantity,
               AddItem(u, p, q)
        PROVE  TypeOK'
    <2>1. cart[u][p] + q \in 0..MaximumQuantity
      BY <1>1, MaximumIsPositive DEF AddItem, AddProductToCart, TypeOK
    <2>2. cart' \in [Users -> [Products -> 0..MaximumQuantity]]
      BY <1>1, <2>1 DEF AddItem, AddProductToCart, TypeOK
    <2>a. \/ /\ nextRow < MaxRows /\ nextRow' = nextRow + 1
             /\ rowOf' = [rowOf EXCEPT ![u][p] = nextRow]
          \/ nextRow' = nextRow /\ rowOf' = rowOf
      BY <1>1 DEF AddItem, AddProductToCart
    <2>b. nextRow \in 0..MaxRows /\ rowOf \in [Users -> [Products -> Nat]]
      BY DEF TypeOK
    <2>c. nextRow' \in 0..MaxRows
      BY <2>a, <2>b, RowBound
    <2>d. rowOf' \in [Users -> [Products -> Nat]]
      BY <2>a, <2>b, RowBound
    <2>3. nextRow' \in 0..MaxRows /\ rowOf' \in [Users -> [Products -> Nat]]
      BY <2>c, <2>d
    <2>4. UNCHANGED <<catalog, inventory, pc, snapshot, reply, transaction,
                      orders, payments, counts>>
      BY <1>1 DEF AddItem, AddProductToCart
    <2> QED BY <2>2, <2>3, <2>4 DEF TypeOK
  <1>2. ASSUME NEW u \in Users, NEW p \in Products, NEW q \in 0..MaximumQuantity,
               UpdateItem(u, p, q)
        PROVE  TypeOK'
    BY <1>2 DEF UpdateItem, UpdateCartItemQuantity, TypeOK
  <1>3. ASSUME NEW p \in Products, NEW input \in ProductInputs,
               CreateProduct(p, input) \/ UpdateProduct(p, input)
        PROVE  TypeOK'
    <2>1. /\ input.price \in Prices
          /\ input.inventory \in Nat
          /\ input.active \in BOOLEAN
      BY InputsAreParsed
    <2>a. /\ price' = [price EXCEPT ![p] = input.price]
          /\ inventory' = [inventory EXCEPT ![p] = input.inventory]
          /\ active' = [active EXCEPT ![p] = input.active]
          /\ supplied' = [supplied EXCEPT ![p] = input.inventory + sold[p]]
          /\ listed' = listed \cup {p} \/ listed' = listed
      BY <1>3 DEF CreateProduct, WriteProduct, UpdateProduct
    <2>b. input.inventory + sold[p] \in Nat
      BY <2>1 DEF TypeOK
    <2>2. /\ price' \in [Products -> Prices]
          /\ inventory' \in [Products -> Nat]
          /\ active' \in [Products -> BOOLEAN]
          /\ supplied' \in [Products -> Nat]
          /\ listed' \subseteq Products
      BY <2>a, <2>b, <2>1 DEF TypeOK
    <2>3. UNCHANGED <<cartRows, pc, snapshot, reply, transaction, orders,
                      payments, sold>>
      BY <1>3 DEF CreateProduct, WriteProduct, UpdateProduct
    <2> QED BY <2>2, <2>3 DEF TypeOK
  <1>4. ASSUME NEW r \in Requests, Submit(r)
        PROVE  TypeOK'
    BY <1>4 DEF Submit, Refuse, Answer, Goto, TypeOK
  <1>5. ASSUME NEW r \in Requests, AcornReserves(r) \/ AcornTimesOut(r)
        PROVE  TypeOK'
    BY <1>5 DEF AcornReserves, AcornTimesOut, Answer, Goto, TypeOK
  <1>6. ASSUME NEW r \in Requests, Relist(r)
        PROVE  TypeOK'
    BY <1>6 DEF Relist, Refuse, Answer, TypeOK
  <1>7. ASSUME NEW r \in Requests, RelistAndOrder(r)
        PROVE  TypeOK'
    <2>1. buyer[r] \in Users
      BY DEF TypeOK
    <2>2. ListItems(buyer[r]) \in Lines
      BY <2>1, ListItemsType
    <2>3. CartRowsOf(buyer[r]) \in SUBSET Nat
      BY <2>1 DEF CartRowsOf, Ordered, TypeOK
    <2> QED BY <1>7, <2>2, <2>3 DEF RelistAndOrder, Goto, TypeOK
  <1>8. ASSUME NEW r \in Requests, BeginOrder(r)
        PROVE  TypeOK'
    BY <1>8 DEF BeginOrder, Goto, Ordered, TypeOK
  <1>9. ASSUME NEW r \in Requests, BusyTimeout(r)
        PROVE  TypeOK'
    BY <1>9 DEF BusyTimeout, Answer, TypeOK
  <1>10. ASSUME NEW r \in Requests, NEW p \in Products, Decrement(r, p)
         PROVE  TypeOK'
    <2>1. lines[r][p].quantity \in Nat
      BY DEF TypeOK, Lines, Line
    <2>2. stock' \in [Products -> Nat]
      BY <1>10, <2>1 DEF Decrement, TypeOK
    <2> QED BY <1>10, <2>2 DEF Decrement, TypeOK
  <1>11. ASSUME NEW r \in Requests, NEW p \in Products, OutOfStock(r, p)
         PROVE  TypeOK'
    BY <1>11 DEF OutOfStock, ReleaseLock, NoStock, Answer, TypeOK
  <1>12. ASSUME NEW r \in Requests, Commit(r)
         PROVE  TypeOK'
    <2>1. /\ lines[r] \in Lines
          /\ \A p \in Products : lines[r][p].quantity \in Nat
      BY DEF TypeOK, Lines, Line
    <2>2. sold' \in [Products -> Nat]
      BY <1>12, <2>1 DEF Commit, CommitOrder, TypeOK
    <2>3. orders' \in [Requests -> Orders]
      BY <1>12, <2>1, NewOrderType DEF Commit, CommitOrder, TypeOK
    <2>4. cart' \in [Users -> [Products -> 0..MaximumQuantity]]
      BY <1>12, MaximumIsPositive DEF Commit, CommitOrder, TypeOK
    <2> QED BY <1>12, <2>2, <2>3, <2>4
            DEF Commit, CommitOrder, ReleaseLock, NoStock, Goto, TypeOK
  <1>13. ASSUME NEW r \in Requests, Redirect(r)
         PROVE  TypeOK'
    BY <1>13 DEF Redirect, Answer, TypeOK
  <1>14. ASSUME NEW r \in Requests, Fail(r)
         PROVE  TypeOK'
    BY <1>14 DEF Fail, Answer, ReleaseLock, NoStock, TypeOK
  <1>15. CASE Crash
    BY <1>15 DEF Crash, ReleaseLock, NoStock, TypeOK
  <1>16. ASSUME NEW o \in Requests, PawPalApproves(o)
         PROVE  TypeOK'
    BY <1>16 DEF PawPalApproves, TypeOK
  <1>17. ASSUME NEW post \in Posts, Webhook(post)
         PROVE  TypeOK'
    <2>1. post.order \in Requests /\ orders[post.order] \in Orders
      BY DEF Posts, TypeOK
    <2>2. orders' \in [Requests -> Orders]
      BY <1>17, <2>1, PaidOrderType DEF Webhook, ApprovePawPalOrder, TypeOK
    <2>3. receipts' \in [Requests -> Nat]
      BY <1>17, <2>1 DEF Webhook, ApprovePawPalOrder, TypeOK
    <2> QED BY <1>17, <2>2, <2>3 DEF Webhook, ApprovePawPalOrder, TypeOK
  <1>18. CASE UNCHANGED vars
    BY <1>18 DEF TypeOK
  <1> QED
    BY <1>1, <1>2, <1>3, <1>4, <1>5, <1>6, <1>7, <1>8, <1>9, <1>10, <1>11,
       <1>12,
       <1>13, <1>14, <1>15, <1>16, <1>17, <1>18
    DEF Next, EditsProducts, ChangesCart, Checkout

\* Every variable keeps the type of the column or local variable it models: no
\* stock and no cart quantity leaves its range, whatever the interleaving.
THEOREM TypeCorrect == Spec => []TypeOK
  <1>1. Init => TypeOK
    BY InitType
  <1>2. TypeOK /\ [Next]_vars => TypeOK'
    BY NextType
  <1> QED
    BY <1>1, <1>2, PTL DEF Spec

-----------------------------------------------------------------------------
(***************************************************************************)
(* The inductive invariant.  StockConserved, AnswersAreTruthful, NoResale  *)
(* and PaidOncePerApproval do not follow from themselves alone:            *)
(*   - a commit keeps the stock conserved because the private stock is the *)
(*     committed one minus the snapshot (TransactionIsolated);             *)
(*   - an answer is truthful because a request is answered once, and       *)
(*     commits once, at known places of its handler (OrdersHavePlaces);    *)
(*   - an order is not resold because the commit takes its rows out of the *)
(*     cart and a row inserted later is a new row (RowsAreFresh,           *)
(*     SoldRowsAreGone, EarlierIsEarlier).                                 *)
(***************************************************************************)

OrdersHavePlaces ==
    \A r \in Requests :
        /\ Placed(r) => pc[r] \in {"committed", "done"}
        /\ pc[r] = "committed" => Placed(r)
        /\ reply[r] # "none" => pc[r] = "done"

RowsAreFresh ==
    /\ \A r \in Requests : \A n \in rows[r] : n < nextRow
    /\ \A u \in Users, p \in Products : cart[u][p] > 0 => rowOf[u][p] < nextRow

SoldRowsAreGone ==
    \A r \in Requests, p \in Products :
        Placed(r) /\ cart[buyer[r]][p] > 0 => rowOf[buyer[r]][p] \notin rows[r]

EarlierIsEarlier ==
    \A r, o \in Requests :
        o \in earlier[r] => /\ Placed(o)
                           /\ buyer[o] = buyer[r]
                           /\ rows[r] \cap rows[o] = {}

IInv ==
    /\ TypeOK
    /\ StockConserved
    /\ TransactionIsolated
    /\ OrdersHavePlaces
    /\ AnswersAreTruthful
    /\ RowsAreFresh
    /\ SoldRowsAreGone
    /\ EarlierIsEarlier
    /\ PaidOncePerApproval

\* The invariant holds before the first request.
LEMMA InitInv == Init => IInv
  <1> SUFFICES ASSUME Init PROVE IInv
    OBVIOUS
  <1>1. TypeOK
    BY InitType
  <1>2. StockConserved
    BY <1>1 DEF Init, StockConserved, TypeOK
  <1>3. /\ TransactionIsolated /\ OrdersHavePlaces /\ AnswersAreTruthful
        /\ RowsAreFresh /\ SoldRowsAreGone /\ EarlierIsEarlier
        /\ PaidOncePerApproval
    BY DEF Init, TransactionIsolated, OrdersHavePlaces, AnswersAreTruthful,
           RowsAreFresh, SoldRowsAreGone, EarlierIsEarlier,
           PaidOncePerApproval, Placed, NoOrder, Refusals
  <1> QED BY <1>1, <1>2, <1>3 DEF IInv

\* Which steps write the columns that count units.
LEMMA StockSteps ==
    ASSUME [Next]_vars
    PROVE  \/ UNCHANGED <<inventory, sold, supplied>>
           \/ \E input \in ProductInputs : EditsProducts(input)
           \/ \E r \in Requests : Commit(r)
  <1>1. ASSUME NEW u \in Users, ChangesCart(u)
        PROVE  UNCHANGED <<inventory, sold, supplied>>
    BY <1>1 DEF ChangesCart, AddItem, UpdateItem, counts
  <1>2. ASSUME NEW r \in Requests,
               Submit(r) \/ AcornReserves(r) \/ Checkout(r) \/ Fail(r)
        PROVE  UNCHANGED <<inventory, sold, supplied>> \/ Commit(r)
    BY <1>2 DEF Checkout, counts, Submit, AcornReserves, AcornTimesOut, Relist,
       RelistAndOrder, BeginOrder, BusyTimeout, Decrement, OutOfStock,
       Redirect, Fail
  <1>3. ASSUME Crash \/ (\E o \in Requests : PawPalApproves(o))
                     \/ (\E post \in Posts : Webhook(post))
        PROVE  UNCHANGED <<inventory, sold, supplied>>
    BY <1>3 DEF Crash, PawPalApproves, Webhook, counts
  <1> QED BY <1>1, <1>2, <1>3 DEF Next, vars, counts

\* A product's units move between stock and orders, or an admin counts them anew.
LEMMA StockConservedStep == IInv /\ [Next]_vars => StockConserved'
  <1> SUFFICES ASSUME IInv, [Next]_vars PROVE StockConserved'
    OBVIOUS
  <1> USE DEF IInv, StockConserved
  <1>1. CASE UNCHANGED <<inventory, sold, supplied>>
    BY <1>1
  <1>2. ASSUME NEW p \in Products, NEW input \in ProductInputs,
               CreateProduct(p, input) \/ UpdateProduct(p, input)
        PROVE  StockConserved'
    <2>1. /\ inventory' = [inventory EXCEPT ![p] = input.inventory]
          /\ supplied' = [supplied EXCEPT ![p] = input.inventory + sold[p]]
          /\ sold' = sold
      BY <1>2 DEF CreateProduct, WriteProduct, UpdateProduct
    <2>2. input.inventory \in Nat
      BY InputsAreParsed
    <2> QED BY <2>1, <2>2 DEF TypeOK
  <1>3. ASSUME NEW r \in Requests, Commit(r)
        PROVE  StockConserved'
    <2>1. /\ inventory' = stock
          /\ supplied' = supplied
          /\ sold' = [p \in Products |-> sold[p] + lines[r][p].quantity]
          /\ writer = r /\ todo = {}
      BY <1>3 DEF Commit, CommitOrder
    <2>2. \A p \in Products : inventory[p] = stock[p] + lines[r][p].quantity
      BY <2>1, NobodyIsNoRequest DEF TransactionIsolated
    <2>3. \A p \in Products : /\ lines[r][p].quantity \in Nat
                             /\ stock[p] \in Nat /\ sold[p] \in Nat
                             /\ supplied[p] \in Nat
      BY DEF TypeOK, Lines, Line
    <2> QED BY <2>1, <2>2, <2>3
  <1> QED BY <1>1, <1>2, <1>3, StockSteps DEF EditsProducts

\* Which steps write orders and payments.
LEMMA OrderSteps ==
    ASSUME [Next]_vars
    PROVE  \/ UNCHANGED <<orders, approvals, receipts>>
           \/ \E r \in Requests : Commit(r)
           \/ \E o \in Requests : PawPalApproves(o)
           \/ \E post \in Posts : Webhook(post)
  BY DEF Next, EditsProducts, ChangesCart, Checkout, vars, catalog, cartRows,
     snapshot, transaction, payments, counts, AddItem, AddProductToCart,
     UpdateItem, UpdateCartItemQuantity, CreateProduct, WriteProduct,
     UpdateProduct, Submit, AcornReserves, AcornTimesOut, Relist,
     RelistAndOrder, BeginOrder, BusyTimeout, Decrement, OutOfStock, Redirect,
     Fail, Crash

\* Orders appear by commits only, each for a request that had none.
LEMMA PlacedSteps ==
    ASSUME IInv, [Next]_vars, NEW o \in Requests
    PROVE  \/ Placed(o)' = Placed(o)
           \/ Commit(o) /\ ~Placed(o) /\ Placed(o)'
  <1> USE DEF IInv, TypeOK
  <1>1. CASE UNCHANGED <<orders, approvals, receipts>>
    BY <1>1 DEF Placed
  <1>2. ASSUME NEW r \in Requests, Commit(r)
        PROVE  \/ Placed(o)' = Placed(o)
               \/ Commit(o) /\ ~Placed(o) /\ Placed(o)'
    <2>1. orders' = [orders EXCEPT ![r] = NewOrder(lines[r])] /\ writer = r
      BY <1>2 DEF Commit, CommitOrder
    <2>2. ~Placed(r)
      BY <2>1, NobodyIsNoRequest DEF TransactionIsolated, OrdersHavePlaces
    <2>3. CASE o = r
      BY <1>2, <2>1, <2>2, <2>3 DEF Placed, NewOrder
    <2>4. CASE o # r
      BY <2>1, <2>4 DEF Placed
    <2> QED BY <2>3, <2>4
  <1>3. ASSUME NEW r \in Requests, PawPalApproves(r)
        PROVE  Placed(o)' = Placed(o)
    BY <1>3 DEF PawPalApproves, Placed
  <1>4. ASSUME NEW post \in Posts, Webhook(post)
        PROVE  Placed(o)' = Placed(o)
    <2>1. /\ orders' = [orders EXCEPT ![post.order].status = "paid"]
          /\ orders[post.order].status = "pending"
          /\ post.order \in Requests
      BY <1>4 DEF Webhook, ApprovePawPalOrder, Posts
    <2>2. orders[post.order] \in Orders
      BY <2>1
    <2>3. [orders[post.order] EXCEPT !.status = "paid"].status = "paid"
      BY <2>1, <2>2 DEF Orders, NoOrder
    <2>4. CASE o = post.order
      BY <2>1, <2>3, <2>4 DEF Placed
    <2>5. CASE o # post.order
      BY <2>1, <2>5 DEF Placed
    <2> QED BY <2>4, <2>5
  <1> QED BY <1>1, <1>2, <1>3, <1>4, OrderSteps

\* A webhook post turns a pending, approved order into a paid one, or does nothing.
LEMMA PaidOnceStep == IInv /\ [Next]_vars => PaidOncePerApproval'
  <1> SUFFICES ASSUME IInv, [Next]_vars PROVE PaidOncePerApproval'
    OBVIOUS
  <1> USE DEF IInv, TypeOK, PaidOncePerApproval
  <1>1. CASE UNCHANGED <<orders, approvals, receipts>>
    BY <1>1
  <1>2. ASSUME NEW r \in Requests, Commit(r)
        PROVE  PaidOncePerApproval'
    <2>1. /\ orders' = [orders EXCEPT ![r] = NewOrder(lines[r])] /\ writer = r
          /\ UNCHANGED <<approvals, receipts>>
      BY <1>2 DEF Commit, CommitOrder, payments
    <2>2. ~Placed(r)
      BY <2>1, NobodyIsNoRequest DEF TransactionIsolated, OrdersHavePlaces
    <2>3. receipts[r] = 0
      BY <2>2 DEF Placed
    <2> QED BY <2>1, <2>3 DEF NewOrder
  <1>3. ASSUME NEW r \in Requests, PawPalApproves(r)
        PROVE  PaidOncePerApproval'
    BY <1>3 DEF PawPalApproves
  <1>4. ASSUME NEW post \in Posts, Webhook(post)
        PROVE  PaidOncePerApproval'
    <2> DEFINE o == post.order
    <2>1. /\ orders' = [orders EXCEPT ![o].status = "paid"]
          /\ orders[o].status = "pending"
          /\ receipts' = [receipts EXCEPT ![o] = @ + 1]
          /\ approvals' = approvals
          /\ o \in Requests /\ o \in approvals
      BY <1>4 DEF Webhook, ApprovePawPalOrder, Posts, MayBePosted,
         VerifyWebhook
    <2>2. receipts[o] = 0
      BY <2>1
    <2>3. [orders[o] EXCEPT !.status = "paid"].status = "paid"
      BY <2>1, PaidOrderType DEF Orders, NoOrder
    <2>4. receipts'[o] = 1 /\ orders'[o].status = "paid"
      BY <2>1, <2>2, <2>3
    <2>5. \A q \in Requests \ {o} : orders'[q] = orders[q] /\ receipts'[q] = receipts[q]
      BY <2>1
    <2> HIDE DEF o
    <2> QED BY <2>1, <2>4, <2>5
  <1> QED BY <1>1, <1>2, <1>3, <1>4, OrderSteps

-----------------------------------------------------------------------------
(* The order transaction *)

\* Which steps write what TransactionIsolated reads.
LEMMA TransactionSteps ==
    ASSUME IInv, [Next]_vars
    PROVE  \/ UNCHANGED <<inventory, lines, pc, writer, stock, todo>>
           \/ /\ UNCHANGED <<inventory, writer, stock, todo>>
              /\ \E r \in Requests \ {writer} :
                    \A q \in Requests \ {r} : pc'[q] = pc[q] /\ lines'[q] = lines[q]
           \/ writer' = Nobody
           \/ \E r \in Requests : BeginOrder(r)
           \/ \E r \in Requests, p \in Products : Decrement(r, p)
  <1> USE DEF vars, catalog, snapshot, transaction
  <1> DEFINE Other(r) ==
          /\ UNCHANGED <<inventory, writer, stock, todo>>
          /\ r # writer
          /\ \A q \in Requests \ {r} : pc'[q] = pc[q] /\ lines'[q] = lines[q]
  <1>1. CASE UNCHANGED vars
    BY <1>1
  <1>2. ASSUME NEW u \in Users, NEW p \in Products, NEW q,
               AddItem(u, p, q) \/ UpdateItem(u, p, q)
        PROVE  UNCHANGED <<inventory, lines, pc, writer, stock, todo>>
    BY <1>2 DEF AddItem, AddProductToCart, UpdateItem, UpdateCartItemQuantity
  <1>3. ASSUME NEW p \in Products, NEW input \in ProductInputs,
               CreateProduct(p, input) \/ UpdateProduct(p, input)
        PROVE  writer' = Nobody
    BY <1>3 DEF CreateProduct, WriteProduct, UpdateProduct, CanWrite
  <1>a. \A r \in Requests : pc[r] # "in_transaction" => r # writer
    BY NobodyIsNoRequest DEF IInv, TransactionIsolated
  <1>b. pc \in [Requests -> Places] /\ lines \in [Requests -> Lines]
    BY DEF IInv, TypeOK
  <1>4. ASSUME NEW r \in Requests, Submit(r)
        PROVE  Other(r)
    <2>1. /\ pc[r] = "idle"
          /\ \E place : pc' = [pc EXCEPT ![r] = place]
          /\ UNCHANGED <<inventory, lines, writer, stock, todo>>
      BY <1>4 DEF Submit, Answer, Goto, Refuse
    <2> QED BY <2>1, <1>a, <1>b
  <1>5. ASSUME NEW r \in Requests, AcornReserves(r) \/ AcornTimesOut(r) \/ Redirect(r)
        PROVE  Other(r)
    <2>1. /\ pc[r] \in {"reserving", "committed"}
          /\ \E place : pc' = [pc EXCEPT ![r] = place]
          /\ UNCHANGED <<inventory, lines, writer, stock, todo>>
      BY <1>5 DEF AcornReserves, AcornTimesOut, Redirect, Answer, Goto
    <2> QED BY <2>1, <1>a, <1>b
  <1>6. ASSUME NEW r \in Requests, Relist(r) \/ RelistAndOrder(r)
        PROVE  Other(r)
    <2>1. /\ pc[r] = "reserved"
          /\ \E place : pc' = [pc EXCEPT ![r] = place]
          /\ UNCHANGED <<inventory, writer, stock, todo>>
      BY <1>6 DEF Relist, RelistAndOrder, Refuse, Answer, Goto
    <2>2. lines' = lines \/ lines' = [lines EXCEPT ![r] = ListItems(buyer[r])]
      BY <1>6 DEF Relist, RelistAndOrder
    <2> QED BY <2>1, <2>2, <1>a, <1>b
  <1>7. ASSUME NEW r \in Requests, BusyTimeout(r)
        PROVE  Other(r)
    <2>1. /\ pc[r] = "ordering"
          /\ pc' = [pc EXCEPT ![r] = "done"]
          /\ UNCHANGED <<inventory, lines, writer, stock, todo>>
      BY <1>7 DEF BusyTimeout, Answer
    <2> QED BY <2>1, <1>a, <1>b
  <1>8. ASSUME NEW r \in Requests, Fail(r)
        PROVE  Other(r) \/ writer' = Nobody
    <2>1. CASE writer = r
      BY <1>8, <2>1 DEF Fail, ReleaseLock
    <2>2. CASE writer # r
      <3>1. /\ pc' = [pc EXCEPT ![r] = "done"]
            /\ UNCHANGED <<inventory, lines, writer, stock, todo>>
        BY <1>8, <2>2 DEF Fail, Answer
      <3> QED BY <3>1, <2>2, <1>b
    <2> QED BY <2>1, <2>2
  <1>9. ASSUME NEW r \in Requests,
               Commit(r) \/ \E p \in Products : OutOfStock(r, p)
        PROVE  writer' = Nobody
    BY <1>9 DEF OutOfStock, Commit, CommitOrder, ReleaseLock
  <1>10. ASSUME Crash
         PROVE  writer' = Nobody
    BY <1>10 DEF Crash, ReleaseLock
  <1>11. ASSUME NEW o \in Requests, PawPalApproves(o)
         PROVE  UNCHANGED <<inventory, lines, pc, writer, stock, todo>>
    BY <1>11 DEF PawPalApproves
  <1>12. ASSUME NEW post \in Posts, Webhook(post)
         PROVE  UNCHANGED <<inventory, lines, pc, writer, stock, todo>>
    BY <1>12 DEF Webhook, ApprovePawPalOrder
  <1> HIDE DEF Other
  <1>13. ASSUME Next
         PROVE  \/ UNCHANGED <<inventory, lines, pc, writer, stock, todo>>
                \/ \E r \in Requests : Other(r)
                \/ writer' = Nobody
                \/ \E r \in Requests : BeginOrder(r)
                \/ \E r \in Requests, p \in Products : Decrement(r, p)
    <2>1. ASSUME NEW r \in Requests, Checkout(r)
          PROVE  \/ Other(r)
                 \/ writer' = Nobody
                 \/ BeginOrder(r)
                 \/ \E p \in Products : Decrement(r, p)
      BY <2>1, <1>5, <1>6, <1>7, <1>9 DEF Checkout
    <2> QED
      BY <1>13, <2>1, <1>2, <1>3, <1>4, <1>5, <1>8, <1>10, <1>11, <1>12
         DEF Next, EditsProducts, ChangesCart
  <1> QED
    BY <1>1, <1>13 DEF Other

\* Nobody but its own handler touches an open order transaction.
LEMMA TransactionStep == IInv /\ [Next]_vars => TransactionIsolated'
  <1> SUFFICES ASSUME IInv, [Next]_vars PROVE TransactionIsolated'
    OBVIOUS
  <1>a. TypeOK /\ TransactionIsolated
    BY DEF IInv
  <1>1. CASE UNCHANGED <<inventory, lines, pc, writer, stock, todo>>
    BY <1>a, <1>1 DEF TransactionIsolated
  <1>2. ASSUME UNCHANGED <<inventory, writer, stock, todo>>,
               NEW r \in Requests \ {writer},
               \A q \in Requests \ {r} : pc'[q] = pc[q] /\ lines'[q] = lines[q]
        PROVE  TransactionIsolated'
    BY <1>a, <1>2 DEF TransactionIsolated, TypeOK
  <1>3. CASE writer' = Nobody
    BY <1>3 DEF TransactionIsolated
  <1>4. ASSUME NEW r \in Requests, BeginOrder(r)
        PROVE  TransactionIsolated'
    <2>1. /\ writer' = r
          /\ stock' = inventory /\ inventory' = inventory /\ lines' = lines
          /\ todo' = Ordered(lines[r])
          /\ pc' = [pc EXCEPT ![r] = "in_transaction"]
      BY <1>4 DEF BeginOrder, Goto, snapshot
    <2>2. \A p \in Products : /\ lines[r][p].quantity \in Nat
                             /\ inventory[p] \in Nat
      BY <1>a DEF TypeOK, Lines, Line
    <2>3. \A p \in Products \ todo' : lines[r][p].quantity = 0
      BY <2>1, <2>2 DEF Ordered
    <2>4. pc'[r] = "in_transaction"
      BY <2>1, <1>a DEF TypeOK
    <2> QED BY <2>1, <2>2, <2>3, <2>4 DEF TransactionIsolated
  <1>5. ASSUME NEW r \in Requests, NEW p \in Products, Decrement(r, p)
        PROVE  TransactionIsolated'
    <2>1. /\ writer = r /\ writer' = r /\ p \in todo
          /\ stock[p] >= lines[r][p].quantity
          /\ stock' = [stock EXCEPT ![p] = stock[p] - lines[r][p].quantity]
          /\ todo' = todo \ {p}
          /\ inventory' = inventory /\ lines' = lines /\ pc' = pc
      BY <1>5 DEF Decrement, snapshot
    <2>2. \A q \in Products : /\ lines[r][q].quantity \in Nat
                             /\ inventory[q] \in Nat /\ stock[q] \in Nat
      BY <1>a DEF TypeOK, Lines, Line
    <2>3. \A q \in Products :
             inventory[q] = stock[q] + (IF q \in todo THEN 0
                                        ELSE lines[r][q].quantity)
      BY <2>1, <1>a, NobodyIsNoRequest DEF TransactionIsolated
    <2>4. stock'[p] = stock[p] - lines[r][p].quantity
      BY <2>1, <1>a DEF TypeOK
    <2>5. inventory[p] = stock'[p] + lines[r][p].quantity
      BY <2>1, <2>2, <2>3, <2>4
    <2>6. \A q \in Products \ {p} : stock'[q] = stock[q]
      BY <2>1, <1>a DEF TypeOK
    <2>7. \A q \in Products :
             inventory'[q] = stock'[q] + (IF q \in todo' THEN 0
                                          ELSE lines'[r][q].quantity)
      BY <2>1, <2>3, <2>5, <2>6
    <2>8. pc'[r] = "in_transaction"
      BY <2>1, <1>a, NobodyIsNoRequest DEF TransactionIsolated
    <2> QED BY <2>1, <2>7, <2>8 DEF TransactionIsolated
  <1> QED BY <1>1, <1>2, <1>3, <1>4, <1>5, TransactionSteps

-----------------------------------------------------------------------------
(* Handlers *)

\* Where one request's handler goes in one step: it stays, it moves on before
\* its commit, it is refused or cut off before its commit, it commits, or it is
\* redirected or cut off after it.
LEMMA HandlerSteps ==
    ASSUME IInv, [Next]_vars, NEW r \in Requests
    PROVE  \/ pc'[r] = pc[r] /\ reply'[r] = reply[r]
           \/ /\ pc[r] \notin {"committed", "done"}
              /\ pc'[r] \notin {"committed", "done"}
              /\ reply'[r] = reply[r]
           \/ /\ pc[r] \notin {"committed", "done"}
              /\ pc'[r] = "done"
              /\ reply'[r] \in Refusals \cup {"lost"}
           \/ Commit(r) /\ pc'[r] = "committed" /\ reply'[r] = reply[r]
           \/ /\ pc[r] = "committed"
              /\ pc'[r] = "done"
              /\ reply'[r] \in {"pawpal", "lost"}
  <1> DEFINE Stays(q) == pc'[q] = pc[q] /\ reply'[q] = reply[q]
             Moves(q) == /\ pc[q] \notin {"committed", "done"}
                         /\ pc'[q] \notin {"committed", "done"}
                         /\ reply'[q] = reply[q]
             Refused(q) == /\ pc[q] \notin {"committed", "done"}
                           /\ pc'[q] = "done"
                           /\ reply'[q] \in Refusals \cup {"lost"}
             Commits(q) == Commit(q) /\ pc'[q] = "committed" /\ reply'[q] = reply[q]
             Redirected(q) == /\ pc[q] = "committed"
                              /\ pc'[q] = "done"
                              /\ reply'[q] \in {"pawpal", "lost"}
             Known == Stays(r) \/ Moves(r) \/ Refused(r) \/ Commits(r) \/ Redirected(r)
  <1> SUFFICES Known
    OBVIOUS
  <1>a. /\ pc \in [Requests -> Places]
        /\ reply \in [Requests -> Refusals \cup {"none", "lost", "pawpal"}]
    BY DEF IInv, TypeOK
  <1>b. writer # Nobody => pc[writer] = "in_transaction"
    BY DEF IInv, TransactionIsolated
  <1>1. ASSUME pc' = pc, reply' = reply
        PROVE  Known
    BY <1>1
  <1>2. ASSUME NEW q \in Requests, NEW place \in Places \ {"committed", "done"},
               pc[q] \notin {"committed", "done"}, Goto(q, place)
        PROVE  Known
    <2>1. Stays(r) \/ Moves(r)
      BY <1>a, <1>2 DEF Goto
    <2> QED BY <2>1
  <1>3. ASSUME NEW q \in Requests, NEW answer \in Refusals,
               pc[q] \notin {"committed", "done"}, Answer(q, answer)
        PROVE  Known
    <2>1. Stays(r) \/ Refused(r)
      BY <1>a, <1>3 DEF Answer
    <2> QED BY <2>1
  <1>4. ASSUME NEW q \in Requests, Commit(q)
        PROVE  Known
    <2>1. pc' = [pc EXCEPT ![q] = "committed"] /\ reply' = reply
      BY <1>4 DEF Commit, CommitOrder, Goto
    <2>2. Stays(r) \/ Commits(r)
      BY <2>1, <1>a, <1>4
    <2> QED BY <2>2
  <1>5. ASSUME NEW q \in Requests, Redirect(q)
        PROVE  Known
    <2>1. /\ pc[q] = "committed"
          /\ pc' = [pc EXCEPT ![q] = "done"]
          /\ reply' = [reply EXCEPT ![q] = "pawpal"]
      BY <1>5 DEF Redirect, Answer
    <2>2. Stays(r) \/ Redirected(r)
      BY <2>1, <1>a
    <2> QED BY <2>2
  <1>6. CASE Crash
    <2>1. \/ pc'[r] = pc[r] /\ reply'[r] = reply[r]
          \/ pc[r] # "done" /\ pc'[r] = "done" /\ reply'[r] = "lost"
      BY <1>6 DEF Crash, InFlight
    <2>2. Stays(r) \/ Refused(r) \/ Redirected(r)
      BY <2>1
    <2> QED BY <2>2
  <1> HIDE DEF Known
  <1>7. CASE UNCHANGED vars
    BY <1>1, <1>7 DEF vars
  <1>8. ASSUME NEW q \in Requests, Submit(q)
        PROVE  Known
    <2>1. /\ pc[q] = "idle"
          /\ \/ \E answer \in Refusals : Answer(q, answer)
             \/ Goto(q, "reserving")
      BY <1>8 DEF Submit, Refuse, Refusals
    <2> QED BY <2>1, <1>2, <1>3 DEF Places
  <1>9. ASSUME NEW q \in Requests, AcornReserves(q) \/ AcornTimesOut(q)
        PROVE  Known
    <2>1. /\ pc[q] = "reserving"
          /\ \/ \E answer \in Refusals : Answer(q, answer)
             \/ Goto(q, "reserved")
      BY <1>9 DEF AcornReserves, AcornTimesOut, Refusals
    <2> QED BY <2>1, <1>2, <1>3 DEF Places
  <1>10. ASSUME NEW q \in Requests, Relist(q) \/ RelistAndOrder(q)
         PROVE  Known
    <2>1. /\ pc[q] = "reserved"
          /\ \/ \E answer \in Refusals : Answer(q, answer)
             \/ Goto(q, "ordering")
      BY <1>10 DEF Relist, RelistAndOrder, Refuse, Refusals
    <2> QED BY <2>1, <1>2, <1>3 DEF Places
  <1>11. ASSUME NEW q \in Requests, BeginOrder(q) \/ BusyTimeout(q)
         PROVE  Known
    <2>1. /\ pc[q] = "ordering"
          /\ \/ \E answer \in Refusals : Answer(q, answer)
             \/ Goto(q, "in_transaction")
      BY <1>11 DEF BeginOrder, BusyTimeout, Refusals
    <2> QED BY <2>1, <1>2, <1>3 DEF Places
  <1>12. ASSUME NEW q \in Requests, NEW p \in Products, Decrement(q, p)
         PROVE  Known
    BY <1>12, <1>1 DEF Decrement
  <1>13. ASSUME NEW q \in Requests, NEW p \in Products, OutOfStock(q, p)
         PROVE  Known
    <2>1. pc[q] = "in_transaction" /\ Answer(q, "conflict")
      BY <1>13, <1>b, NobodyIsNoRequest DEF OutOfStock
    <2> QED BY <2>1, <1>3 DEF Refusals
  <1>14. ASSUME NEW q \in Requests, Fail(q)
         PROVE  Known
    <2>1. pc[q] \notin {"committed", "done"} /\ Answer(q, "error")
      BY <1>14 DEF Fail, InFlight
    <2> QED BY <2>1, <1>3 DEF Refusals
  <1>15. ASSUME NEW u \in Users, NEW p \in Products, NEW n,
                AddItem(u, p, n) \/ UpdateItem(u, p, n)
         PROVE  Known
    BY <1>15, <1>1 DEF AddItem, AddProductToCart, UpdateItem,
       UpdateCartItemQuantity
  <1>16. ASSUME NEW p \in Products, NEW input,
                CreateProduct(p, input) \/ UpdateProduct(p, input)
         PROVE  Known
    BY <1>16, <1>1 DEF CreateProduct, WriteProduct, UpdateProduct
  <1>17. ASSUME NEW o, PawPalApproves(o) \/ Webhook(o)
         PROVE  Known
    BY <1>17, <1>1 DEF PawPalApproves, Webhook, ApprovePawPalOrder
  <1>18. ASSUME NEW q \in Requests, Checkout(q)
         PROVE  Known
    BY <1>18, <1>4, <1>5, <1>9, <1>10, <1>11, <1>12, <1>13 DEF Checkout
  <1> QED
    BY <1>6, <1>7, <1>8, <1>9, <1>14, <1>15, <1>16, <1>17, <1>18 DEF Next,
       EditsProducts, ChangesCart

\* An order exists once its handler has committed, and the answers say so.
LEMMA PlacesStep == IInv /\ [Next]_vars => OrdersHavePlaces' /\ AnswersAreTruthful'
  <1> SUFFICES ASSUME IInv, [Next]_vars, NEW r \in Requests
               PROVE  /\ Placed(r)' => pc'[r] \in {"committed", "done"}
                      /\ pc'[r] = "committed" => Placed(r)'
                      /\ reply'[r] # "none" => pc'[r] = "done"
                      /\ reply'[r] \in Refusals => ~Placed(r)'
                      /\ reply'[r] = "pawpal" => Placed(r)'
    BY DEF OrdersHavePlaces, AnswersAreTruthful
  <1>1. /\ Placed(r) => pc[r] \in {"committed", "done"}
        /\ pc[r] = "committed" => Placed(r)
        /\ reply[r] # "none" => pc[r] = "done"
        /\ reply[r] \in Refusals => ~Placed(r)
        /\ reply[r] = "pawpal" => Placed(r)
    BY DEF IInv, OrdersHavePlaces, AnswersAreTruthful
  <1>2. CASE Commit(r) /\ ~Placed(r) /\ Placed(r)'
    <2>1. pc'[r] = "committed" /\ reply'[r] = reply[r]
      BY <1>2 DEF Commit, CommitOrder, Goto, IInv, TypeOK
    <2>2. pc[r] = "in_transaction"
      BY <1>2, NobodyIsNoRequest
         DEF Commit, CommitOrder, IInv, TransactionIsolated
    <2> QED BY <1>1, <1>2, <2>1, <2>2 DEF Refusals
  <1>3. CASE Placed(r)' = Placed(r) /\ ~Commit(r)
    BY <1>1, <1>3, HandlerSteps DEF Refusals
  <1>4. Commit(r) => ~Placed(r) /\ Placed(r)'
    <2>1. ASSUME Commit(r) PROVE ~Placed(r) /\ Placed(r)'
      <3>1. pc[r] = "in_transaction"
        BY <2>1, NobodyIsNoRequest
           DEF Commit, CommitOrder, IInv, TransactionIsolated
      <3>2. orders' = [orders EXCEPT ![r] = NewOrder(lines[r])]
        BY <2>1 DEF Commit, CommitOrder
      <3>3. orders'[r] = NewOrder(lines[r])
        BY <3>2 DEF IInv, TypeOK
      <3> QED BY <3>1, <3>3, <1>1 DEF Placed, NewOrder
    <2> QED BY <2>1
  <1> QED BY <1>2, <1>3, <1>4, PlacedSteps

-----------------------------------------------------------------------------
(* Cart rows *)

\* Which steps write carts and snapshots.
LEMMA CartSteps ==
    ASSUME [Next]_vars
    PROVE  /\ buyer' = buyer
           /\ \/ UNCHANGED <<cart, rowOf, nextRow, rows, earlier>>
              \/ \E u \in Users, p \in Products, q \in 1..MaximumQuantity :
                    AddItem(u, p, q)
              \/ \E u \in Users, p \in Products, q \in 0..MaximumQuantity :
                    UpdateItem(u, p, q)
              \/ \E r \in Requests : RelistAndOrder(r)
              \/ \E r \in Requests : Commit(r)
  <1> USE DEF vars, catalog, cartRows, snapshot
  <1>1. buyer' = buyer
    BY DEF Next, EditsProducts, ChangesCart, Checkout, AddItem,
       AddProductToCart, UpdateItem, UpdateCartItemQuantity, CreateProduct,
       WriteProduct, UpdateProduct, Submit, AcornReserves, AcornTimesOut,
       Relist, RelistAndOrder, BeginOrder, BusyTimeout, Decrement, OutOfStock,
       Commit, CommitOrder, Redirect, Fail, Crash, PawPalApproves, Webhook,
       ApprovePawPalOrder
  <1>2. \/ UNCHANGED <<cart, rowOf, nextRow, rows, earlier>>
        \/ \E u \in Users, p \in Products, q \in 1..MaximumQuantity :
              AddItem(u, p, q)
        \/ \E u \in Users, p \in Products, q \in 0..MaximumQuantity :
              UpdateItem(u, p, q)
        \/ \E r \in Requests : RelistAndOrder(r)
        \/ \E r \in Requests : Commit(r)
    BY DEF Next, EditsProducts, ChangesCart, Checkout, CreateProduct,
       WriteProduct, UpdateProduct, Submit, AcornReserves, AcornTimesOut,
       Relist, BeginOrder, BusyTimeout, Decrement, OutOfStock, Redirect, Fail,
       Crash, PawPalApproves, Webhook, ApprovePawPalOrder
  <1> QED BY <1>1, <1>2

\* Rows enter a cart one by one and are numbered as they do.
LEMMA AddItemRows ==
    ASSUME IInv, NEW u \in Users, NEW p \in Products, NEW q \in 1..MaximumQuantity,
           AddItem(u, p, q)
    PROVE  /\ nextRow' \in Nat /\ nextRow' >= nextRow
           /\ UNCHANGED <<orders, rows, earlier, buyer>>
           /\ \A v \in Users, x \in Products :
                 cart'[v][x] > 0 =>
                    \/ cart[v][x] > 0 /\ rowOf'[v][x] = rowOf[v][x]
                    \/ rowOf'[v][x] = nextRow /\ nextRow' = nextRow + 1
  <1>1. /\ nextRow \in 0..MaxRows
        /\ rowOf \in [Users -> [Products -> Nat]]
        /\ cart \in [Users -> [Products -> 0..MaximumQuantity]]
    BY DEF IInv, TypeOK
  <1>2. /\ \/ /\ nextRow' = nextRow + 1
              /\ rowOf' = [rowOf EXCEPT ![u][p] = nextRow]
           \/ /\ cart[u][p] > 0
              /\ nextRow' = nextRow /\ rowOf' = rowOf
        /\ cart' = [cart EXCEPT ![u][p] = cart[u][p] + q]
        /\ UNCHANGED <<orders, rows, earlier, buyer>>
    BY <1>1 DEF AddItem, AddProductToCart, snapshot
  <1>3. nextRow' \in Nat /\ nextRow' >= nextRow
    BY <1>1, <1>2, RowBound
  <1>4. ASSUME NEW v \in Users, NEW x \in Products, cart'[v][x] > 0
        PROVE  \/ cart[v][x] > 0 /\ rowOf'[v][x] = rowOf[v][x]
               \/ rowOf'[v][x] = nextRow /\ nextRow' = nextRow + 1
    <2>1. CASE v = u /\ x = p
      BY <1>1, <1>2, <2>1
    <2>2. CASE ~(v = u /\ x = p)
      <3>1. cart'[v][x] = cart[v][x] /\ rowOf'[v][x] = rowOf[v][x]
        BY <1>1, <1>2, <2>2
      <3> QED BY <3>1, <1>4
    <2> QED BY <2>1, <2>2
  <1> QED BY <1>2, <1>3, <1>4

\* Cart rows are numbered as they are inserted, and an order's rows leave the
\* cart for good.
LEMMA RowsStep ==
    IInv /\ [Next]_vars => RowsAreFresh' /\ SoldRowsAreGone' /\ EarlierIsEarlier'
  <1> SUFFICES ASSUME IInv, [Next]_vars
               PROVE  RowsAreFresh' /\ SoldRowsAreGone' /\ EarlierIsEarlier'
    OBVIOUS
  <1> DEFINE Rows == RowsAreFresh' /\ SoldRowsAreGone' /\ EarlierIsEarlier'
  <1> USE DEF RowsAreFresh, SoldRowsAreGone, EarlierIsEarlier
  <1>a. /\ nextRow \in Nat
        /\ rowOf \in [Users -> [Products -> Nat]]
        /\ cart \in [Users -> [Products -> 0..MaximumQuantity]]
        /\ buyer \in [Requests -> Users]
        /\ rows \in [Requests -> SUBSET Nat]
        /\ earlier \in [Requests -> SUBSET Requests]
    BY RowBound DEF IInv, TypeOK
  <1>b. RowsAreFresh /\ SoldRowsAreGone /\ EarlierIsEarlier
    BY DEF IInv
  <1>c. buyer' = buyer
    BY CartSteps
  <1>1. ASSUME NEW u \in Users, NEW p \in Products, NEW q \in 1..MaximumQuantity,
               AddItem(u, p, q)
        PROVE  Rows
    <2>1. \A r \in Requests : Placed(r)' = Placed(r)
      BY <1>1, AddItemRows DEF Placed
    <2>2. \A v \in Users, x \in Products : rowOf[v][x] \in Nat
      BY <1>a
    <2>3. RowsAreFresh'
      BY <1>1, <1>a, <1>b, <2>2, AddItemRows
    <2>4. SoldRowsAreGone'
      BY <1>1, <1>a, <1>b, <2>1, AddItemRows
    <2>5. EarlierIsEarlier'
      BY <1>1, <1>b, <2>1, AddItemRows
    <2> QED BY <2>3, <2>4, <2>5
  <1>2. ASSUME NEW u \in Users, NEW p \in Products, NEW q \in 0..MaximumQuantity,
               UpdateItem(u, p, q)
        PROVE  Rows
    <2>1. /\ UNCHANGED <<orders, rows, earlier, rowOf, nextRow>>
          /\ cart[u][p] > 0
          /\ cart' = [cart EXCEPT ![u][p] = q]
      BY <1>2 DEF UpdateItem, UpdateCartItemQuantity, snapshot
    <2>2. \A r \in Requests : Placed(r)' = Placed(r)
      BY <2>1 DEF Placed
    <2>3. \A v \in Users, x \in Products : cart'[v][x] > 0 => cart[v][x] > 0
      BY <2>1, <1>a
    <2> QED BY <1>a, <1>b, <1>c, <2>1, <2>2, <2>3
  <1>3. ASSUME NEW r \in Requests, RelistAndOrder(r)
        PROVE  Rows
    <2> DEFINE u == buyer[r]
    <2>1. /\ rows' = [rows EXCEPT ![r] = CartRowsOf(u)]
          /\ earlier' = [earlier EXCEPT ![r] =
                            {o \in Requests : Placed(o) /\ buyer[o] = u}]
          /\ UNCHANGED <<cart, rowOf, nextRow, orders>>
          /\ pc[r] = "reserved"
      BY <1>3 DEF RelistAndOrder, cartRows
    <2>2. ~Placed(r)
      BY <2>1 DEF IInv, OrdersHavePlaces
    <2>3. \A o \in Requests : Placed(o)' = Placed(o)
      BY <2>1 DEF Placed
    <2>4. u \in Users
      BY <1>a
    <2>5. CartRowsOf(u) = {rowOf[u][p] : p \in {x \in Products : cart[u][x] > 0}}
      BY DEF CartRowsOf, Ordered, ListItems
    <2>6. \A n \in CartRowsOf(u) : n < nextRow
      BY <2>4, <2>5, <1>b
    <2>7. rows'[r] = CartRowsOf(u) /\ \A o \in Requests \ {r} : rows'[o] = rows[o]
      BY <2>1, <1>a
    <2>8. RowsAreFresh'
      BY <2>1, <2>6, <2>7, <1>b
    <2>9. SoldRowsAreGone'
      BY <2>1, <2>2, <2>3, <2>7, <1>b, <1>c
    <2>10. \A o \in Requests :
              Placed(o) /\ buyer[o] = u => CartRowsOf(u) \cap rows[o] = {}
      BY <2>5, <2>4, <1>b
    <2>11. earlier'[r] = {o \in Requests : Placed(o) /\ buyer[o] = u}
           /\ \A o \in Requests \ {r} : earlier'[o] = earlier[o]
      BY <2>1, <1>a
    <2>12. ASSUME NEW o \in Requests, NEW e \in Requests, e \in earlier'[o]
           PROVE  /\ Placed(e)' /\ buyer'[e] = buyer'[o]
                  /\ rows'[o] \cap rows'[e] = {}
      <3>1. CASE o = r
        <4>1. Placed(e) /\ buyer[e] = u /\ e # r
          BY <2>12, <3>1, <2>11, <2>2
        <4> QED BY <3>1, <4>1, <2>3, <2>7, <2>10, <1>c
      <3>2. CASE o # r
        <4>1. e \in earlier[o]
          BY <2>12, <3>2, <2>11
        <4>2. Placed(e) /\ buyer[e] = buyer[o] /\ rows[o] \cap rows[e] = {}
          BY <4>1, <1>b
        <4>3. e # r
          BY <4>2, <2>2
        <4> QED BY <3>2, <4>2, <4>3, <2>3, <2>7, <1>c
      <3> QED BY <3>1, <3>2
    <2> QED BY <2>8, <2>9, <2>12
  <1>4. ASSUME NEW r \in Requests, Commit(r)
        PROVE  Rows
    <2>1. /\ cart' = [cart EXCEPT ![buyer[r]] = [p \in Products |-> 0]]
          /\ orders' = [orders EXCEPT ![r] = NewOrder(lines[r])]
          /\ UNCHANGED <<rowOf, nextRow, rows, earlier>>
      BY <1>4 DEF Commit, CommitOrder, snapshot
    <2>2. \A o \in Requests : Placed(o) => Placed(o)'
      BY PlacedSteps
    <2>3. \A o \in Requests \ {r} : Placed(o)' = Placed(o)
      BY <2>1 DEF Placed, IInv, TypeOK
    <2>4. \A v \in Users, x \in Products :
             /\ cart'[v][x] > 0 => cart[v][x] > 0
             /\ ~(cart'[buyer[r]][x] > 0)
      BY <2>1, <1>a
    <2>5. RowsAreFresh'
      BY <2>1, <2>4, <1>b
    <2>6. ASSUME NEW o \in Requests, NEW p \in Products, Placed(o)',
                 cart'[buyer'[o]][p] > 0
          PROVE  rowOf'[buyer'[o]][p] \notin rows'[o]
      <3>1. buyer[o] # buyer[r] /\ buyer[o] \in Users
        BY <2>6, <2>4, <1>a, <1>c
      <3>2. Placed(o) /\ cart[buyer[o]][p] > 0
        BY <3>1, <2>6, <2>3, <2>4, <1>c
      <3> QED BY <3>1, <3>2, <2>1, <1>b, <1>c
    <2>7. EarlierIsEarlier'
      BY <2>1, <2>2, <1>a, <1>b, <1>c
    <2> QED BY <2>5, <2>6, <2>7
  <1>5. ASSUME UNCHANGED <<cart, rowOf, nextRow, rows, earlier>>,
               \A r \in Requests : ~Commit(r)
        PROVE  Rows
    <2>1. \A r \in Requests : Placed(r)' = Placed(r)
      BY <1>5, PlacedSteps
    <2> QED BY <1>5, <2>1, <1>b, <1>c
  <1> HIDE DEF Rows
  <1>6. Rows
    BY <1>1, <1>2, <1>3, <1>4, <1>5, CartSteps
  <1> QED BY <1>6 DEF Rows

-----------------------------------------------------------------------------
(* The safety theorems *)

\* No step breaks the invariant; one lemma per part.
LEMMA NextInv == IInv /\ [Next]_vars => IInv'
  BY NextType, StockConservedStep, TransactionStep, PlacesStep, RowsStep,
     PaidOnceStep
     DEF IInv

\* The inductive invariant holds in every reachable state.
THEOREM Invariance == Spec => []IInv
  BY InitInv, NextInv, PTL DEF Spec

\* Units in stock and units in orders add up to the units supplied, whatever
\* order transactions run, roll back or are cut short by a crash.
THEOREM Conservation == Spec => []StockConserved
  <1>1. IInv => StockConserved
    BY DEF IInv
  <1> QED BY Invariance, <1>1, PTL

\* The order transaction works on the stock nobody else writes meanwhile.
THEOREM Isolation == Spec => []TransactionIsolated
  <1>1. IInv => TransactionIsolated
    BY DEF IInv
  <1> QED BY Invariance, <1>1, PTL

\* A checkout that was refused left no order, and one sent to PawPal has one.
THEOREM Truthfulness == Spec => []AnswersAreTruthful
  <1>1. IInv => AnswersAreTruthful
    BY DEF IInv
  <1> QED BY Invariance, <1>1, PTL

\* A checkout that listed the cart after an order of the same user was committed
\* sells none of that order's cart rows again.
THEOREM NoRowIsResold == Spec => []NoResale
  <1>1. IInv => NoResale
    BY DEF IInv, TypeOK, EarlierIsEarlier, NoResale
  <1> QED BY Invariance, <1>1, PTL

\* However often the webhook is posted, an order is paid once and only after
\* PawPal approved it.
THEOREM PaidOnce == Spec => []PaidOncePerApproval
  <1>1. IInv => PaidOncePerApproval
    BY DEF IInv
  <1> QED BY Invariance, <1>1, PTL

-----------------------------------------------------------------------------
(* The units in orders *)

\* The units of an order are a number, whatever the order is.
LEMMA UnitsOrderedType ==
    ASSUME TypeOK, NEW p \in Products
    PROVE  UnitsOrdered(p) \in [Requests -> Nat]
  <1> SUFFICES ASSUME NEW r \in Requests, Placed(r)
               PROVE  orders[r].lines[p].quantity \in Nat
    BY DEF UnitsOrdered
  <1>1. orders[r] \in Orders /\ orders[r] # NoOrder
    BY DEF TypeOK, Placed, NoOrder
  <1>2. orders[r].lines \in Lines
    BY <1>1 DEF Orders
  <1> QED BY <1>2, MaximumIsPositive DEF Lines, Line

\* Only a commit changes how many units are sold or which units an order holds:
\* an admin's form counts the stock anew, and a webhook only writes a status.
LEMMA UnitsSteps ==
    ASSUME IInv, [Next]_vars
    PROVE  \/ /\ sold' = sold
              /\ \A p \in Products : UnitsOrdered(p)' = UnitsOrdered(p)
           \/ \E r \in Requests : Commit(r)
  <1> SUFFICES ASSUME ~\E r \in Requests : Commit(r)
               PROVE  /\ sold' = sold
                      /\ \A p \in Products : UnitsOrdered(p)' = UnitsOrdered(p)
    OBVIOUS
  <1>1. sold' = sold
    <2>1. ASSUME NEW p \in Products, NEW input \in ProductInputs,
                 CreateProduct(p, input) \/ UpdateProduct(p, input)
          PROVE  sold' = sold
      BY <2>1 DEF CreateProduct, UpdateProduct
    <2> QED BY <2>1, StockSteps DEF EditsProducts
  <1>2. CASE UNCHANGED <<orders, approvals, receipts>>
    BY <1>1, <1>2 DEF UnitsOrdered, Placed
  <1>3. ASSUME NEW o \in Requests, PawPalApproves(o)
        PROVE  orders' = orders
    BY <1>3 DEF PawPalApproves
  <1>4. ASSUME NEW post \in Posts, Webhook(post), NEW p \in Products
        PROVE  UnitsOrdered(p)' = UnitsOrdered(p)
    <2> DEFINE o == post.order
    <2>1. /\ orders' = [orders EXCEPT ![o].status = "paid"]
          /\ orders[o].status = "pending"
          /\ o \in Requests
      BY <1>4 DEF Webhook, ApprovePawPalOrder, Posts
    <2>2. /\ orders[o] \in [status : {"pending", "paid"}, lines : Lines,
                            total : {OrderTotal(ls) : ls \in Lines}]
          /\ orders \in [Requests -> Orders]
      BY <2>1, PaidOrderType DEF IInv, TypeOK
    <2>3. orders'[o].status = "paid" /\ orders'[o].lines = orders[o].lines
      BY <2>1, <2>2
    <2>4. \A r \in Requests \ {o} : orders'[r] = orders[r]
      BY <2>1, <2>2
    <2> HIDE DEF o
    <2>5. ASSUME NEW r \in Requests
          PROVE  (IF Placed(r) THEN orders[r].lines[p].quantity ELSE 0)' =
                 IF Placed(r) THEN orders[r].lines[p].quantity ELSE 0
      BY <2>1, <2>3, <2>4 DEF Placed
    <2> QED BY <2>5 DEF UnitsOrdered
  <1> QED
    BY <1>1, <1>2, <1>3, <1>4, OrderSteps DEF UnitsOrdered, Placed

\* A commit adds the lines of one new order to the units sold.
LEMMA CommittedUnits ==
    ASSUME IInv, NEW r \in Requests, Commit(r), NEW p \in Products
    PROVE  /\ sold'[p] = sold[p] + lines[r][p].quantity
           /\ UnitsOrdered(p)[r] = 0
           /\ UnitsOrdered(p)'[r] = lines[r][p].quantity
           /\ \A o \in Requests \ {r} : UnitsOrdered(p)'[o] = UnitsOrdered(p)[o]
           /\ lines[r][p].quantity \in Nat
  <1>1. /\ orders' = [orders EXCEPT ![r] = NewOrder(lines[r])] /\ writer = r
        /\ sold' = [q \in Products |-> sold[q] + lines[r][q].quantity]
    BY DEF Commit, CommitOrder
  <1>2. orders'[r] = NewOrder(lines[r])
    BY <1>1 DEF IInv, TypeOK
  <1>3. ~Placed(r)
    BY <1>1, NobodyIsNoRequest DEF IInv, TransactionIsolated, OrdersHavePlaces
  <1>4. Placed(r)' /\ orders'[r].lines = lines[r]
    BY <1>2 DEF Placed, NewOrder
  <1>5. \A o \in Requests \ {r} : orders'[o] = orders[o]
    BY <1>1 DEF IInv, TypeOK
  <1>6. lines[r][p].quantity \in Nat
    BY MaximumIsPositive DEF IInv, TypeOK, Lines, Line
  <1> QED BY <1>1, <1>3, <1>4, <1>5, <1>6 DEF UnitsOrdered, Placed

\* What a commit adds to the units sold, it adds to the units in orders.
LEMMA UnitsStep ==
    IInv /\ SoldUnitsAreOrdered /\ [Next]_vars => SoldUnitsAreOrdered'
  <1> SUFFICES ASSUME IInv, SoldUnitsAreOrdered, [Next]_vars,
                      NEW p \in Products, NEW r \in Requests, Commit(r)
               PROVE  sold'[p] = SumFunction(UnitsOrdered(p)')
    BY UnitsSteps DEF SoldUnitsAreOrdered
  <1> DEFINE f == UnitsOrdered(p)
             g == UnitsOrdered(p)'
  <1>1. f \in [Requests -> Nat]
    BY UnitsOrderedType DEF IInv
  <1>2. g = [o \in Requests |-> g[o]]
    BY DEF UnitsOrdered
  <1>3. /\ sold'[p] = sold[p] + lines[r][p].quantity
        /\ f[r] = 0 /\ g[r] = lines[r][p].quantity
        /\ \A o \in Requests \ {r} : g[o] = f[o]
        /\ lines[r][p].quantity \in Nat
    BY CommittedUnits
  <1>4. sold[p] = SumFunction(f)
    BY DEF SoldUnitsAreOrdered
  <1> HIDE DEF f, g
  <1>5. g \in [Requests -> Nat]
    <2>1. \A o \in Requests : g[o] \in Nat
      BY <1>1, <1>3
    <2> QED BY <1>2, <2>1
  <1>6. SumFunction(g) + f[r] = SumFunction(f) + g[r]
    BY <1>1, <1>3, <1>5, RequestsAreFinite, SumChange
  <1>7. SumFunction(f) \in Nat /\ SumFunction(g) \in Nat
    BY <1>1, <1>5, RequestsAreFinite, SumType
  <1>8. sold'[p] = SumFunction(g)
    BY <1>3, <1>4, <1>6, <1>7
  <1> QED BY <1>8 DEF g

\* No order is there at the start, and no unit is sold.
LEMMA UnitsInit == Init => SoldUnitsAreOrdered
  <1> SUFFICES ASSUME Init, NEW p \in Products
               PROVE  sold[p] = SumFunction(UnitsOrdered(p))
    BY DEF SoldUnitsAreOrdered
  <1>1. UnitsOrdered(p) \in [Requests -> Nat]
    BY InitType, UnitsOrderedType
  <1>2. \A r \in Requests : UnitsOrdered(p)[r] = 0
    BY DEF Init, UnitsOrdered, Placed, NoOrder
  <1>3. SumFunction(UnitsOrdered(p)) = 0
    BY <1>1, <1>2, RequestsAreFinite, SumOfZeroes
  <1> QED BY <1>3 DEF Init

\* The units counted as sold are the units of the orders in the database,
\* however many orders there are.
THEOREM UnitsSold == Spec => []SoldUnitsAreOrdered
  BY UnitsInit, UnitsStep, Invariance, PTL DEF Spec

\* Nothing is oversold: what is left in stock and what all orders together hold
\* is what the admins supplied, so no set of concurrent checkouts can order more
\* of a product than there was.
NothingOversold ==
    \A p \in Products :
        /\ inventory[p] + SumFunction(UnitsOrdered(p)) = supplied[p]
        /\ \A r \in Requests : UnitsOrdered(p)[r] <= supplied[p]

\* CreateFromCart's stock check holds the orders to the stock, whatever races.
THEOREM OrdersFitTheSupply == Spec => []NothingOversold
  <1>1. IInv /\ SoldUnitsAreOrdered => NothingOversold
    <2> SUFFICES ASSUME IInv, SoldUnitsAreOrdered, NEW p \in Products,
                        NEW r \in Requests
                 PROVE  /\ inventory[p] + SumFunction(UnitsOrdered(p)) = supplied[p]
                        /\ UnitsOrdered(p)[r] <= supplied[p]
      BY DEF NothingOversold, IInv, StockConserved, SoldUnitsAreOrdered
    <2>1. inventory[p] + SumFunction(UnitsOrdered(p)) = supplied[p]
      BY DEF IInv, StockConserved, SoldUnitsAreOrdered
    <2>2. UnitsOrdered(p) \in [Requests -> Nat]
      BY UnitsOrderedType DEF IInv
    <2>3. /\ UnitsOrdered(p)[r] <= SumFunction(UnitsOrdered(p))
          /\ SumFunction(UnitsOrdered(p)) \in Nat
      BY <2>2, RequestsAreFinite, SumCoversEach, SumType
    <2>4. inventory[p] \in Nat /\ supplied[p] \in Nat /\ UnitsOrdered(p)[r] \in Nat
      BY <2>2 DEF IInv, TypeOK
    <2> QED BY <2>1, <2>3, <2>4
  <1> QED BY <1>1, UnitsSold, Invariance, PTL

\* A step that moves a handler empties a cart only by committing its order.
LEMMA CartKeptStep ==
    ASSUME IInv, [Next]_vars, pc' # pc, NEW u \in Users
    PROVE  \/ cart'[u] = cart[u]
           \/ \E r \in Requests : buyer[r] = u /\ ~Placed(r) /\ Placed(r)'
  <1>1. ASSUME NEW v \in Users, NEW p \in Products, NEW q,
               AddItem(v, p, q) \/ UpdateItem(v, p, q)
        PROVE  FALSE
    BY <1>1 DEF AddItem, AddProductToCart, UpdateItem, UpdateCartItemQuantity
  <1>2. ASSUME NEW r \in Requests, RelistAndOrder(r)
        PROVE  cart' = cart
    BY <1>2 DEF RelistAndOrder, cartRows
  <1>3. ASSUME NEW r \in Requests, Commit(r)
        PROVE  \/ cart'[u] = cart[u]
               \/ buyer[r] = u /\ ~Placed(r) /\ Placed(r)'
    <2>1. /\ cart' = [cart EXCEPT ![buyer[r]] = [p \in Products |-> 0]]
          /\ orders' = [orders EXCEPT ![r] = NewOrder(lines[r])]
          /\ writer = r
      BY <1>3 DEF Commit, CommitOrder
    <2>2. ~Placed(r)
      BY <2>1, NobodyIsNoRequest
         DEF IInv, TransactionIsolated, OrdersHavePlaces
    <2>3. Placed(r)'
      BY <2>1 DEF Placed, NewOrder, IInv, TypeOK
    <2>4. buyer[r] # u => cart'[u] = cart[u]
      BY <2>1 DEF IInv, TypeOK
    <2> QED BY <2>2, <2>3, <2>4
  <1> QED BY <1>1, <1>2, <1>3, CartSteps

\* Whatever step of a checkout fails, its customer's cart is as it was.
THEOREM CartSurvivesFailure == Spec => FailedCheckoutKeepsCart
  <1>1. IInv /\ [Next]_vars =>
          [pc' # pc =>
             \A u \in Users :
                \/ cart'[u] = cart[u]
                \/ \E r \in Requests : buyer[r] = u /\ ~Placed(r) /\ Placed(r)']_vars
    BY CartKeptStep
  <1> QED BY <1>1, Invariance, PTL DEF Spec, FailedCheckoutKeepsCart

-----------------------------------------------------------------------------
(***************************************************************************)
(* Shop implements OrderLedger: a commit is a sale, because its snapshot   *)
(* has a line (SnapshotsAreOrders) and every line it decremented was in    *)
(* the committed stock (TransactionIsolated); a webhook that turns an      *)
(* order into a paid one is a payment; an admin's write sets a stock; and  *)
(* all other steps leave the committed orders and stock alone.             *)
(***************************************************************************)

SnapshotsAreOrders ==
    \A r \in Requests :
        pc[r] \in {"ordering", "in_transaction"} => Ordered(lines[r]) # {}

\* A request enters "ordering" by listing a cart that is not empty.
LEMMA SnapshotSteps ==
    ASSUME IInv, [Next]_vars, NEW r \in Requests
    PROVE  \/ RelistAndOrder(r)
           \/ /\ lines'[r] = lines[r]
              /\ pc'[r] \in {"ordering", "in_transaction"} =>
                    pc[r] \in {"ordering", "in_transaction"}
  <1>a. pc \in [Requests -> Places] /\ lines \in [Requests -> Lines]
    BY DEF IInv, TypeOK
  <1>1. \/ lines' = lines
        \/ \E q \in Requests : RelistAndOrder(q)
    BY DEF Next, EditsProducts, ChangesCart, Checkout, vars, snapshot,
       AddItem, AddProductToCart, UpdateItem, UpdateCartItemQuantity,
       CreateProduct, WriteProduct, UpdateProduct, Submit, AcornReserves,
       AcornTimesOut, Relist, BeginOrder, BusyTimeout, Decrement, OutOfStock,
       Commit, CommitOrder, Redirect, Fail, Crash, PawPalApproves, Webhook,
       ApprovePawPalOrder
  <1>2. ASSUME NEW q \in Requests \ {r}, RelistAndOrder(q)
        PROVE  lines'[r] = lines[r] /\ pc'[r] = pc[r]
    <2>1. /\ lines' = [lines EXCEPT ![q] = ListItems(buyer[q])]
          /\ pc' = [pc EXCEPT ![q] = "ordering"]
      BY <1>2 DEF RelistAndOrder, Goto
    <2> QED BY <2>1, <1>a
  <1>3. ASSUME lines' = lines, ~RelistAndOrder(r)
        PROVE  pc'[r] \in {"ordering", "in_transaction"} =>
                 pc[r] \in {"ordering", "in_transaction"}
    <2> DEFINE Kept == pc'[r] \in {"ordering", "in_transaction"} =>
                         pc[r] \in {"ordering", "in_transaction"}
    <2>1. ASSUME NEW q \in Requests, NEW place \in {"reserving", "reserved", "committed",
                                                    "done"},
                 pc' = [pc EXCEPT ![q] = place]
          PROVE  Kept
      BY <2>1, <1>a
    <2>2. ASSUME pc' = pc
          PROVE  Kept
      BY <2>2
    <2>3. ASSUME NEW q \in Requests, BeginOrder(q)
          PROVE  Kept
      <3>1. pc[q] = "ordering" /\ pc' = [pc EXCEPT ![q] = "in_transaction"]
        BY <2>3 DEF BeginOrder, Goto
      <3> QED BY <3>1, <1>a
    <2>4. ASSUME NEW q \in Requests, RelistAndOrder(q)
          PROVE  Kept
      BY <2>4, <1>2, <1>3
    <2>5. ASSUME Crash
          PROVE  Kept
      <3>1. pc'[r] = "done" \/ pc'[r] = pc[r]
        BY <2>5 DEF Crash
      <3> QED BY <3>1
    <2> HIDE DEF Kept
    <2>6. \/ pc' = pc
          \/ \E q \in Requests :
                \/ \E place \in {"reserving", "reserved", "committed", "done"} :
                      pc' = [pc EXCEPT ![q] = place]
                \/ BeginOrder(q)
                \/ RelistAndOrder(q)
          \/ Crash
      BY DEF Next, EditsProducts, ChangesCart, Checkout, vars, AddItem,
         AddProductToCart, UpdateItem, UpdateCartItemQuantity, CreateProduct,
         WriteProduct, UpdateProduct, Submit, AcornReserves, AcornTimesOut,
         Relist, BusyTimeout, Decrement, OutOfStock, Commit, CommitOrder,
         Redirect, Fail, PawPalApproves, Webhook, ApprovePawPalOrder, Refuse,
         Answer, Goto
    <2>7. Kept
      BY <2>1, <2>2, <2>3, <2>4, <2>5, <2>6
    <2> QED BY <2>7 DEF Kept
  <1> QED BY <1>1, <1>2, <1>3

\* A handler that goes on to its order goes on with at least one line.
LEMMA SnapshotStep ==
    IInv /\ SnapshotsAreOrders /\ [Next]_vars => SnapshotsAreOrders'
  <1> SUFFICES ASSUME IInv, SnapshotsAreOrders, [Next]_vars, NEW r \in Requests,
                      pc'[r] \in {"ordering", "in_transaction"}
               PROVE  Ordered(lines'[r]) # {}
    BY DEF SnapshotsAreOrders, Ordered
  <1>1. CASE RelistAndOrder(r)
    <2>1. lines'[r] = ListItems(buyer[r])
      BY <1>1 DEF RelistAndOrder, IInv, TypeOK
    <2> QED BY <1>1, <2>1 DEF RelistAndOrder, CanOrder, CartEmpty
  <1>2. CASE lines'[r] = lines[r] /\ pc[r] \in {"ordering", "in_transaction"}
    BY <1>2 DEF SnapshotsAreOrders
  <1> QED BY <1>1, <1>2, SnapshotSteps

\* No order transaction is begun for an empty cart.
LEMMA SnapshotInvariance == Spec => []SnapshotsAreOrders
  <1>1. Init => SnapshotsAreOrders
    BY DEF Init, SnapshotsAreOrders
  <1> QED BY <1>1, SnapshotStep, Invariance, PTL DEF Spec

\* The two modules total and write an order alike.
LEMMA LedgerOrder ==
    ASSUME NEW ls
    PROVE  NewOrder(ls) = Ledger!NewOrder(ls)
  <1>1. OrderTotal(ls) = Ledger!Total(ls)
    BY DEF OrderTotal, Ledger!Total, MapThenSumSet, MapThenFoldSet,
           Ledger!MapThenSumSet, Ledger!MapThenFoldSet
  <1> QED BY <1>1 DEF NewOrder, Ledger!NewOrder

\* A commit is a sale, a webhook post a payment, an admin's write a new stock, and
\* every other step leaves the committed rows alone.
LEMMA LedgerStep ==
    IInv /\ SnapshotsAreOrders /\ [Next]_vars => [Ledger!Next]_(Ledger!ledgerVars)
  <1> SUFFICES ASSUME IInv, SnapshotsAreOrders, [Next]_vars
               PROVE  Ledger!Next \/ UNCHANGED <<inventory, supplied, orders>>
    BY DEF Ledger!ledgerVars
  <1>1. ASSUME NEW r \in Requests, Commit(r)
        PROVE  Ledger!PlaceOrder(r, lines[r]) /\ lines[r] \in Ledger!Lines
    <2>1. /\ writer = r /\ todo = {}
          /\ inventory' = stock
          /\ orders' = [orders EXCEPT ![r] = NewOrder(lines[r])]
          /\ supplied' = supplied
      BY <1>1 DEF Commit, CommitOrder
    <2>2. /\ pc[r] = "in_transaction"
          /\ \A p \in Products : inventory[p] = stock[p] + lines[r][p].quantity
      BY <2>1, NobodyIsNoRequest DEF IInv, TransactionIsolated
    <2>3. /\ lines[r] \in Lines
          /\ \A p \in Products : lines[r][p].quantity \in Nat /\ stock[p] \in Nat
          /\ stock \in [Products -> Nat]
      BY DEF IInv, TypeOK, Lines, Line
    <2>4. orders[r] = Ledger!NoOrder
      <3>1. ~Placed(r) /\ orders[r] \in Orders
        BY <2>2 DEF IInv, OrdersHavePlaces, TypeOK
      <3> QED BY <3>1 DEF Placed, Orders, NoOrder, Ledger!NoOrder
    <2>5. \E p \in Products : lines[r][p].quantity > 0
      BY <2>2 DEF SnapshotsAreOrders, Ordered
    <2>6. \A p \in Products : lines[r][p].quantity <= inventory[p]
      BY <2>2, <2>3
    <2>7. inventory' = [p \in Products |-> inventory[p] - lines[r][p].quantity]
      BY <2>1, <2>2, <2>3
    <2>8. orders' = [orders EXCEPT ![r] = Ledger!NewOrder(lines[r])]
      BY <2>1, LedgerOrder
    <2>9. lines[r] \in Ledger!Lines
      BY <2>3 DEF Lines, Line, Ledger!Lines, Ledger!Line
    <2> QED BY <2>1, <2>4, <2>5, <2>6, <2>7, <2>8, <2>9 DEF Ledger!PlaceOrder
  <1>2. ASSUME NEW post \in Posts, Webhook(post)
        PROVE  Ledger!PayOrder(post.order) /\ post.order \in Requests
    BY <1>2 DEF Webhook, ApprovePawPalOrder, Posts, counts, Ledger!PayOrder
  <1>3. ASSUME NEW p \in Products, NEW input \in ProductInputs,
               CreateProduct(p, input) \/ UpdateProduct(p, input)
        PROVE  Ledger!SetStock(p)
    <2>1. /\ inventory' = [inventory EXCEPT ![p] = input.inventory]
          /\ supplied' = [supplied EXCEPT ![p] = input.inventory + sold[p]]
          /\ orders' = orders
      BY <1>3 DEF CreateProduct, WriteProduct, UpdateProduct
    <2>2. input.inventory \in Nat /\ inventory'[p] = input.inventory
      BY <2>1, InputsAreParsed DEF IInv, TypeOK
    <2>3. inventory[p] \in Nat /\ sold[p] \in Nat /\ supplied[p] = inventory[p] + sold[p]
      BY DEF IInv, TypeOK, StockConserved
    <2>4. input.inventory + sold[p] = (supplied[p] - inventory[p]) + inventory'[p]
      BY <2>2, <2>3
    <2> QED BY <2>1, <2>2, <2>4 DEF Ledger!SetStock
  <1>4. \/ UNCHANGED <<inventory, supplied, orders>>
        \/ \E r \in Requests : Commit(r)
        \/ \E post \in Posts : Webhook(post)
        \/ \E p \in Products, input \in ProductInputs :
              CreateProduct(p, input) \/ UpdateProduct(p, input)
    BY DEF Next, EditsProducts, ChangesCart, Checkout, vars, AddItem,
       AddProductToCart, UpdateItem, UpdateCartItemQuantity, Submit,
       AcornReserves, AcornTimesOut, Relist, RelistAndOrder, BeginOrder,
       BusyTimeout, Decrement, OutOfStock, Redirect, Fail, Crash,
       PawPalApproves, counts
  <1> QED BY <1>1, <1>2, <1>3, <1>4 DEF Ledger!Next

\* To whoever reads committed rows, a checkout of many statements is one atomic
\* sale, and nothing else but payments and admins' writes changes them.
THEOREM Refinement == Spec => ImplementsLedger
  <1>1. Init => Ledger!Init
    <2>1. ASSUME Init PROVE inventory \in [Products -> Nat]
      BY <2>1, InitType DEF TypeOK
    <2> QED BY <2>1 DEF Init, Ledger!Init, NoOrder, Ledger!NoOrder
  <1> QED
    BY <1>1, LedgerStep, Invariance, SnapshotInvariance, PTL
       DEF Spec, ImplementsLedger, Ledger!Spec

=============================================================================
