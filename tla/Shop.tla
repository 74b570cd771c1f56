-------------------------------- MODULE Shop --------------------------------
(***************************************************************************)
(* The shop of src/: product rows, carts, the checkout handler, the order  *)
(* transaction, the admin's product form and PawPal's webhook.             *)
(*                                                                         *)
(* A handler runs in a goroutine of its own and is split where it talks to *)
(* the database or to Acorn, so that handlers interleave between any two   *)
(* statements.  Statements outside a transaction are atomic.  The order    *)
(* transaction is modelled statement by statement: from its first write to *)
(* its end it owns SQLite's only write lock ("writer"), its inventory      *)
(* updates live in a private copy ("stock"), and readers go on seeing the  *)
(* rows committed before it.                                               *)
(*                                                                         *)
(* Each checkout request creates at most one order, so the order created   *)
(* by request r is called r.                                               *)
(***************************************************************************)
EXTENDS Naturals, FiniteSets, FiniteSetsExt, Functions

CONSTANTS
    Users,            \* customers
    Products,         \* product identities: rows that exist or may be created
    SeedProducts,     \* products whose rows exist when the server starts
    Requests,         \* POST /checkout requests: order ids are 64-bit integers
    Prices,           \* values of products.price_cents
    InitialStocks,    \* values of products.inventory_count at the start
    ProductInputs,    \* what an admin may type into the product form
    MaximumQuantity,  \* cart.MaximumQuantity and the CHECK of cart_items (99)
    MaxRows           \* bound: cart_items rows inserted in a behaviour

Nobody == "nobody"

ASSUME SeedsAreProducts == SeedProducts \subseteq Products
ASSUME MaximumIsPositive == MaximumQuantity \in Nat \ {0}
ASSUME RowBound == MaxRows \in Nat
ASSUME StocksAreNatural == InitialStocks \subseteq Nat
ASSUME PricesAreNatural == Prices \subseteq Nat /\ Prices # {}
ASSUME InputsAreParsed ==
    ProductInputs \subseteq [price : Prices, inventory : Nat, active : BOOLEAN]
ASSUME RequestsAreFinite == IsFiniteSet(Requests)
ASSUME NobodyIsNoRequest == Nobody \notin Requests

VARIABLES
    \* products
    listed,     \* products that have a row
    price,      \* [Products -> Prices]: price_cents
    inventory,  \* [Products -> Nat]: inventory_count, as committed
    active,     \* [Products -> BOOLEAN]: is_active
    \* cart_items
    cart,       \* [Users -> [Products -> Nat]]: quantity, 0 when there is no row
    rowOf,      \* [Users -> [Products -> Nat]]: which insertion made the row
    nextRow,    \* cart_items rows inserted so far
    \* checkout requests
    pc,         \* [Requests -> where the handler is]
    buyer,      \* [Requests -> Users]: the user of the request's session
    lines,      \* [Requests -> Lines]: the cart as last listed, 0 for no line
    rows,       \* [Requests -> SUBSET Nat]: the cart rows those lines came from
    earlier,    \* [Requests -> SUBSET Requests]: the user's orders at that time
    reply,      \* [Requests -> the answer sent to the browser]
    \* the order transaction
    writer,     \* the request whose transaction holds the write lock, or Nobody
    stock,      \* [Products -> Nat]: inventory_count as the transaction sees it
    todo,       \* products of its snapshot it has not decremented yet
    \* orders and payments
    orders,     \* [Requests -> order]
    approvals,  \* orders PawPal has approved: it may post each any number of times
    receipts,   \* [Requests -> Nat]: webhook posts answered 204
    \* bookkeeping
    sold,       \* [Products -> Nat]: units in committed orders
    supplied    \* [Products -> Nat]: units sold or in stock, as admins count them

catalog == <<listed, price, active>>
cartRows == <<cart, rowOf, nextRow>>
snapshot == <<buyer, lines, rows, earlier>>
transaction == <<writer, stock, todo>>
payments == <<approvals, receipts>>
counts == <<sold, supplied>>
vars == <<catalog, inventory, cartRows, pc, snapshot, reply, transaction,
          orders, payments, counts>>

-----------------------------------------------------------------------------
(* Data *)

Line == [quantity : 0..MaximumQuantity, price : Prices]
Lines == [Products -> Line]

Ordered(ls) == {p \in Products : ls[p].quantity > 0}

NoOrder == [status |-> "none"]

\* CreateFromCart adds up the LineTotalCents of the snapshot.
OrderTotal(ls) ==
    MapThenSumSet(LAMBDA p : ls[p].quantity * ls[p].price, Products)

NewOrder(ls) == [status |-> "pending", lines |-> ls, total |-> OrderTotal(ls)]

Orders ==
    {NoOrder} \cup [status : {"pending", "paid"}, lines : Lines,
                    total : {OrderTotal(ls) : ls \in Lines}]

\* Where a checkout handler can be, and the answers that say there is no order.
Places == {"idle", "reserving", "reserved", "ordering", "in_transaction",
           "committed", "done"}
Refusals == {"cart", "conflict", "invalid", "unavailable", "error"}

Placed(r) == orders[r].status # "none"

\* ListItems: the user's rows joined with the products they name.
ListItems(u) ==
    [p \in Products |-> [quantity |-> cart[u][p], price |-> price[p]]]

CartRowsOf(u) == {rowOf[u][p] : p \in Ordered(ListItems(u))}

\* ItemAvailability = Available, for every row of the user's cart.
CartAvailable(u) ==
    \A p \in Ordered(ListItems(u)) :
        /\ active[p]
        /\ inventory[p] # 0
        /\ cart[u][p] <= inventory[p]

CartEmpty(u) == Ordered(ListItems(u)) = {}

\* A statement outside the order transaction writes only while no transaction
\* holds the lock; it waits, at most busy_timeout, or fails having done nothing.
CanWrite == writer = Nobody

-----------------------------------------------------------------------------
(* Cart *)

\* Fault: the upsert without its WHERE.
AddItemUncapped(u, p, q) ==
    /\ CanWrite
    /\ active[p] /\ inventory[p] >= q
    /\ rowOf' = [rowOf EXCEPT ![u][p] = nextRow]
    /\ nextRow < MaxRows /\ nextRow' = nextRow + 1
    /\ cart' = [cart EXCEPT ![u][p] = @ + q]
    /\ UNCHANGED <<catalog, inventory, pc, snapshot, reply, transaction,
                   orders, payments, counts>>

\* The upsert: a new row for a product in stock, or more of a row up to the cap
\* and the stock.
AddProductToCart(u, p, q) ==
    /\ active[p] /\ inventory[p] >= q
    /\ \/ /\ cart[u][p] = 0
          /\ nextRow < MaxRows
          /\ rowOf' = [rowOf EXCEPT ![u][p] = nextRow]
          /\ nextRow' = nextRow + 1
       \/ /\ cart[u][p] > 0
          /\ cart[u][p] + q <= MaximumQuantity
          /\ cart[u][p] + q <= inventory[p]
          /\ UNCHANGED <<rowOf, nextRow>>
    /\ cart' = [cart EXCEPT ![u][p] = @ + q]

AddItem(u, p, q) ==
    /\ CanWrite
    /\ AddProductToCart(u, p, q)
    /\ UNCHANGED <<catalog, inventory, pc, snapshot, reply, transaction,
                   orders, payments, counts>>

\* RemoveCartItem for a quantity of 0, else the guarded UPDATE of the row.
UpdateCartItemQuantity(u, p, q) ==
    /\ cart[u][p] > 0
    /\ q > 0 => active[p] /\ q <= inventory[p]
    /\ cart' = [cart EXCEPT ![u][p] = q]

UpdateItem(u, p, q) ==
    /\ CanWrite
    /\ UpdateCartItemQuantity(u, p, q)
    /\ UNCHANGED <<catalog, inventory, rowOf, nextRow, pc, snapshot, reply,
                   transaction, orders, payments, counts>>

\* The cart's two forms; a request that names no product, or no quantity in
\* range, is turned away.
ChangesCart(u) ==
    \E p \in Products :
        \/ \E q \in 1..MaximumQuantity : AddItem(u, p, q)
        \/ \E q \in 0..MaximumQuantity : UpdateItem(u, p, q)

-----------------------------------------------------------------------------
(* Admin *)

\* productParams: the form carries the whole row, so that price, stock and
\* is_active are written as typed, whatever was sold since it was rendered.
WriteProduct(p, input) ==
    /\ price' = [price EXCEPT ![p] = input.price]
    /\ inventory' = [inventory EXCEPT ![p] = input.inventory]
    /\ active' = [active EXCEPT ![p] = input.active]
    /\ supplied' = [supplied EXCEPT ![p] = input.inventory + sold[p]]

CreateProduct(p, input) ==
    /\ CanWrite
    /\ p \notin listed
    /\ listed' = listed \cup {p}
    /\ WriteProduct(p, input)
    /\ UNCHANGED <<cartRows, pc, snapshot, reply, transaction, orders, payments,
                   sold>>

\* Fault: the row is written into a database another transaction is writing.
UpdateProductUnlocked(p, input) ==
    /\ p \in listed
    /\ WriteProduct(p, input)
    /\ UNCHANGED <<listed, cartRows, pc, snapshot, reply, transaction, orders,
                   payments, sold>>

\* Only a product that is listed is found.
UpdateProduct(p, input) ==
    /\ CanWrite
    /\ p \in listed
    /\ WriteProduct(p, input)
    /\ UNCHANGED <<listed, cartRows, pc, snapshot, reply, transaction, orders,
                   payments, sold>>

EditsProducts(input) ==
    \E p \in Products : CreateProduct(p, input) \/ UpdateProduct(p, input)

-----------------------------------------------------------------------------
(* Checkout: POST /checkout *)

Answer(r, answer) ==
    /\ pc' = [pc EXCEPT ![r] = "done"]
    /\ reply' = [reply EXCEPT ![r] = answer]

Goto(r, place) ==
    /\ pc' = [pc EXCEPT ![r] = place]
    /\ UNCHANGED reply

\* What a list of cart items is checked for.
CanOrder(u) == ~CartEmpty(u) /\ CartAvailable(u)

\* An empty cart is sent back to /cart, an unavailable line is a 409.
Refuse(r, u) ==
    \/ CartEmpty(u) /\ Answer(r, "cart")
    \/ ~CartEmpty(u) /\ ~CartAvailable(u) /\ Answer(r, "conflict")

\* The first list only decides whether to call Acorn; a shipping field that is
\* missing or empty is a 400.
Submit(r) ==
    /\ pc[r] = "idle"
    /\ \/ Refuse(r, buyer[r])
       \/ CanOrder(buyer[r]) /\ Answer(r, "invalid")
       \/ CanOrder(buyer[r]) /\ Goto(r, "reserving")
    /\ UNCHANGED <<catalog, inventory, cartRows, snapshot, transaction, orders,
                   payments, counts>>

AcornReserves(r) ==
    /\ pc[r] = "reserving"
    /\ Goto(r, "reserved")
    /\ UNCHANGED <<catalog, inventory, cartRows, snapshot, transaction, orders,
                   payments, counts>>

\* Fault: the call to Acorn has no deadline.
AcornNeverTimesOut(r) == pc[r] = "waiting" /\ UNCHANGED vars

\* context.DeadlineExceeded: 503 with Retry-After.
AcornTimesOut(r) ==
    /\ pc[r] = "reserving"
    /\ Answer(r, "unavailable")
    /\ UNCHANGED <<catalog, inventory, cartRows, snapshot, transaction, orders,
                   payments, counts>>

\* The second list is what the order is made of.
Relist(r) ==
    /\ pc[r] = "reserved"
    /\ Refuse(r, buyer[r])
    /\ UNCHANGED <<catalog, inventory, cartRows, snapshot, transaction, orders,
                   payments, counts>>

RelistAndOrder(r) ==
    LET u == buyer[r] IN
    /\ pc[r] = "reserved"
    /\ CanOrder(u)
    /\ Goto(r, "ordering")
    /\ lines' = [lines EXCEPT ![r] = ListItems(u)]
    /\ rows' = [rows EXCEPT ![r] = CartRowsOf(u)]
    /\ earlier' = [earlier EXCEPT ![r] =
                     {o \in Requests : Placed(o) /\ buyer[o] = u}]
    /\ UNCHANGED <<catalog, inventory, cartRows, buyer, transaction, orders,
                   payments, counts>>

-----------------------------------------------------------------------------
(* CreateFromCart *)

NoStock == [p \in Products |-> 0]

ReleaseLock ==
    /\ writer' = Nobody
    /\ stock' = NoStock
    /\ todo' = {}

\* Fault: the cart is cleared before the transaction has succeeded.
BeginOrderClearingCart(r) ==
    /\ pc[r] = "ordering"
    /\ CanWrite
    /\ writer' = r
    /\ stock' = inventory
    /\ todo' = Ordered(lines[r])
    /\ Goto(r, "in_transaction")
    /\ cart' = [cart EXCEPT ![buyer[r]] = [p \in Products |-> 0]]
    /\ UNCHANGED <<catalog, inventory, rowOf, nextRow, snapshot, orders, payments,
                   counts>>

\* BeginTx and CreateOrder: the INSERT takes the write lock.
BeginOrder(r) ==
    /\ pc[r] = "ordering"
    /\ CanWrite
    /\ writer' = r
    /\ stock' = inventory
    /\ todo' = Ordered(lines[r])
    /\ Goto(r, "in_transaction")
    /\ UNCHANGED <<catalog, inventory, cartRows, snapshot, orders, payments,
                   counts>>

\* The INSERT waited busy_timeout for another transaction: 500.
BusyTimeout(r) ==
    /\ pc[r] = "ordering"
    /\ ~CanWrite
    /\ Answer(r, "error")
    /\ UNCHANGED <<catalog, inventory, cartRows, snapshot, transaction, orders,
                   payments, counts>>

\* Fault: the UPDATE without its inventory_count >= quantity.
DecrementUnchecked(r, p) ==
    /\ writer = r
    /\ p \in todo
    /\ stock' = [stock EXCEPT ![p] = @ - lines[r][p].quantity]
    /\ todo' = todo \ {p}
    /\ UNCHANGED <<catalog, inventory, cartRows, pc, snapshot, reply, writer,
                   orders, payments, counts>>

\* DecrementProductInventory affected one row; CreateOrderItem.
Decrement(r, p) ==
    /\ writer = r
    /\ p \in todo
    /\ active[p]
    /\ stock[p] >= lines[r][p].quantity
    /\ stock' = [stock EXCEPT ![p] = @ - lines[r][p].quantity]
    /\ todo' = todo \ {p}
    /\ UNCHANGED <<catalog, inventory, cartRows, pc, snapshot, reply, writer,
                   orders, payments, counts>>

\* Fault: the lines decremented so far are not rolled back.
OutOfStockKept(r, p) ==
    /\ writer = r
    /\ p \in todo
    /\ ~(active[p] /\ stock[p] >= lines[r][p].quantity)
    /\ inventory' = stock
    /\ ReleaseLock
    /\ Answer(r, "conflict")
    /\ UNCHANGED <<catalog, cartRows, snapshot, orders, payments, counts>>

\* It affected none: ErrInsufficientInventory, the deferred Rollback, 409.
OutOfStock(r, p) ==
    /\ writer = r
    /\ p \in todo
    /\ ~(active[p] /\ stock[p] >= lines[r][p].quantity)
    /\ ReleaseLock
    /\ Answer(r, "conflict")
    /\ UNCHANGED <<catalog, inventory, cartRows, snapshot, orders, payments,
                   counts>>

\* The rows of the order become visible with the cart's deletion.
CommitOrder(r, ls, remaining) ==
    /\ writer = r
    /\ todo = {}
    /\ inventory' = stock
    /\ orders' = [orders EXCEPT ![r] = NewOrder(ls)]
    /\ cart' = [cart EXCEPT ![buyer[r]] = remaining]
    /\ sold' = [p \in Products |-> sold[p] + lines[r][p].quantity]
    /\ ReleaseLock
    /\ Goto(r, "committed")
    /\ UNCHANGED <<catalog, rowOf, nextRow, snapshot, payments, supplied>>

\* Faults: the cart survives its order; the order items come from a third list.
CommitKeepingCart(r) == CommitOrder(r, lines[r], cart[buyer[r]])
CommitRelisted(r) == CommitOrder(r, ListItems(buyer[r]), [p \in Products |-> 0])

\* DeleteOrderCartItems removes every row of the user's cart, listed or not.
Commit(r) == CommitOrder(r, lines[r], [p \in Products |-> 0])

\* The redirect to PawPal.
Redirect(r) ==
    /\ pc[r] = "committed"
    /\ Answer(r, "pawpal")
    /\ UNCHANGED <<catalog, inventory, cartRows, snapshot, transaction, orders,
                   payments, counts>>

InFlight(r) == pc[r] \notin {"idle", "done"}

\* Faults: no deferred Rollback; an error after the commit.
FailWithoutRollback(r) ==
    /\ InFlight(r)
    /\ pc[r] # "committed"
    /\ Answer(r, "error")
    /\ UNCHANGED <<catalog, inventory, cartRows, snapshot, transaction, orders,
                   payments, counts>>

FailAfterCommit(r) ==
    /\ InFlight(r)
    /\ Answer(r, "error")
    /\ IF writer = r THEN ReleaseLock ELSE UNCHANGED transaction
    /\ UNCHANGED <<catalog, inventory, cartRows, snapshot, orders, payments,
                   counts>>

\* A statement fails or the request's context is cancelled: 500, and the
\* deferred Rollback ends the request's transaction if it has one.
Fail(r) ==
    /\ InFlight(r)
    /\ pc[r] # "committed"
    /\ Answer(r, "error")
    /\ IF writer = r THEN ReleaseLock ELSE UNCHANGED transaction
    /\ UNCHANGED <<catalog, inventory, cartRows, snapshot, orders, payments,
                   counts>>

\* The server stops: SQLite's journal undoes the open transaction, and the
\* browsers of the requests in flight never learn what became of them.
Crash ==
    /\ \E r \in Requests : InFlight(r)
    /\ pc' = [r \in Requests |-> IF InFlight(r) THEN "done" ELSE pc[r]]
    /\ reply' = [r \in Requests |-> IF InFlight(r) THEN "lost" ELSE reply[r]]
    /\ ReleaseLock
    /\ UNCHANGED <<catalog, inventory, cartRows, snapshot, orders, payments,
                   counts>>

-----------------------------------------------------------------------------
(* PawPal *)

\* The customer of a redirected checkout pays.
PawPalApproves(o) ==
    /\ reply[o] = "pawpal"
    /\ o \notin approvals
    /\ approvals' = approvals \cup {o}
    /\ UNCHANGED <<catalog, inventory, cartRows, pc, snapshot, reply, transaction,
                   orders, receipts, counts>>

Posts == [order : Requests, approved : BOOLEAN, key : BOOLEAN]

\* PawPal alone has the key; it posts each approval any number of times, early
\* or late, and anybody may post anything without the key.
MayBePosted(post) == post.key /\ post.approved => post.order \in approvals

VerifyWebhook(post) == post.approved /\ post.key

\* Fault: the UPDATE without its status = 'pending'.
WebhookAgain(post) ==
    /\ CanWrite
    /\ MayBePosted(post)
    /\ VerifyWebhook(post)
    /\ Placed(post.order)
    /\ orders' = [orders EXCEPT ![post.order].status = "paid"]
    /\ receipts' = [receipts EXCEPT ![post.order] = @ + 1]
    /\ UNCHANGED <<catalog, inventory, cartRows, pc, snapshot, reply, transaction,
                   approvals, counts>>

ApprovePawPalOrder(o) ==
    /\ orders[o].status = "pending"
    /\ orders' = [orders EXCEPT ![o].status = "paid"]

\* 204 when the post turned a pending order into a paid one, otherwise 404 and
\* nothing changes.
Webhook(post) ==
    /\ CanWrite
    /\ MayBePosted(post)
    /\ VerifyWebhook(post)
    /\ ApprovePawPalOrder(post.order)
    /\ receipts' = [receipts EXCEPT ![post.order] = @ + 1]
    /\ UNCHANGED <<catalog, inventory, cartRows, pc, snapshot, reply, transaction,
                   approvals, counts>>

-----------------------------------------------------------------------------

NoLines == [p \in Products |-> [quantity |-> 0, price |-> CHOOSE c \in Prices : TRUE]]

Init ==
    /\ listed = SeedProducts
    /\ price \in [Products -> Prices]
    /\ inventory \in [Products -> InitialStocks \cup {0}]
    /\ \A p \in Products :
          inventory[p] \in (IF p \in SeedProducts THEN InitialStocks ELSE {0})
    /\ active = [p \in Products |-> p \in SeedProducts /\ inventory[p] > 0]
    /\ cart = [u \in Users |-> [p \in Products |-> 0]]
    /\ rowOf = [u \in Users |-> [p \in Products |-> 0]]
    /\ nextRow = 0
    /\ pc = [r \in Requests |-> "idle"]
    /\ buyer \in [Requests -> Users]
    /\ lines = [r \in Requests |-> NoLines]
    /\ rows = [r \in Requests |-> {}]
    /\ earlier = [r \in Requests |-> {}]
    /\ reply = [r \in Requests |-> "none"]
    /\ writer = Nobody
    /\ stock = NoStock
    /\ todo = {}
    /\ orders = [r \in Requests |-> NoOrder]
    /\ approvals = {}
    /\ receipts = [r \in Requests |-> 0]
    /\ sold = [p \in Products |-> 0]
    /\ supplied = inventory

\* What a checkout handler does by itself: Acorn may never reserve.
Checkout(r) ==
    \/ AcornTimesOut(r)
    \/ Relist(r)
    \/ RelistAndOrder(r)
    \/ BeginOrder(r)
    \/ BusyTimeout(r)
    \/ \E p \in Products : Decrement(r, p) \/ OutOfStock(r, p)
    \/ Commit(r)
    \/ Redirect(r)

Next ==
    \/ \E u \in Users : ChangesCart(u)
    \/ \E input \in ProductInputs : EditsProducts(input)
    \/ \E r \in Requests : Submit(r)
    \/ \E r \in Requests : AcornReserves(r) \/ Checkout(r)
    \/ \E r \in Requests : Fail(r)
    \/ Crash
    \/ \E o \in Requests : PawPalApproves(o)
    \/ \E post \in Posts : Webhook(post)

Spec == Init /\ [][Next]_vars

\* A goroutine that can run does run: the call to Acorn ends at its deadline if
\* not before, a statement with its result or at its busy_timeout.
LiveSpec == Spec /\ \A r \in Requests : WF_vars(Checkout(r))

-----------------------------------------------------------------------------
(* Properties *)

TypeOK ==
    /\ listed \subseteq Products
    /\ price \in [Products -> Prices]
    /\ inventory \in [Products -> Nat]
    /\ active \in [Products -> BOOLEAN]
    /\ cart \in [Users -> [Products -> 0..MaximumQuantity]]
    /\ rowOf \in [Users -> [Products -> Nat]]
    /\ nextRow \in 0..MaxRows
    /\ pc \in [Requests -> Places]
    /\ buyer \in [Requests -> Users]
    /\ lines \in [Requests -> Lines]
    /\ rows \in [Requests -> SUBSET Nat]
    /\ earlier \in [Requests -> SUBSET Requests]
    /\ reply \in [Requests -> Refusals \cup {"none", "lost", "pawpal"}]
    /\ writer \in Requests \cup {Nobody}
    /\ stock \in [Products -> Nat]
    /\ todo \subseteq Products
    /\ orders \in [Requests -> Orders]
    /\ approvals \subseteq Requests
    /\ receipts \in [Requests -> Nat]
    /\ sold \in [Products -> Nat]
    /\ supplied \in [Products -> Nat]

\* No unit is sold twice and none disappears: what is in stock and what is in
\* orders add up to what admins supplied, whatever checkouts ran, failed or
\* were cut short at the same time.
StockConserved == \A p \in Products : inventory[p] + sold[p] = supplied[p]

\* The units of a product that each order in the database holds.
UnitsOrdered(p) ==
    [r \in Requests |-> IF Placed(r) THEN orders[r].lines[p].quantity ELSE 0]

\* The units counted as sold are the units of the orders in the database: an
\* order never holds more or fewer than it took out of the stock.
SoldUnitsAreOrdered ==
    \A p \in Products : sold[p] = SumFunction(UnitsOrdered(p))

\* Inside the order transaction, the private stock is the committed one minus
\* exactly the lines already processed, and nobody else has written meanwhile.
TransactionIsolated ==
    writer # Nobody =>
        /\ pc[writer] = "in_transaction"
        /\ \A p \in Products :
              inventory[p] = stock[p] + (IF p \in todo THEN 0
                                         ELSE lines[writer][p].quantity)

\* A refusal is a refusal: a checkout that was answered with anything but the
\* redirect to PawPal has left no order, and the redirect is never sent for an
\* order that does not exist.
AnswersAreTruthful ==
    \A r \in Requests :
        /\ reply[r] \in Refusals => ~Placed(r)
        /\ reply[r] = "pawpal" => Placed(r)

\* Only overlapping checkouts can order the same cart twice: a checkout that
\* listed the cart after one of the user's orders was committed shares no cart
\* row with that order.
NoResale ==
    \A r, o \in Requests :
        Placed(r) /\ o \in earlier[r] => rows[r] \cap rows[o] = {}

\* An order is paid at most once, and only after PawPal approved it, however
\* often and in whatever order the webhook's posts arrive.
PaidOncePerApproval ==
    \A o \in Requests :
        /\ receipts[o] = IF orders[o].status = "paid" THEN 1 ELSE 0
        /\ orders[o].status = "paid" => o \in approvals

\* A step of a checkout leaves every cart alone, unless it commits an order of
\* the cart's user: a checkout that fails at any point keeps the cart.
FailedCheckoutKeepsCart ==
    [][pc' # pc =>
         \A u \in Users :
            \/ cart'[u] = cart[u]
            \/ \E r \in Requests : buyer[r] = u /\ ~Placed(r) /\ Placed(r)']_vars

Ledger == INSTANCE OrderLedger WITH
    stock <- inventory, Orders <- Requests, LineMax <- MaximumQuantity

\* To an observer of the committed rows the whole checkout is one atomic sale.
ImplementsLedger == Ledger!Spec

\* A request in flight is answered, or its browser is cut off by a crash.
CheckoutTerminates == \A r \in Requests : pc[r] # "idle" ~> pc[r] = "done"

=============================================================================
