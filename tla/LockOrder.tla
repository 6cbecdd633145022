------------------------------ MODULE LockOrder -----------------------------
(***************************************************************************)
(* The row locks of the API's transactions.  A transaction asks for its    *)
(* locks one by one, in the order of its statements, waits for whoever     *)
(* holds a conflicting one, and keeps them until it ends.  The other       *)
(* modules take a transaction as one step; what can go wrong between its   *)
(* locks is that transactions wait for each other in a circle.             *)
(*                                                                         *)
(* A request carries its place in the transaction.  FOR UPDATE is mode     *)
(* "update"; an INSERT takes FOR KEY SHARE, mode "key", on the rows its    *)
(* foreign keys refer to.  Several rows of one statement are locked in the *)
(* order of the tables in its FROM clause.  Left out are rows that are     *)
(* locked only under a lock on their level or order (reservations,         *)
(* payments, fulfillments), rows that are new, and the organization:       *)
(* inserts share its row, and those who update it ask for none of these.   *)
(* PostgreSQL ends a circle by rolling one of its transactions back, which *)
(* EndTx includes.                                                         *)
(***************************************************************************)
EXTENDS Integers

CONSTANTS
    Levels, Products, Warehouses, Orders, Transfers,  \* rows
    Transactions,
    ProductOf, WarehouseOf,  \* of a level
    LevelsOf,                \* the levels an order has reservations on
    From, To, ItemsOf,       \* of a transfer: its warehouses and products
    Rank,                    \* the order of the rows' ids
    Turn,                    \* the order of the ids of the items of a request,
                             \* reservations or transfer items, by their level
    Width                    \* a bound of ranks and turns

Rows == Levels \cup Products \cup Warehouses \cup Orders \cup Transfers

ASSUME LockAssumption ==
    /\ Width \in Nat /\ Width > 2
    /\ Rank \in [Rows -> 0..(Width - 1)]
    /\ Turn \in [Levels -> 0..(Width - 1)]
    /\ ProductOf \in [Levels -> Products] /\ WarehouseOf \in [Levels -> Warehouses]
    /\ LevelsOf \in [Orders -> SUBSET Levels]
    /\ From \in [Transfers -> Warehouses] /\ To \in [Transfers -> Warehouses]
    /\ ItemsOf \in [Transfers -> SUBSET Products]
    /\ Levels \cap (Products \cup Warehouses \cup Orders \cup Transfers) = {}
    /\ Products \cap (Warehouses \cup Orders \cup Transfers) = {}
    /\ Warehouses \cap (Orders \cup Transfers) = {} /\ Orders \cap Transfers = {}
    /\ \A rows \in {Levels, Products, Warehouses, Orders, Transfers} :
          \A r, s \in rows : Rank[r] = Rank[s] => r = s

VARIABLES
    kind,  \* what a transaction does; "none": it has not begun
    todo,  \* the locks it has still to ask for
    held   \* the locks it holds

vars == <<kind, todo, held>>

OrderedKinds == {"create_order", "reserve", "adjust", "level", "aggregate",
                 "create_level", "catalogue"}
Kinds == OrderedKinds \cup
         {"auto_order", "complete", "create_transfer", "move", "cancel_transfer"}

LastPlace == 16 * Width
Requests  == [row: Rows, mode: {"update", "key"}, at: 0..LastPlace]

Lock(r, mode, at)   == [row |-> r, mode |-> mode, at |-> at]
Conflict(q, h)      == q.row = h.row /\ "update" \in {q.mode, h.mode}
FirstOf(requests)   == {q \in requests : \A p \in requests : q.at <= p.at}
(* u holds what t asks for next.                                           *)
WaitsOn(t, u, rows) ==
    \E q \in FirstOf(todo[t]), h \in held[u] : t # u /\ q.row \in rows /\ Conflict(q, h)

(* Rows of one kind in the order of their ids.                             *)
Sorted(stage, rows, mode) ==
    {Lock(r, mode, 2 * (stage * Width + Rank[r])) : r \in rows}

LevelsIn(warehouse, products) ==
    {l \in Levels : WarehouseOf[l] = warehouse /\ ProductOf[l] \in products}

Init ==
    /\ kind = [t \in Transactions |-> "none"]
    /\ todo = [t \in Transactions |-> {}]
    /\ held = [t \in Transactions |-> {}]

BeginTx(t, k, requests) ==
    /\ kind[t] = "none"
    /\ kind' = [kind EXCEPT ![t] = k]
    /\ todo' = [todo EXCEPT ![t] = requests]
    /\ UNCHANGED held

Acquire(t) ==
    \E q \in FirstOf(todo[t]) :
        /\ \A u \in Transactions \ {t} : \A h \in held[u] : ~Conflict(q, h)
        /\ todo' = [todo EXCEPT ![t] = @ \ {q}]
        /\ held' = [held EXCEPT ![t] = @ \cup {q}]
        /\ UNCHANGED kind

(* Commit, refusal at any point, lost client or resolved deadlock.         *)
EndTx(t) ==
    /\ kind[t] # "none"
    /\ kind' = [kind EXCEPT ![t] = "none"]
    /\ todo' = [todo EXCEPT ![t] = {}]
    /\ held' = [held EXCEPT ![t] = {}]

-----------------------------------------------------------------------------
(* Faulty: products are locked as the lines name them.                     *)
CreateOrderUnsorted(t, lines) ==
    /\ \A l, m \in lines : ProductOf[l] = ProductOf[m] => l = m
    /\ BeginTx(t, "create_order",
          Sorted(0, lines, "update") \cup
          {Lock(ProductOf[l], "update", 2 * (2 * Width + Rank[l])) : l \in lines})

(* A manual order: its levels, then their products.                        *)
CreateOrder(t, lines) ==
    /\ \A l, m \in lines : ProductOf[l] = ProductOf[m] => l = m
    /\ BeginTx(t, "create_order",
          Sorted(0, lines, "update") \cup
          Sorted(2, {ProductOf[l] : l \in lines}, "update"))

(* Faulty: the candidates are taken by product.                            *)
AutoCreateByProduct(t, products) ==
    LET candidates == {l \in Levels : ProductOf[l] \in products}
    IN  BeginTx(t, "auto_order",
           {Lock(l, "update", 2 * (Rank[ProductOf[l]] + Turn[l])) : l \in candidates}
           \cup Sorted(2, products, "update"))

(* An automatic order: each level of its products with its warehouse, then *)
(* the products.                                                           *)
AutoCreate(t, products) ==
    LET candidates == {l \in Levels : ProductOf[l] \in products}
    IN  BeginTx(t, "auto_order",
           Sorted(0, candidates, "update")
           \cup {Lock(WarehouseOf[l], "update", 2 * Rank[l] + 1) : l \in candidates}
           \cup Sorted(2, products, "update"))

Reserve(t, l) ==
    BeginTx(t, "reserve",
        Sorted(0, {l}, "update") \cup Sorted(2, {ProductOf[l]}, "update")
        \cup Sorted(3, {WarehouseOf[l]}, "update"))

(* The movement it records refers to the product and the warehouse.        *)
Adjust(t, l) ==
    BeginTx(t, "adjust",
        Sorted(0, {l}, "update") \cup Sorted(2, {ProductOf[l]}, "key")
        \cup Sorted(3, {WarehouseOf[l]}, "key"))

(* Release of a reservation, or a new replenishment policy.                *)
LockLevel(t, l) == BeginTx(t, "level", Sorted(0, {l}, "update"))

(* lockAggregate: everything payments and cancellation do to an order.     *)
LockAggregate(t, o) ==
    BeginTx(t, "aggregate", Sorted(0, LevelsOf[o], "update") \cup Sorted(1, {o}, "update"))

(* Inventory Create.                                                       *)
CreateLevel(t, l) ==
    BeginTx(t, "create_level",
        Sorted(2, {ProductOf[l]}, "update") \cup Sorted(3, {WarehouseOf[l]}, "update"))

(* Product or warehouse Update: one row.                                   *)
UpdateCatalogue(t, r) == BeginTx(t, "catalogue", Sorted(IF r \in Products THEN 2 ELSE 3, {r}, "update"))

(* A shipment of some of an order's levels from one warehouse: the         *)
(* fulfillment refers to the warehouse, then each movement to its product. *)
Complete(t, o, w, shipped) ==
    /\ shipped # {}
    /\ \A l \in shipped : WarehouseOf[l] = w
    /\ BeginTx(t, "complete",
          Sorted(0, shipped, "update") \cup Sorted(1, {o}, "update")
          \cup {Lock(w, "key", 4 * Width)}
          \cup {Lock(ProductOf[l], "key", 6 * Width + Turn[l]) : l \in shipped})

(* A shipment whose key turns out to be in use once the order is locked:   *)
(* FOR UPDATE on the earlier fulfillment joined with its warehouse.        *)
ReplayComplete(t, o, w, shipped) ==
    /\ shipped # {}
    /\ \A l \in shipped : WarehouseOf[l] = w
    /\ BeginTx(t, "complete",
          Sorted(0, shipped, "update") \cup Sorted(1, {o}, "update")
          \cup {Lock(w, "update", 4 * Width)})

(* The new transfer refers to its warehouses, which are then locked in the *)
(* order of their ids; then, by product, the product, its source level and *)
(* its destination level.                                                  *)
CreateTransfer(t, x) ==
    BeginTx(t, "create_transfer",
        {Lock(From[x], "key", 0), Lock(To[x], "key", 1)}
        \cup Sorted(1, {From[x], To[x]}, "update")
        \cup {Lock(p, "update", 4 * Width + 3 * Rank[p]) : p \in ItemsOf[x]}
        \cup {Lock(l, "update", 4 * Width + 3 * Rank[ProductOf[l]] + 1) : l \in LevelsIn(From[x], ItemsOf[x])}
        \cup {Lock(l, "update", 4 * Width + 3 * Rank[ProductOf[l]] + 2) : l \in LevelsIn(To[x], ItemsOf[x])})

(* FOR UPDATE on the transfer joined with its two warehouses.              *)
TransferRows(x) ==
    {Lock(x, "update", 2 * Width), Lock(From[x], "update", 2 * Width + 1),
     Lock(To[x], "update", 2 * Width + 2)}

(* Dispatch locks the levels of both sides, receipt those of one.  The     *)
(* movements refer to the products.                                        *)
Move(t, x, warehouses) ==
    LET levels == UNION {LevelsIn(w, ItemsOf[x]) : w \in warehouses}
    IN  BeginTx(t, "move",
           Sorted(0, levels, "update") \cup TransferRows(x)
           \cup {Lock(ProductOf[l], "key", 5 * Width + Turn[l]) : l \in LevelsIn(From[x], ItemsOf[x])})

CancelTransfer(t, x) == BeginTx(t, "cancel_transfer", TransferRows(x))

-----------------------------------------------------------------------------
StockTransactions(t) ==
    \/ \E lines \in SUBSET Levels : CreateOrder(t, lines)
    \/ \E products \in SUBSET Products : AutoCreate(t, products)
    \/ \E l \in Levels : Reserve(t, l) \/ Adjust(t, l) \/ LockLevel(t, l) \/ CreateLevel(t, l)
    \/ \E r \in Products \cup Warehouses : UpdateCatalogue(t, r)
    \/ \E o \in Orders :
          \/ LockAggregate(t, o)
          \/ \E w \in Warehouses, shipped \in SUBSET LevelsOf[o] :
                Complete(t, o, w, shipped) \/ ReplayComplete(t, o, w, shipped)

TransferTransactions(t) ==
    \E x \in Transfers :
        \/ CreateTransfer(t, x)
        \/ \E warehouses \in {{From[x], To[x]}, {To[x]}} : Move(t, x, warehouses)
        \/ CancelTransfer(t, x)

Next ==
    \E t \in Transactions :
        StockTransactions(t) \/ TransferTransactions(t) \/ Acquire(t) \/ EndTx(t)

Spec == Init /\ [][Next]_vars
-----------------------------------------------------------------------------
(* Locks are asked for in the transaction's order and exclude each other.  *)
LockTypeOK ==
    /\ kind \in [Transactions -> Kinds \cup {"none"}]
    /\ todo \in [Transactions -> SUBSET Requests]
    /\ held \in [Transactions -> SUBSET Requests]
    /\ \A t \in Transactions : \A h \in held[t], q \in todo[t] : h.at <= q.at
    /\ \A t, u \in Transactions : t # u =>
          \A h \in held[t], g \in held[u] : ~Conflict(h, g)

(* There is always one that waits for no other.                            *)
NoCircle(transactions, rows) ==
    \A S \in SUBSET transactions :
        S # {} => \E t \in S : \A u \in S : ~WaitsOn(t, u, rows)

(* "Sorting locks prevents opposite multi-inventory requests from          *)
(* deadlocking" (docs/orders.md): manual orders, reservations, adjustments,*)
(* payments and cancellations, whatever rows they share, never wait for    *)
(* each other in a circle.                                                 *)
OrderedNeverDeadlock == NoCircle({t \in Transactions : kind[t] \in OrderedKinds}, Rows)

(* On inventory rows alone no circle closes without a transfer's creation: *)
(* all others, shipments and automatic orders too, lock them sorted.       *)
LevelsNeverDeadlock ==
    NoCircle({t \in Transactions : kind[t] # "create_transfer"}, Levels)

(* "Inventory rows are locked in global UUID order, matching allocation,   *)
(* fulfillment, reservation, adjustment, and opposite-direction transfer   *)
(* operations" (docs/transfers.md).                                        *)
LevelsSorted ==
    \A t \in Transactions : \A h \in held[t], q \in todo[t] :
        h.row \in Levels /\ q.row \in Levels => Rank[h.row] < Rank[q.row]
=============================================================================
