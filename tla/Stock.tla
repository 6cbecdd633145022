------------------------------- MODULE Stock -------------------------------
(***************************************************************************)
(* Physical stock, and every way in which the API may promise it.          *)
(*                                                                         *)
(* An inventory level has an on-hand quantity.  A reservation promises     *)
(* some of it, to an order or to a direct reservation request (a walk-in). *)
(* The pair <<holder, level>> identifies a reservation: manual orders      *)
(* refuse two lines of one product, and what several rounds of an          *)
(* automatic allocation take of one level is added up to one reservation.  *)
(*                                                                         *)
(* Every operation below is one PostgreSQL transaction that takes the row  *)
(* locks of its levels (SELECT ... FOR UPDATE) before it reads or writes   *)
(* their reservations and keeps them until commit; on these rows it is one *)
(* step.  What survives of concurrency is its clock: NOW() is the instant  *)
(* at which the transaction began, before it queued for the locks, while   *)
(* statement_timestamp() is read with the locks held.  The parameter       *)
(* "started" is NOW(), the variable "now" is statement_timestamp().        *)
(*                                                                         *)
(* Payments are abstracted here to what their transactions do to orders    *)
(* and reservations; module Checkout adds the payments and implements this *)
(* module.  Refused requests roll back and are not steps.                  *)
(***************************************************************************)
EXTENDS Integers, FiniteSets

CONSTANTS
    Levels,        \* inventory levels: one product in one warehouse
    Orders,        \* orders, each named by its idempotency key
    Walkins,       \* direct reservation requests
    ProductOf,     \* the product of a level
    WarehouseOf,   \* the warehouse of a level
    InitialStock,  \* on-hand quantity at which a level is created
    MaxQty,        \* largest quantity of one reservation or adjustment
    MaxStock,      \* bound on an on-hand quantity
    TTL,           \* lifetime of an active reservation
    MaxWait,       \* bound on the time a transaction queues for its locks
    MaxTime        \* bound on the clock

Holders == Orders \cup Walkins
Holds   == Holders \X Levels

ASSUME StockAssumption ==
    /\ IsFiniteSet(Levels) /\ IsFiniteSet(Orders) /\ IsFiniteSet(Walkins)
    /\ Orders \cap Walkins = {}
    /\ MaxQty \in Nat \ {0} /\ MaxStock \in Nat /\ TTL \in Nat \ {0}
    /\ MaxWait \in Nat /\ MaxTime \in Nat
    /\ InitialStock \in [Levels -> 0..MaxStock]
    /\ \A l, m \in Levels :
          ProductOf[l] = ProductOf[m] /\ WarehouseOf[l] = WarehouseOf[m] => l = m

Statuses == {"none", "active", "released", "expired",
             "payment_held", "committed", "consumed"}
OrderStatuses == {"none", "pending", "cancelled", "paid",
                  "partially_fulfilled", "fulfilled"}

VARIABLES
    now,      \* the database clock
    onHand,   \* inventory_levels.on_hand_quantity
    status,   \* inventory_reservations.status; "none": not inserted yet
    qty,      \* inventory_reservations.quantity
    expiry,   \* inventory_reservations.expires_at
    order     \* orders.status; "none": not inserted yet

holdVars  == <<status, qty, expiry>>
stockVars == <<now, onHand, status, qty, expiry, order>>

StockTypeOK ==
    /\ now \in 0..MaxTime
    /\ onHand \in [Levels -> 0..MaxStock]
    /\ status \in [Holds -> Statuses]
    /\ qty \in [Holds -> 0..MaxQty]
    /\ expiry \in [Holds -> Nat]
    /\ order \in [Orders -> OrderStatuses]

-----------------------------------------------------------------------------
(* Faulty: the predicate was not extended when payments began to hold.     *)
EffectiveForgetsHeld(k) ==
    \/ status[k] = "active" /\ expiry[k] > now
    \/ status[k] = "committed"

(* A reservation counts against its level while it is active and has not   *)
(* lapsed, and for as long as a payment holds it or has bought it.         *)
Effective(k) ==
    \/ status[k] = "active" /\ expiry[k] > now
    \/ status[k] \in {"payment_held", "committed"}

(* Quantities are counted unit by unit: unit <<k, n>> is the n-th unit of  *)
(* reservation k, and a sum of quantities is a number of units.            *)
Units == Holds \X (1..MaxQty)
ReservedUnits(l) ==
    {u \in Units : u[1][2] = l /\ u[2] <= qty[u[1]] /\ Effective(u[1])}

Reserved(l)  == Cardinality(ReservedUnits(l))
Available(l) == onHand[l] - Reserved(l)

HoldsOf(o)       == {k \in Holds : k[1] = o /\ status[k] # "none"}
AllHolds(o, s)   == HoldsOf(o) # {} /\ \A k \in HoldsOf(o) : status[k] = s
StartTimes       == {t \in 0..now : now - t <= MaxWait}

(* Lazy expiry, which opens most transactions: the status table with the   *)
(* reservations on the levels ls that had lapsed by NOW() expired.         *)
ExpiredOn(ls, started) ==
    [k \in Holds |->
        IF k[2] \in ls /\ status[k] = "active" /\ expiry[k] <= started
        THEN "expired" ELSE status[k]]

(* The status with which an active reservation is given up.                *)
GivenUp(k, at) == IF expiry[k] <= at THEN "expired" ELSE "released"

StockInit ==
    /\ now = 0
    /\ onHand = InitialStock
    /\ status = [k \in Holds |-> "none"]
    /\ qty = [k \in Holds |-> 0]
    /\ expiry = [k \in Holds |-> 0]
    /\ order = [o \in Orders |-> "none"]

-----------------------------------------------------------------------------
(* Inventory: direct reservations and stock adjustments.                   *)

Reserve(w, l, n, started) ==
    /\ status[<<w, l>>] = "none"
    /\ n <= Available(l)
    /\ status' = [ExpiredOn({l}, started) EXCEPT ![<<w, l>>] = "active"]
    /\ qty' = [qty EXCEPT ![<<w, l>>] = n]
    /\ expiry' = [expiry EXCEPT ![<<w, l>>] = started + TTL]
    /\ UNCHANGED <<now, onHand, order>>

(* Faulty: a reservation that a payment manages is released like any other. *)
ReleaseManaged(k, started) ==
    /\ status[k] # "none"
    /\ LET table == ExpiredOn({k[2]}, started)
       IN  status' = [table EXCEPT ![k] =
                        IF @ \in {"active", "payment_held", "committed"}
                        THEN GivenUp(k, started) ELSE @]
    /\ UNCHANGED <<now, onHand, qty, expiry, order>>

(* Any reservation may be released, an order's too, unless a payment       *)
(* manages it; a closed one is returned as it is.                          *)
Release(k, started) ==
    /\ status[k] \notin {"none", "payment_held", "committed"}
    /\ LET table == ExpiredOn({k[2]}, started)
       IN  status' = [table EXCEPT ![k] =
                        IF @ = "active" THEN GivenUp(k, started) ELSE @]
    /\ UNCHANGED <<now, onHand, qty, expiry, order>>

Adjust(l, delta, started) ==
    /\ onHand[l] + delta \in 0..MaxStock
    /\ onHand[l] + delta >= Reserved(l)
    /\ status' = ExpiredOn({l}, started)
    /\ onHand' = [onHand EXCEPT ![l] = @ + delta]
    /\ UNCHANGED <<now, qty, expiry, order>>

-----------------------------------------------------------------------------
(* Orders.  "lines" gives the quantity taken from each level; "scanned"    *)
(* are the levels the transaction locked.                                  *)

PlaceOrder(o, lines, scanned, started) ==
    LET placed == {k \in Holds : k[1] = o /\ lines[k[2]] > 0}
    IN  /\ order[o] = "none"
        /\ placed # {}
        /\ \A k \in placed : k[2] \in scanned
        /\ order' = [order EXCEPT ![o] = "pending"]
        /\ status' = [k \in Holds |->
              IF k \in placed THEN "active" ELSE ExpiredOn(scanned, started)[k]]
        /\ qty' = [k \in Holds |-> IF k \in placed THEN lines[k[2]] ELSE qty[k]]
        /\ expiry' = [k \in Holds |->
              IF k \in placed THEN started + TTL ELSE expiry[k]]
        /\ UNCHANGED <<now, onHand>>

WithinAvailable(lines) ==
    \A l \in Levels : lines[l] > 0 => lines[l] <= Available(l)

(* A manual order locks exactly the levels its lines name, and checks each *)
(* line against what is available of it.                                   *)
CreateOrder(o, lines, started) ==
    /\ PlaceOrder(o, lines, {l \in Levels : lines[l] > 0}, started)
    /\ WithinAvailable(lines)

(* Units that lines ask of a product, and that the levels ls offer of it.  *)
AskedOf(lines, p) ==
    Cardinality({u \in Levels \X (1..MaxQty) :
                    ProductOf[u[1]] = p /\ u[2] <= lines[u[1]]})
OfferedBy(ls, p) ==
    Cardinality({u \in ls \X (1..MaxStock) :
                    ProductOf[u[1]] = p /\ u[2] <= Available(u[1])})

CanFill(ls, lines) ==
    \A l \in Levels : AskedOf(lines, ProductOf[l]) <= OfferedBy(ls, ProductOf[l])

(* What the allocation engine guarantees (EngineKeepsContract, in          *)
(* AllocationProofs): its decisions take of levels that have something to  *)
(* offer, of a product no more than the network has, and all from one      *)
(* warehouse if one has everything.  Then, and if the order is of one      *)
(* product, they fit; otherwise they may take more of a level than it has. *)
Decided(lines, scanned) ==
    LET taken   == {l \in Levels : lines[l] > 0}
        offered == {l \in scanned : Available(l) > 0}
        Near(l) == {m \in offered : WarehouseOf[m] = WarehouseOf[l]}
    IN  /\ taken \subseteq offered
        /\ CanFill(offered, lines)
        /\ (\E l \in offered : CanFill(Near(l), lines)) =>
              WithinAvailable(lines) /\ \E l \in taken : taken \subseteq Near(l)
        /\ (\A l, m \in taken : ProductOf[l] = ProductOf[m]) => WithinAvailable(lines)

(* An automatic order locks the candidate levels of its products and then  *)
(* places what the engine chose among them, without checking it again.     *)
AutoCreateOrder(o, lines, scanned, started) ==
    /\ PlaceOrder(o, lines, scanned, started)
    /\ \A l \in scanned : \E m \in Levels : lines[m] > 0 /\ ProductOf[m] = ProductOf[l]
    /\ Decided(lines, scanned)

CloseOrder(o, started) ==
    /\ order' = [order EXCEPT ![o] = "cancelled"]
    /\ status' = [k \in Holds |->
          IF k[1] = o /\ status[k] = "active" THEN GivenUp(k, started)
          ELSE status[k]]
    /\ UNCHANGED <<now, onHand, qty, expiry>>

(* Cancellation of an order no payment provider knows of; module Checkout  *)
(* knows which orders those are, here it is enough that none of their      *)
(* reservations is held for a payment.                                     *)
CancelOrder(o, started) ==
    /\ order[o] = "pending"
    /\ \A k \in HoldsOf(o) : status[k] # "payment_held"
    /\ CloseOrder(o, started)

-----------------------------------------------------------------------------
(* What the transactions of a payment do to the order it pays for.         *)

(* Faulty: a reservation that lapsed in the meantime is held as well.      *)
HoldForPaymentLate(o) ==
    /\ order[o] = "pending"
    /\ AllHolds(o, "active")
    /\ status' = [k \in Holds |->
          IF k \in HoldsOf(o) THEN "payment_held" ELSE status[k]]
    /\ UNCHANGED <<now, onHand, qty, expiry, order>>

(* A checkout starts: every reservation of the order, all of them still    *)
(* effective at statement time, is held for the payment.                   *)
HoldForPayment(o) ==
    /\ order[o] = "pending"
    /\ AllHolds(o, "active")
    /\ \A k \in HoldsOf(o) : expiry[k] > now
    /\ status' = [k \in Holds |->
          IF k \in HoldsOf(o) THEN "payment_held" ELSE status[k]]
    /\ UNCHANGED <<now, onHand, qty, expiry, order>>

(* A verified success pays the order and commits what was held.            *)
CommitPayment(o) ==
    /\ order[o] = "pending"
    /\ AllHolds(o, "payment_held")
    /\ order' = [order EXCEPT ![o] = "paid"]
    /\ status' = [k \in Holds |->
          IF k \in HoldsOf(o) THEN "committed" ELSE status[k]]
    /\ UNCHANGED <<now, onHand, qty, expiry>>

(* The provider confirmed that the intent is cancelled.  After a failed    *)
(* payment the order keeps what has not lapsed; otherwise it is cancelled. *)
EndPayment(o, failed) ==
    /\ order[o] = "pending"
    /\ AllHolds(o, "payment_held")
    /\ order' = IF failed THEN order ELSE [order EXCEPT ![o] = "cancelled"]
    /\ status' = [k \in Holds |->
          IF k \notin HoldsOf(o) THEN status[k]
          ELSE IF failed /\ expiry[k] > now THEN "active" ELSE GivenUp(k, now)]
    /\ UNCHANGED <<now, onHand, qty, expiry>>

-----------------------------------------------------------------------------
(* Fulfillment ships some of the committed reservations of one order out   *)
(* of one warehouse.                                                       *)
Complete(o, ls) ==
    LET shipped == {k \in Holds : k[1] = o /\ k[2] \in ls}
    IN  /\ ls # {}
        /\ \A l, m \in ls : WarehouseOf[l] = WarehouseOf[m]
        /\ order[o] \in {"paid", "partially_fulfilled"}
        /\ \A k \in shipped : status[k] = "committed" /\ qty[k] <= onHand[k[2]]
        /\ onHand' = [l \in Levels |->
              IF l \in ls THEN onHand[l] - qty[<<o, l>>] ELSE onHand[l]]
        /\ status' = [k \in Holds |->
              IF k \in shipped THEN "consumed" ELSE status[k]]
        /\ order' = [order EXCEPT ![o] =
              IF \A k \in HoldsOf(o) \ shipped : status[k] = "consumed"
              THEN "fulfilled" ELSE "partially_fulfilled"]
        /\ UNCHANGED <<now, qty, expiry>>

Tick ==
    /\ now < MaxTime
    /\ now' = now + 1
    /\ UNCHANGED <<onHand, status, qty, expiry, order>>

-----------------------------------------------------------------------------
InventoryStep ==
    \E started \in StartTimes :
        \/ \E w \in Walkins, l \in Levels, n \in 1..MaxQty : Reserve(w, l, n, started)
        \/ \E k \in Holds : Release(k, started)
        \/ \E l \in Levels, delta \in (-MaxQty..MaxQty) \ {0} :
              Adjust(l, delta, started)

OrderStep ==
    \E started \in StartTimes, o \in Orders, lines \in [Levels -> 0..MaxQty] :
        \/ CreateOrder(o, lines, started)
        \/ \E scanned \in SUBSET Levels : AutoCreateOrder(o, lines, scanned, started)

PaymentStep ==
    \E o \in Orders :
        \/ \E started \in StartTimes : CancelOrder(o, started)
        \/ HoldForPayment(o)
        \/ CommitPayment(o)
        \/ \E failed \in BOOLEAN : EndPayment(o, failed)

FulfillmentStep == \E o \in Orders, ls \in SUBSET Levels : Complete(o, ls)

StockNext == InventoryStep \/ OrderStep \/ PaymentStep \/ FulfillmentStep \/ Tick

StockSpec == StockInit /\ [][StockNext]_stockVars
-----------------------------------------------------------------------------
(* Properties.                                                             *)

(* At every instant the reservations that count on a level fit in what is  *)
(* physically there: whatever two transactions read before they queued for *)
(* the same row lock, the last unit is promised once (docs/performance.md, *)
(* docs/reservations.md).                                                  *)
NoOversell == \A l \in Levels : Reserved(l) <= onHand[l]

(* The status of an order and those of its reservations tell one story:    *)
(* orders and reservations are written by five repositories, and no        *)
(* interleaving of them leaves an order half held, paid without its stock, *)
(* cancelled while still holding some, or fulfilled with some unshipped.   *)
OrderMatchesHolds ==
    \A o \in Orders :
        LET seen == {status[k] : k \in HoldsOf(o)}
        IN  /\ order[o] = "none" <=> seen = {}
            /\ order[o] = "pending" =>
                  \/ seen = {"payment_held"}
                  \/ seen \subseteq {"active", "released", "expired"}
            /\ order[o] = "cancelled" => seen \subseteq {"released", "expired"}
            /\ order[o] = "paid" => seen = {"committed"}
            /\ order[o] = "partially_fulfilled" => seen = {"committed", "consumed"}
            /\ order[o] = "fulfilled" => seen = {"consumed"}

(* The tables implement the ledger of promises: a reservation that lapsed, *)
(* was released or shipped never counts again (its units may be promised   *)
(* to someone else by then), a committed one leaves only by shipment, and  *)
(* on-hand stock changes only by that shipment or by a checked adjustment. *)
AsLedger ==
    INSTANCE Ledger WITH
        Promises  <- Holds,
        LevelOf   <- [k \in Holds |-> k[2]],
        MaxAmount <- MaxQty,
        capacity  <- onHand,
        amount    <- qty,
        live      <- {k \in Holds : Effective(k)},
        sold      <- {k \in Holds : status[k] = "committed"},
        ended     <- {k \in Holds : status[k] # "none" /\ ~Effective(k)}

ImplementsLedger == AsLedger!Spec
=============================================================================
