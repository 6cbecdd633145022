------------------------------ MODULE Transfers -----------------------------
(***************************************************************************)
(* Transfers move stock from one warehouse to another.  Between dispatch   *)
(* and receipt it is in neither: it left the source's on-hand quantity and *)
(* has not reached the destination's.  Each operation is one transaction   *)
(* that locks the levels it changes and the transfer's row, next to all    *)
(* the transactions of module Stock.                                       *)
(*                                                                         *)
(* Repeated requests change nothing: a known key is answered with the      *)
(* transfer as it is, and dispatch, receipt and cancellation are refused   *)
(* once the status has moved on.  A destination level that does not exist  *)
(* is inserted empty, which here is a level with nothing on hand.          *)
(***************************************************************************)
EXTENDS Stock

CONSTANTS
    Transfers   \* transfers, each named by its idempotency key

ASSUME TransferAssumption == IsFiniteSet(Transfers)

VARIABLES
    transfer,  \* inventory_transfers.status; "none": not inserted yet
    items,     \* inventory_transfer_items of each transfer
    booked     \* per product, the sum of the movements that are not transfers

transferVars == <<transfer, items, booked>>
vars         == <<stockVars, transferVars>>

TransferStatuses == {"none", "pending", "in_transit", "completed", "cancelled"}
Products         == {ProductOf[l] : l \in Levels}

Items ==
    {i \in [from: Levels, to: Levels, quantity: 1..MaxQty] :
        /\ ProductOf[i.from] = ProductOf[i.to]
        /\ WarehouseOf[i.from] # WarehouseOf[i.to]}

(* One source, one destination, and each product once.                     *)
OneRoute(lines) ==
    \A i, j \in lines :
        /\ WarehouseOf[i.from] = WarehouseOf[j.from]
        /\ WarehouseOf[i.to] = WarehouseOf[j.to]
        /\ ProductOf[i.from] = ProductOf[j.from] => i = j

TransferTypeOK ==
    /\ StockTypeOK
    /\ transfer \in [Transfers -> TransferStatuses]
    /\ items \in [Transfers -> SUBSET Items]
    /\ \A t \in Transfers : OneRoute(items[t])
    /\ booked \in [Products -> Int]

(* What a transfer takes from a level, and what it brings to it.           *)
Taken(t, l) ==
    IF \E i \in items[t] : i.from = l
    THEN (CHOOSE i \in items[t] : i.from = l).quantity ELSE 0
Brought(t, l) ==
    IF \E i \in items[t] : i.to = l
    THEN (CHOOSE i \in items[t] : i.to = l).quantity ELSE 0

OnShelf(p) ==
    {u \in Levels \X (1..MaxStock) : ProductOf[u[1]] = p /\ u[2] <= onHand[u[1]]}
InTransit(p) ==
    {u \in (Transfers \X Items) \X (1..MaxQty) :
        /\ transfer[u[1][1]] = "in_transit" /\ u[1][2] \in items[u[1][1]]
        /\ ProductOf[u[1][2].from] = p /\ u[2] <= u[1][2].quantity}
Physical(p) == Cardinality(OnShelf(p)) + Cardinality(InTransit(p))

TransferInit ==
    /\ StockInit
    /\ transfer = [t \in Transfers |-> "none"]
    /\ items = [t \in Transfers |-> {}]
    /\ booked = [p \in Products |-> 0]

-----------------------------------------------------------------------------
(* Faulty: a product may be listed twice.                                  *)
CreateTransferTwice(t, lines) ==
    /\ transfer[t] = "none"
    /\ lines # {}
    /\ transfer' = [transfer EXCEPT ![t] = "pending"]
    /\ items' = [items EXCEPT ![t] = lines]
    /\ UNCHANGED <<stockVars, booked>>

CreateTransfer(t, lines) ==
    /\ transfer[t] = "none"
    /\ lines # {} /\ OneRoute(lines)
    /\ transfer' = [transfer EXCEPT ![t] = "pending"]
    /\ items' = [items EXCEPT ![t] = lines]
    /\ UNCHANGED <<stockVars, booked>>

(* Faulty: promised stock is sent away.                                    *)
DispatchPromised(t, started) ==
    /\ transfer[t] = "pending"
    /\ \A i \in items[t] : i.quantity <= onHand[i.from]
    /\ status' = ExpiredOn({i.from : i \in items[t]}, started)
    /\ onHand' = [l \in Levels |-> onHand[l] - Taken(t, l)]
    /\ transfer' = [transfer EXCEPT ![t] = "in_transit"]
    /\ UNCHANGED <<now, qty, expiry, order, items, booked>>

(* Every item must be available, or nothing leaves.                        *)
Dispatch(t, started) ==
    /\ transfer[t] = "pending"
    /\ \A i \in items[t] : i.quantity <= Available(i.from)
    /\ status' = ExpiredOn({i.from : i \in items[t]}, started)
    /\ onHand' = [l \in Levels |-> onHand[l] - Taken(t, l)]
    /\ transfer' = [transfer EXCEPT ![t] = "in_transit"]
    /\ UNCHANGED <<now, qty, expiry, order, items, booked>>

(* Faulty: a second receipt is not recognized as such.                     *)
ReceiveAgain(t) ==
    /\ transfer[t] \in {"in_transit", "completed"}
    /\ \A l \in Levels : onHand[l] + Brought(t, l) <= MaxStock
    /\ onHand' = [l \in Levels |-> onHand[l] + Brought(t, l)]
    /\ transfer' = [transfer EXCEPT ![t] = "completed"]
    /\ UNCHANGED <<now, status, qty, expiry, order, items, booked>>

Receive(t) ==
    /\ transfer[t] = "in_transit"
    /\ \A l \in Levels : onHand[l] + Brought(t, l) <= MaxStock
    /\ onHand' = [l \in Levels |-> onHand[l] + Brought(t, l)]
    /\ transfer' = [transfer EXCEPT ![t] = "completed"]
    /\ UNCHANGED <<now, status, qty, expiry, order, items, booked>>

CancelTransfer(t) ==
    /\ transfer[t] = "pending"
    /\ transfer' = [transfer EXCEPT ![t] = "cancelled"]
    /\ UNCHANGED <<stockVars, items, booked>>

(* Adjustments and shipments leave movements of their own.                 *)
OtherStep ==
    /\ StockNext
    /\ booked' = [p \in Products |->
          booked[p] + Cardinality(OnShelf(p)') - Cardinality(OnShelf(p))]
    /\ UNCHANGED <<transfer, items>>

-----------------------------------------------------------------------------
TransferStep ==
    \E t \in Transfers :
        \/ \E lines \in SUBSET Items : CreateTransfer(t, lines)
        \/ \E started \in StartTimes : Dispatch(t, started)
        \/ Receive(t)
        \/ CancelTransfer(t)

TransferNext == TransferStep \/ OtherStep

TransferSpec == TransferInit /\ [][TransferNext]_vars
-----------------------------------------------------------------------------
(* Goods neither vanish nor double on their way, whatever is repeated,     *)
(* cancelled or adjusted meanwhile: what is on the shelves and in transit  *)
(* is the initial stock and what the other movements account for           *)
(* ("Replays do not create duplicate stock changes", docs/transfers.md).   *)
GoodsConserved ==
    \A p \in Products :
        Physical(p) = booked[p] +
            Cardinality({u \in Levels \X (1..MaxStock) :
                            ProductOf[u[1]] = p /\ u[2] <= InitialStock[u[1]]})
=============================================================================
