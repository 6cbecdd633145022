---------------------------- MODULE MCTransfers ----------------------------
(* Stock on its way between warehouses:                                    *)
(*   - One product in two warehouses, and two transfers that may go in     *)
(*     opposite directions, next to an order.                              *)
(*   - The list of levels that could do with a transfer: five, two on a    *)
(*     page, with more donors than are looked at, kept or used.            *)
(*   - The list of transfers in the browser: four rows of one organization *)
(*     and one of another, two on a page.                                  *)
(* These share no state (rows come and change as they like), so that each  *)
(* runs while the others rest.                                             *)
EXTENDS Transfers, Replenishment, PagedList

CONSTANTS north, south

Place        == [l \in Levels |-> l]
Goods        == [l \in Levels |-> "goods"]
StockInNorth == [l \in Levels |-> IF l = north THEN 1 ELSE 0]

Backwards    == [s \in Shelves |-> 10 - s]
SomeFree     == {-1, 1, 3}
SomePolicies == {None} \cup {[reorder |-> r, target |-> 3 - r] : r \in 0..2}

FourOfAcme == <<"acme", "acme", "other", "acme", "acme">>
Dispatched == {<<"pending", "in_transit">>}

Enough ==
    /\ ReplenishmentInit
    /\ free = [s \in Shelves |-> 1] /\ policy = [s \in Shelves |-> None]

Unread == PagedInit /\ scope = [org |-> "acme", filter |-> "all"]

(* Two of the levels have a policy to begin with.                          *)
SomeManaged == ReplenishmentInit /\ \A s \in {3, 5} : policy[s] # None

ListedInit ==
    /\ TransferInit
    /\ \/ Enough /\ PagedInit
       \/ SomeManaged /\ Unread

ListedNext ==
    \/ Enough /\ Unread /\ TransferNext /\ UNCHANGED <<shelfVars, readerVars, pagedVars>>
    \/ TransferInit /\ Unread /\ ReplenishmentNext /\ UNCHANGED <<vars, pagedVars>>
    \/ TransferInit /\ Enough /\ PagedNext /\ UNCHANGED <<vars, shelfVars, readerVars>>

ListedSpec == ListedInit /\ [][ListedNext]_<<vars, shelfVars, readerVars, pagedVars>>

ListedTypeOK == TransferTypeOK /\ PagedTypeOK
=============================================================================
