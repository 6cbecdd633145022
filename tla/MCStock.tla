------------------------------ MODULE MCStock ------------------------------
(* Two products in one warehouse, so that an order has several lines,      *)
(* is partly released or fulfilled, and quantities up to two, so that sums *)
(* of reservations matter.  Beside it the audit trail of three             *)
(* transactions on one level, all of which can be the same.  It shares no  *)
(* state with the stock, so that each runs while the other rests.          *)
EXTENDS Stock, AuditTrail, TLC

CONSTANTS l1, l2, w1

OneWarehouse == [l \in Levels |-> w1]
OwnProduct   == [l \in Levels |-> l]
OneAndTwo    == l1 :> 1 @@ l2 :> 2

InventoryInit == StockInit /\ AuditInit

InventoryNext ==
    \/ AuditInit /\ StockNext /\ UNCHANGED auditVars
    \/ StockInit /\ AuditNext /\ UNCHANGED stockVars

InventorySpec == InventoryInit /\ [][InventoryNext]_<<stockVars, auditVars>>

Interchangeable == Permutations(Writers)
=============================================================================
