---------------------------- MODULE MCAllocation ----------------------------
(* Two products in three warehouses: a product can be exhausted in the     *)
(* first warehouse, short in the second, and complete with the third.      *)
EXTENDS Allocation, TLC

CONSTANTS w1, w2, w3

ByName == w1 :> 1 @@ w2 :> 2 @@ w3 :> 3
=============================================================================
