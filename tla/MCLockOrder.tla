---------------------------- MODULE MCLockOrder -----------------------------
(* Two products in two warehouses, whose levels are ordered so that levels *)
(* and warehouses, and products and items, come in opposite orders; an     *)
(* order with both products; a transfer of both in each direction.         *)
EXTENDS LockOrder, TLC

CONSTANTS a, b, north, south, an, as, bn, bs, o1, x1, x2

Goods   == an :> a @@ as :> a @@ bn :> b @@ bs :> b
Place   == an :> north @@ as :> south @@ bn :> north @@ bs :> south
OfOrder == o1 :> {an, bn}
Source  == x1 :> north @@ x2 :> south
Target  == x1 :> south @@ x2 :> north
Content == x1 :> {a, b} @@ x2 :> {b}
Ids     == an :> 3 @@ bs :> 0 @@ as :> 1 @@ bn :> 2
           @@ a :> 0 @@ b :> 1 @@ north :> 0 @@ south :> 1 @@ o1 :> 0 @@ x1 :> 0 @@ x2 :> 1
ItemIds == an :> 1 @@ as :> 3 @@ bn :> 0 @@ bs :> 2

Interchangeable == Permutations(Transactions)
=============================================================================
