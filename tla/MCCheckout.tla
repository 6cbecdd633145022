----------------------------- MODULE MCCheckout ----------------------------
(* Small instances of Checkout: one level and one order; two payments and  *)
(* one worker at a time, or one payment and two workers.                   *)
EXTENDS Checkout

CONSTANTS l1, o1, p1, p2

InOneWarehouse == [l \in Levels |-> "w"]
OfOneProduct   == [l \in Levels |-> "p"]
OneUnit        == [l \in Levels |-> 1]
ForOneOrder    == [p \in Payments |-> o1]
Agree          == {TRUE}
MayDisagree    == BOOLEAN
=============================================================================
