------------------------------- MODULE Ledger ------------------------------
(***************************************************************************)
(* What the stock of an organization promises, whatever the tables look    *)
(* like: a promise of some quantity of a level is live from the moment it  *)
(* is made until it is dropped or shipped; the live promises of a level    *)
(* never exceed its capacity; an ended promise never counts again; and a   *)
(* promise that was sold ends only by being shipped out of the capacity.   *)
(* Module Stock implements this module.                                    *)
(***************************************************************************)
EXTENDS Integers, FiniteSets

CONSTANTS
    Levels,     \* the levels that have a capacity
    Promises,   \* every promise that may ever be made
    LevelOf,    \* the level a promise draws on
    MaxAmount   \* largest amount of one promise

VARIABLES
    capacity,   \* what each level physically holds
    amount,     \* how much each promise is for
    live,       \* the promises that count
    sold,       \* the live promises that are paid for
    ended       \* the promises that count no more

ledgerVars == <<capacity, amount, live, sold, ended>>

Load(S, l) ==
    Cardinality({u \in Promises \X (1..MaxAmount) :
                    /\ u[1] \in S
                    /\ LevelOf[u[1]] = l
                    /\ u[2] <= amount[u[1]]})

Fits == \A l \in Levels : Load(live, l) <= capacity[l]

Fresh(S) ==
    /\ S \subseteq Promises \ (live \cup ended)
    /\ \A p \in Promises \ S : amount'[p] = amount[p]

Init ==
    /\ capacity \in [Levels -> Nat]
    /\ amount = [p \in Promises |-> 0]
    /\ live = {} /\ sold = {} /\ ended = {}

Make(S) ==
    /\ Fresh(S)
    /\ live' = live \cup S
    /\ Fits'
    /\ UNCHANGED <<capacity, sold, ended>>

(* A promise made too late to count at all.                                *)
Void(S) ==
    /\ Fresh(S)
    /\ ended' = ended \cup S
    /\ UNCHANGED <<capacity, live, sold>>

Drop(S) ==
    /\ S \subseteq live \ sold
    /\ live' = live \ S
    /\ ended' = ended \cup S
    /\ UNCHANGED <<capacity, amount, sold>>

Sell(S) ==
    /\ S \subseteq live \ sold
    /\ sold' = sold \cup S
    /\ UNCHANGED <<capacity, amount, live, ended>>

Ship(S) ==
    /\ S \subseteq sold
    /\ live' = live \ S
    /\ sold' = sold \ S
    /\ ended' = ended \cup S
    /\ capacity' = [l \in Levels |-> capacity[l] - Load(S, l)]
    /\ UNCHANGED amount

Recount ==
    /\ capacity' \in [Levels -> Nat]
    /\ Fits'
    /\ UNCHANGED <<amount, live, sold, ended>>

Next ==
    \/ Recount
    \/ \E S \in SUBSET Promises :
          Make(S) \/ Void(S) \/ Drop(S) \/ Sell(S) \/ Ship(S)

Spec == Init /\ [][Next]_ledgerVars
=============================================================================
