----------------------------- MODULE Allocation -----------------------------
(***************************************************************************)
(* The allocation engine, minimize_splits_v1: which warehouses an          *)
(* automatic order takes its products from.  Either one warehouse has      *)
(* everything, or warehouses are taken one after another, the best first.  *)
(*                                                                         *)
(* The engine is a pure function.  A step here is one round of its loop,   *)
(* so that its bookkeeping between rounds can be looked at.  A warehouse   *)
(* has at most one level of a product (a unique key), hence a candidate is *)
(* a pair.  Decisions are kept as what was drawn from each candidate;      *)
(* several on one candidate add up, as their reservations do.              *)
(***************************************************************************)
EXTENDS Integers, FiniteSets

CONSTANTS
    Products, Warehouses,
    Code,       \* the order of the warehouses' codes
    MaxQty,     \* the largest quantity asked for (a bound of the model)
    MaxStock    \* the largest availability (a bound of the model)

ASSUME AllocationAssumption ==
    /\ IsFiniteSet(Products) /\ IsFiniteSet(Warehouses)
    /\ Code \in [Warehouses -> Nat]
    /\ \A v, w \in Warehouses : Code[v] = Code[w] => v = w
    /\ MaxQty \in Nat \ {0} /\ MaxStock \in Nat

Candidates == Warehouses \X Products

VARIABLES
    request,    \* quantities asked for; 0: the product is not in the request
    available,  \* what the locked levels had to offer
    remaining,  \* of the request
    left,       \* availableBy: what the bookkeeping believes is left
    drawn,      \* the decisions
    phase       \* "open", "greedy", "done" or "refused"

vars == <<request, available, remaining, left, drawn, phase>>

Requested   == {p \in Products : request[p] > 0}
Least(m, n) == IF m < n THEN m ELSE n

Init ==
    /\ request \in [Products -> 0..MaxQty]
    /\ Requested # {}
    /\ available \in [Candidates -> 0..MaxStock]
    /\ remaining = request
    /\ left = available
    /\ drawn = [c \in Candidates |-> 0]
    /\ phase = "open"

-----------------------------------------------------------------------------
(* The sum of the values of a function, as the size of a set of units.     *)
Total(f) == Cardinality(UNION {{x} \X (1..f[x]) : x \in DOMAIN f})

Network(p) == Total([w \in Warehouses |-> available[<<w, p>>]])

NetworkCanSatisfy == \A p \in Requested : Network(p) >= remaining[p]

(* Faulty: a warehouse fits if it has as many units in all.                *)
FitsInTotal(w) ==
    Total([p \in Requested |-> left[<<w, p>>]]) >= Total([p \in Requested |-> remaining[p]])

Fits(w) == \A p \in Requested : left[<<w, p>>] >= remaining[p]

(* allocateFromWarehouse: it goes by the candidates, not by what is left.  *)
Decision(w, p) == Least(remaining[p], available[<<w, p>>])

Touched(w) == {p \in Requested : left[<<w, p>>] > 0}
Lines(w)   == Cardinality({p \in Touched(w) : left[<<w, p>>] >= remaining[p]})
Units(w)   == Total([p \in Touched(w) |-> Least(left[<<w, p>>], remaining[p])])
Headroom(w) ==
    Total([p \in {q \in Requested : left[<<w, q>>] > remaining[q]} |-> left[<<w, p>>] - remaining[p]])

(* The first component in which two scores differ decides.                 *)
Above(s, t) == \E i \in DOMAIN s : s[i] > t[i] /\ \A j \in 1..(i - 1) : s[j] = t[j]

(* Faulty: the tie-break comes before the units.                           *)
GreedyScoreByTouch(w) ==
    <<Lines(w), -Cardinality(Touched(w)), Units(w), Headroom(w), -Code[w]>>

GreedyScore(w) == <<Lines(w), Units(w), -Cardinality(Touched(w)), Headroom(w), -Code[w]>>
SingleScore(w) == <<Headroom(w), -Code[w]>>

Outranks(w, v)    == Above(GreedyScore(w), GreedyScore(v))
RoomierThan(w, v) == Above(SingleScore(w), SingleScore(v))

-----------------------------------------------------------------------------
(* The decisions of one warehouse, and the remaining quantities after.     *)
Draw(w) ==
    /\ drawn' = [c \in Candidates |-> IF c[1] = w THEN drawn[c] + Decision(w, c[2]) ELSE drawn[c]]
    /\ remaining' = [p \in Products |-> remaining[p] - Decision(w, p)]

Refuse ==
    /\ phase = "open"
    /\ ~NetworkCanSatisfy
    /\ phase' = "refused"
    /\ UNCHANGED <<request, available, remaining, left, drawn>>

TakeSingle ==
    /\ phase = "open"
    /\ NetworkCanSatisfy
    /\ \E w \in Warehouses :
          /\ Fits(w)
          /\ \A v \in Warehouses \ {w} : Fits(v) => RoomierThan(w, v)
          /\ Draw(w)
    /\ phase' = "done"
    /\ UNCHANGED <<request, available, left>>

(* Faulty: only a warehouse that completes a line is worth a visit.        *)
UsefulForLines == {w \in Warehouses : Lines(w) > 0 /\ \E p \in Requested : Decision(w, p) > 0}

(* Faulty: warehouses that have nothing to give are visited as well.       *)
UsefulOrNot == Warehouses

Useful == {w \in Warehouses : \E p \in Requested : Decision(w, p) > 0}

(* A round of the loop: the best warehouse, unless none is of any use.     *)
TakeGreedy ==
    /\ \/ phase = "open" /\ NetworkCanSatisfy /\ \A w \in Warehouses : ~Fits(w)
       \/ phase = "greedy"
    /\ UNCHANGED <<request, available>>
    /\ IF Useful = {}
       THEN phase' = "refused" /\ UNCHANGED <<remaining, left, drawn>>
       ELSE \E w \in Useful :
          /\ \A v \in Useful \ {w} : Outranks(w, v)
          /\ Draw(w)
          /\ left' = [c \in Candidates |->
                IF c[1] = w THEN left[c] - Decision(w, c[2]) ELSE left[c]]
          /\ phase' = IF \E p \in Requested : remaining'[p] > 0 THEN "greedy" ELSE "done"

Next == Refuse \/ TakeSingle \/ TakeGreedy

Spec     == Init /\ [][Next]_vars
FairSpec == Spec /\ WF_vars(Next)
-----------------------------------------------------------------------------
AllocationTypeOK ==
    /\ request \in [Products -> Nat] /\ remaining \in [Products -> Nat]
    /\ available \in [Candidates -> Nat] /\ drawn \in [Candidates -> Nat]
    /\ left \in [Candidates -> Int]
    /\ phase \in {"open", "greedy", "done", "refused"}

Drawn(p) == Total([w \in Warehouses |-> drawn[<<w, p>>]])

(* "Automatic orders are all-or-nothing" (docs/allocation.md): the rounds  *)
(* together give each product exactly as asked, and only a network that    *)
(* lacks units of some product is refused: no round runs out of warehouses *)
(* before the request is filled.                                           *)
AllOrNothing ==
    /\ phase = "done" => \A p \in Products : Drawn(p) = request[p]
    /\ phase = "refused" => \E p \in Products : Network(p) < request[p]

(* "It first selects one warehouse when that warehouse can satisfy every   *)
(* requested product" (docs/allocation.md): it fills such an order from    *)
(* one warehouse, all of it, and takes nothing elsewhere.                  *)
FilledBy(w) == \A c \in Candidates : drawn[c] = IF c[1] = w THEN request[c[2]] ELSE 0

OneWarehouseIfPossible ==
    /\ phase = "done"
    /\ \E w \in Warehouses : \A p \in Products : available[<<w, p>>] >= request[p]
    => \E w \in Warehouses : FilledBy(w)

(* An order of one product is never given more of a level than there is,   *)
(* although the rounds go by the availability before the first.            *)
OneProductFits ==
    Cardinality(Requested) = 1 => \A c \in Candidates : drawn[c] <= available[c]

(* The loop over the rounds ends.                                          *)
AllocationEnds == <>(phase \in {"done", "refused"})

(* "Reservations must not oversell", "deterministic multi-warehouse        *)
(* allocation preserves reservation correctness" (README.md): the          *)
(* reservations of an automatic order are these decisions, unchecked.      *)
DecisionsFit == \A c \in Candidates : drawn[c] <= available[c]
=============================================================================
