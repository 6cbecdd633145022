-------------------------- MODULE AllocationProofs --------------------------
(***************************************************************************)
(* Theorems about the allocation engine, for any products, warehouses and  *)
(* quantities.                                                             *)
(***************************************************************************)
EXTENDS Allocation, FiniteSetTheorems, NaturalsInduction, TLAPS

-----------------------------------------------------------------------------
(* Sums.  The units that a total counts, those of the members of U.        *)
Cells(f, U) == UNION {{x} \X (1..f[x]) : x \in U}

LEMMA CellsOfOne ==
    ASSUME NEW x, NEW n \in Nat
    PROVE  IsFiniteSet({x} \X (1..n)) /\ Cardinality({x} \X (1..n)) = n
<1> DEFINE g == [i \in 1..n |-> <<x, i>>]
<1>1. g \in Bijection(1..n, {x} \X (1..n))
  BY DEF Bijection, Injection, Surjection, IsInjective
<1>2. ExistsBijection(1..n, {x} \X (1..n))
  BY <1>1 DEF ExistsBijection
<1>3. IsFiniteSet(1..n) /\ Cardinality(1..n) = n
  BY FS_Interval
<1> QED
  BY <1>2, <1>3, FS_Bijection

LEMMA CellsSplit ==
    ASSUME NEW U, NEW f, NEW x \in U
    PROVE  /\ Cells(f, U) = Cells(f, U \ {x}) \cup ({x} \X (1..f[x]))
           /\ Cells(f, U \ {x}) \cap ({x} \X (1..f[x])) = {}
BY DEF Cells

(* A set without finite sums that has the fewest members has none less one. *)
LEMMA CellsFinite ==
    ASSUME NEW S, IsFiniteSet(S), NEW f \in [S -> Nat]
    PROVE  IsFiniteSet(Cells(f, S))
<1> DEFINE Bad == {U \in SUBSET S : ~IsFiniteSet(Cells(f, U))}
           T   == {Cardinality(U) : U \in Bad}
<1>1. ASSUME NEW U \in SUBSET S PROVE IsFiniteSet(U) /\ Cardinality(U) \in Nat
  BY FS_Subset, FS_CardinalityType
<1> SUFFICES ASSUME Bad # {} PROVE FALSE
  OBVIOUS
<1>2. T \subseteq Nat /\ T # {}
  BY <1>1
<1>3. PICK n \in T : \A m \in T : ~(<<m, n>> \in OpToRel(<, Nat))
  <2> HIDE DEF T
  <2> QED
    BY <1>2, WFMin, NatLessThanWellFounded
<1>4. \A m \in T : ~(m < n)
  BY <1>2, <1>3 DEF OpToRel
<1>5. PICK U \in Bad : n = Cardinality(U)
  OBVIOUS
<1>6. U # {}
  <2>1. Cells(f, {}) = {}
    BY DEF Cells
  <2> QED
    BY <2>1, <1>5, FS_EmptySet
<1>7. PICK x \in U : TRUE
  BY <1>6
<1>8. /\ U \ {x} \in SUBSET S
      /\ Cardinality(U \ {x}) = n - 1
  BY <1>1, <1>5, <1>7, FS_RemoveElement
<1>9. U \ {x} \notin Bad
  <2>1. n \in Nat /\ n - 1 \in Nat
    BY <1>1, <1>2, <1>8
  <2>2. n - 1 \notin T
    <3> HIDE DEF T
    <3> QED
      BY <2>1, <1>4
  <2> QED
    BY <2>2, <1>8
<1>10. f[x] \in Nat
  BY <1>5, <1>7
<1>11. IsFiniteSet(Cells(f, U \ {x})) /\ ~IsFiniteSet(Cells(f, U))
  BY <1>5, <1>8, <1>9
<1>12. Cells(f, U) = Cells(f, U \ {x}) \cup ({x} \X (1..f[x]))
  BY <1>7 DEF Cells
<1>13. IsFiniteSet({x} \X (1..f[x]))
  BY <1>10, CellsOfOne
<1>14. IsFiniteSet(Cells(f, U \ {x}) \cup ({x} \X (1..f[x])))
  <2> HIDE DEF Bad, T
  <2> QED
    BY <1>11, <1>13, FS_Union
<1> QED
  BY <1>11, <1>12, <1>14

(* What one member adds to a sum.                                          *)
LEMMA TotalSplit ==
    ASSUME NEW S, IsFiniteSet(S), NEW f \in [S -> Nat], NEW x \in S
    PROVE  /\ Total(f) = Cardinality(Cells(f, S \ {x})) + f[x]
           /\ Cardinality(Cells(f, S \ {x})) \in Nat
           /\ Total(f) \in Nat
<1>1. /\ f[x] \in Nat
      /\ Total(f) = Cardinality(Cells(f, S))
  BY DEF Total, Cells
<1>2. IsFiniteSet(Cells(f, S))
  BY CellsFinite
<1>3. Cells(f, S \ {x}) \in SUBSET Cells(f, S)
  BY CellsSplit
<1>4. IsFiniteSet(Cells(f, S \ {x}))
  BY <1>2, <1>3, FS_Subset
<1>5. Cardinality(Cells(f, S \ {x}) \cap ({x} \X (1..f[x]))) = 0
  BY CellsSplit, FS_EmptySet
<1>6. IsFiniteSet({x} \X (1..f[x])) /\ Cardinality({x} \X (1..f[x])) = f[x]
  BY <1>1, CellsOfOne
<1>7. Cardinality(Cells(f, S)) =
        Cardinality(Cells(f, S \ {x})) + f[x] - 0
  BY <1>4, <1>5, <1>6, CellsSplit, FS_Union
<1> QED
  BY <1>1, <1>2, <1>4, <1>7, FS_CardinalityType

LEMMA TotalNat ==
    ASSUME NEW S, IsFiniteSet(S), NEW f \in [S -> Nat]
    PROVE  Total(f) \in Nat
<1>1. Total(f) = Cardinality(Cells(f, S))
  BY DEF Total, Cells
<1> QED
  BY <1>1, CellsFinite, FS_CardinalityType

LEMMA TotalZero ==
    ASSUME NEW S, NEW f \in [S -> Nat], \A x \in S : f[x] = 0
    PROVE  Total(f) = 0
<1>1. UNION {{x} \X (1..f[x]) : x \in DOMAIN f} = {}
  OBVIOUS
<1> QED
  BY <1>1, FS_EmptySet DEF Total

LEMMA TotalMonotone ==
    ASSUME NEW S, IsFiniteSet(S), NEW f \in [S -> Nat], NEW g \in [S -> Nat],
           \A x \in S : f[x] <= g[x]
    PROVE  Total(f) <= Total(g)
<1>1. ASSUME NEW x \in S PROVE 1..f[x] \subseteq 1..g[x]
  <2>1. f[x] \in Nat /\ g[x] \in Nat /\ f[x] <= g[x]
    OBVIOUS
  <2> QED
    BY <2>1
<1>2. Cells(f, S) \in SUBSET Cells(g, S)
  BY <1>1 DEF Cells
<1>3. Total(f) = Cardinality(Cells(f, S)) /\ Total(g) = Cardinality(Cells(g, S))
  BY DEF Total, Cells
<1> QED
  BY <1>2, <1>3, CellsFinite, FS_Subset

(* A sum one of whose terms grows, grows by as much.                       *)
LEMMA TotalGrows ==
    ASSUME NEW S, IsFiniteSet(S), NEW f \in [S -> Nat], NEW g \in [S -> Nat],
           NEW x \in S, \A y \in S \ {x} : g[y] = f[y]
    PROVE  Total(g) = Total(f) + g[x] - f[x]
<1>1. Cells(g, S \ {x}) = Cells(f, S \ {x})
  BY DEF Cells
<1>2. f[x] \in Nat /\ g[x] \in Nat
  OBVIOUS
<1>3. /\ Total(f) = Cardinality(Cells(f, S \ {x})) + f[x]
      /\ Total(g) = Cardinality(Cells(g, S \ {x})) + g[x]
      /\ Cardinality(Cells(f, S \ {x})) \in Nat
  BY TotalSplit
<1> QED
  BY <1>1, <1>2, <1>3

LEMMA TotalPositive ==
    ASSUME NEW S, IsFiniteSet(S), NEW f \in [S -> Nat], NEW x \in S, f[x] > 0
    PROVE  Total(f) > 0
<1>1. f[x] \in Nat /\ f[x] > 0
  OBVIOUS
<1>2. /\ Total(f) = Cardinality(Cells(f, S \ {x})) + f[x]
      /\ Cardinality(Cells(f, S \ {x})) \in Nat
  BY TotalSplit
<1> QED
  BY <1>1, <1>2

-----------------------------------------------------------------------------

NoneHasAll == ~ \E w \in Warehouses : \A p \in Products : available[<<w, p>>] >= request[p]
OneFills   == \E w \in Warehouses : FilledBy(w)

(* Rounds are only taken where no warehouse has everything.                *)
RoundsInv ==
    /\ phase = "open" => /\ remaining = request /\ left = available
                         /\ \A c \in Candidates : drawn[c] = 0
    /\ phase = "greedy" => NoneHasAll
    /\ phase = "done" => NoneHasAll \/ OneFills

LEMMA DecisionBounds ==
    ASSUME AllocationTypeOK, NEW w \in Warehouses, NEW p \in Products
    PROVE  /\ Decision(w, p) \in Nat
           /\ remaining[p] - Decision(w, p) \in Nat
<1>1. remaining[p] \in Nat /\ available[<<w, p>>] \in Nat
  BY DEF AllocationTypeOK, Candidates
<1> QED
  BY <1>1 DEF Decision, Least

LEMMA DrawKeepsTypes ==
    ASSUME AllocationTypeOK, NEW w \in Warehouses, Draw(w)
    PROVE  drawn' \in [Candidates -> Nat] /\ remaining' \in [Products -> Nat]
<1>1. ASSUME NEW c \in Candidates PROVE c[2] \in Products /\ drawn[c] \in Nat
  BY DEF AllocationTypeOK, Candidates
<1>2. ASSUME NEW c \in Candidates PROVE drawn[c] + Decision(w, c[2]) \in Nat
  BY <1>1, DecisionBounds
<1> QED
  BY <1>1, <1>2, DecisionBounds DEF Draw

(* A fitting warehouse gives all of a request that nothing was drawn for.  *)
LEMMA FittingFills ==
    ASSUME AllocationTypeOK, NEW w \in Warehouses, Fits(w), Draw(w),
           remaining = request, left = available, request' = request,
           \A c \in Candidates : drawn[c] = 0
    PROVE  FilledBy(w)'
<1>1. ASSUME NEW p \in Products PROVE Decision(w, p) = request[p]
  <2>1. request[p] \in Nat /\ available[<<w, p>>] \in Nat
    BY DEF AllocationTypeOK, Candidates
  <2>2. request[p] > 0 => available[<<w, p>>] >= request[p]
    BY DEF Fits, Requested
  <2> QED
    BY <2>1, <2>2 DEF Decision, Least
<1>2. ASSUME NEW c \in Candidates PROVE drawn'[c] = IF c[1] = w THEN request[c[2]] ELSE 0
  <2>1. c[2] \in Products /\ request[c[2]] \in Nat
    BY DEF Candidates, AllocationTypeOK
  <2> QED
    BY <1>1, <2>1 DEF Draw
<1> QED
  BY <1>2 DEF FilledBy

LEMMA InitEstablishesRounds ==
    Init => AllocationTypeOK /\ RoundsInv
<1> SUFFICES ASSUME Init PROVE AllocationTypeOK /\ RoundsInv
  OBVIOUS
<1> USE AllocationAssumption
<1>1. 0..MaxQty \subseteq Nat /\ 0..MaxStock \subseteq Nat
  OBVIOUS
<1>2. request \in [Products -> Nat] /\ available \in [Candidates -> Nat]
  BY <1>1 DEF Init
<1> QED
  BY <1>2 DEF Init, AllocationTypeOK, RoundsInv

LEMMA NextKeepsTypes ==
    AllocationTypeOK /\ [Next]_vars => AllocationTypeOK'
<1> SUFFICES ASSUME AllocationTypeOK, [Next]_vars PROVE AllocationTypeOK'
  OBVIOUS
<1>1. CASE Refuse
  BY <1>1 DEF Refuse, AllocationTypeOK
<1>2. CASE TakeSingle
  <2>1. PICK w \in Warehouses : Draw(w)
    BY <1>2 DEF TakeSingle
  <2> QED
    BY <1>2, <2>1, DrawKeepsTypes DEF TakeSingle, AllocationTypeOK
<1>3. CASE TakeGreedy /\ Useful = {}
  BY <1>3 DEF TakeGreedy, AllocationTypeOK
<1>4. CASE TakeGreedy /\ Useful # {}
  <2>1. PICK w \in Useful :
           /\ Draw(w)
           /\ left' = [c \in Candidates |-> IF c[1] = w THEN left[c] - Decision(w, c[2]) ELSE left[c]]
           /\ phase' \in {"greedy", "done"}
    BY <1>4 DEF TakeGreedy
  <2>2. w \in Warehouses
    BY DEF Useful
  <2>3. ASSUME NEW c \in Candidates PROVE left[c] \in Int /\ Decision(w, c[2]) \in Int
    BY <2>2, DecisionBounds DEF AllocationTypeOK, Candidates
  <2>4. left' \in [Candidates -> Int]
    BY <2>1, <2>3
  <2> QED
    BY <1>4, <2>1, <2>2, <2>4, DrawKeepsTypes DEF TakeGreedy, AllocationTypeOK
<1>5. CASE UNCHANGED vars
  BY <1>5 DEF vars, AllocationTypeOK
<1> QED
  BY <1>1, <1>2, <1>3, <1>4, <1>5 DEF Next

(* Where nothing has been decided yet, that no warehouse fits means that   *)
(* none has everything.                                                    *)
LEMMA NoFitNoneHasAll ==
    ASSUME AllocationTypeOK, RoundsInv, phase = "open", \A w \in Warehouses : ~Fits(w)
    PROVE  NoneHasAll
<1> SUFFICES ASSUME NEW w \in Warehouses, \A p \in Products : available[<<w, p>>] >= request[p]
             PROVE  FALSE
  BY DEF NoneHasAll
<1> QED
  BY DEF RoundsInv, Fits, Requested

LEMMA NextKeepsRounds ==
    AllocationTypeOK /\ RoundsInv /\ [Next]_vars => RoundsInv'
<1> SUFFICES ASSUME AllocationTypeOK, RoundsInv, [Next]_vars PROVE RoundsInv'
  OBVIOUS
<1>1. CASE Refuse
  BY <1>1 DEF Refuse, RoundsInv
<1>2. CASE TakeSingle
  <2>1. PICK w \in Warehouses : Fits(w) /\ Draw(w)
    BY <1>2 DEF TakeSingle
  <2>2. OneFills'
    BY <1>2, <2>1, FittingFills DEF TakeSingle, RoundsInv, OneFills
  <2> QED
    BY <1>2, <2>2 DEF TakeSingle, RoundsInv
<1>3. CASE TakeGreedy
  <2>1. NoneHasAll
    BY <1>3, NoFitNoneHasAll DEF TakeGreedy, RoundsInv
  <2>2. NoneHasAll'
    BY <1>3, <2>1 DEF TakeGreedy, NoneHasAll
  <2>3. phase' \in {"refused", "greedy", "done"}
    BY <1>3 DEF TakeGreedy
  <2> QED
    BY <2>2, <2>3 DEF RoundsInv
<1>4. CASE UNCHANGED vars
  BY <1>4 DEF vars, RoundsInv, NoneHasAll, OneFills, FilledBy
<1> QED
  BY <1>1, <1>2, <1>3, <1>4 DEF Next

(* The engine's quantities keep their types: what remains of a request is  *)
(* never negative, whatever warehouses the rounds choose.                  *)
THEOREM AllocationTyping ==
    Spec => []AllocationTypeOK
<1> QED
  BY InitEstablishesRounds, NextKeepsTypes, PTL DEF Spec

(* An order that one warehouse can fill is taken from one warehouse: the   *)
(* engine never splits it, for any products, warehouses and quantities.    *)
THEOREM NeverSplitsNeedlessly ==
    Spec => []OneWarehouseIfPossible
<1>1. RoundsInv => OneWarehouseIfPossible
  BY DEF RoundsInv, OneWarehouseIfPossible, NoneHasAll, OneFills
<1> QED
  BY <1>1, InitEstablishesRounds, NextKeepsTypes, NextKeepsRounds, PTL DEF Spec
-----------------------------------------------------------------------------
(* What has been drawn and what remains add up to the request, and a round *)
(* is only begun while some of it remains and the network had enough.      *)
SumsInv ==
    /\ Requested # {}
    /\ \A p \in Products : Drawn(p) + remaining[p] = request[p]
    /\ phase = "greedy" => /\ \A p \in Products : Network(p) >= request[p]
                           /\ \E p \in Requested : remaining[p] > 0
    /\ phase = "done" => \A p \in Products : remaining[p] = 0
    /\ phase = "refused" => \E p \in Products : Network(p) < request[p]

LEMMA SumsTyped ==
    ASSUME AllocationTypeOK, NEW p \in Products
    PROVE  /\ Drawn(p) \in Nat /\ Network(p) \in Nat
           /\ request[p] \in Nat /\ remaining[p] \in Nat
<1>1. /\ [w \in Warehouses |-> drawn[<<w, p>>]] \in [Warehouses -> Nat]
      /\ [w \in Warehouses |-> available[<<w, p>>]] \in [Warehouses -> Nat]
  BY DEF AllocationTypeOK, Candidates
<1>2. Drawn(p) \in Nat
  BY <1>1, TotalNat, AllocationAssumption DEF Drawn
<1>3. Network(p) \in Nat
  BY <1>1, TotalNat, AllocationAssumption DEF Network
<1> QED
  BY <1>2, <1>3 DEF AllocationTypeOK

(* The decisions of a warehouse move units from what remains to what is    *)
(* drawn.                                                                  *)
LEMMA DrawAddsUp ==
    ASSUME AllocationTypeOK, NEW w \in Warehouses, Draw(w), NEW p \in Products
    PROVE  Drawn(p)' + remaining'[p] = Drawn(p) + remaining[p]
<1> DEFINE f == [v \in Warehouses |-> drawn[<<v, p>>]]
           g == [v \in Warehouses |-> drawn'[<<v, p>>]]
<1>1. f \in [Warehouses -> Nat] /\ g \in [Warehouses -> Nat]
  BY DrawKeepsTypes DEF AllocationTypeOK, Candidates
<1>2. \A v \in Warehouses \ {w} : g[v] = f[v]
  BY DEF Draw, Candidates
<1>3. g[w] = f[w] + Decision(w, p)
  BY DEF Draw, Candidates
<1>4. Total(g) = Total(f) + g[w] - f[w]
  <2> HIDE DEF f, g
  <2> QED
    BY <1>1, <1>2, TotalGrows, AllocationAssumption
<1>5. Total(f) \in Nat /\ f[w] \in Nat /\ g[w] \in Nat
  <2>1. Total(f) \in Nat
    <3> HIDE DEF f
    <3> QED
      BY <1>1, TotalNat, AllocationAssumption
  <2> QED
    BY <1>1, <2>1
<1>6. Drawn(p) = Total(f) /\ Drawn(p)' = Total(g)
  BY DEF Drawn
<1>7. remaining'[p] = remaining[p] - Decision(w, p)
  BY DEF Draw
<1>8. Decision(w, p) \in Nat /\ remaining[p] \in Nat
  BY DecisionBounds DEF AllocationTypeOK
<1> HIDE DEF f, g
<1> QED
  BY <1>3, <1>4, <1>5, <1>6, <1>7, <1>8

(* Warehouses of no use have no unit of what still remains.                *)
LEMMA UselessLack ==
    ASSUME AllocationTypeOK, Useful = {}, NEW p \in Requested, remaining[p] > 0
    PROVE  Network(p) = 0
<1>1. p \in Products
  BY DEF Requested
<1>2. ASSUME NEW w \in Warehouses PROVE available[<<w, p>>] = 0
  <2>1. ~(Decision(w, p) > 0)
    BY DEF Useful
  <2>2. available[<<w, p>>] \in Nat /\ remaining[p] \in Nat
    BY <1>1 DEF AllocationTypeOK, Candidates
  <2> QED
    BY <2>1, <2>2 DEF Decision, Least
<1> DEFINE f == [w \in Warehouses |-> available[<<w, p>>]]
<1>3. f \in [Warehouses -> Nat] /\ \A w \in Warehouses : f[w] = 0
  BY <1>2
<1>4. Total(f) = 0
  <2> HIDE DEF f
  <2> QED
    BY <1>3, TotalZero
<1> QED
  BY <1>4 DEF Network

LEMMA InitEstablishesSums ==
    Init => SumsInv
<1> SUFFICES ASSUME Init PROVE SumsInv
  OBVIOUS
<1>1. AllocationTypeOK
  BY InitEstablishesRounds
<1>2. ASSUME NEW p \in Products PROVE Drawn(p) + remaining[p] = request[p]
  <2> DEFINE f == [w \in Warehouses |-> drawn[<<w, p>>]]
  <2>1. f \in [Warehouses -> Nat] /\ \A w \in Warehouses : f[w] = 0
    BY DEF Init, Candidates
  <2>2. Total(f) = 0
    <3> HIDE DEF f
    <3> QED
      BY <2>1, TotalZero
  <2>3. Drawn(p) = 0 /\ remaining[p] = request[p]
    BY <2>2 DEF Drawn, Init
  <2> QED
    BY <1>1, <2>3, SumsTyped
<1> QED
  BY <1>2 DEF Init, SumsInv

LEMMA NextKeepsSums ==
    AllocationTypeOK /\ RoundsInv /\ SumsInv /\ [Next]_vars => SumsInv'
<1> SUFFICES ASSUME AllocationTypeOK, RoundsInv, SumsInv, [Next]_vars PROVE SumsInv'
  OBVIOUS
<1>1. CASE Refuse
  <2>1. PICK p \in Requested : ~(Network(p) >= remaining[p])
    BY <1>1 DEF Refuse, NetworkCanSatisfy
  <2>2. p \in Products /\ remaining[p] = request[p]
    BY <1>1, <2>1 DEF Requested, Refuse, RoundsInv
  <2>3. Network(p) < request[p]
    BY <2>1, <2>2, SumsTyped
  <2> QED
    BY <1>1, <2>2, <2>3 DEF Refuse, SumsInv, Requested, Drawn, Network
<1>2. CASE TakeSingle
  <2>1. PICK w \in Warehouses : Fits(w) /\ Draw(w)
    BY <1>2 DEF TakeSingle
  <2>2. ASSUME NEW p \in Products PROVE remaining'[p] = 0
    <3>1. remaining[p] \in Nat /\ available[<<w, p>>] \in Nat
      BY DEF AllocationTypeOK, Candidates
    <3>2. remaining[p] > 0 => available[<<w, p>>] >= remaining[p]
      BY <1>2, <2>1, <3>1 DEF TakeSingle, RoundsInv, Fits, Requested
    <3>3. Decision(w, p) = remaining[p]
      BY <3>1, <3>2 DEF Decision, Least
    <3> QED
      BY <2>1, <3>1, <3>3 DEF Draw
  <2>3. ASSUME NEW p \in Products PROVE Drawn(p)' + remaining'[p] = request'[p]
    BY <1>2, <2>1, DrawAddsUp DEF TakeSingle, SumsInv
  <2> QED
    BY <1>2, <2>2, <2>3 DEF TakeSingle, SumsInv, Requested
<1>3. CASE TakeGreedy
  <2>1. ASSUME NEW p \in Products PROVE Network(p) >= request[p]
    <3>1. CASE phase = "open"
      <4>1. p \in Requested => Network(p) >= remaining[p]
        BY <1>3, <3>1 DEF TakeGreedy, NetworkCanSatisfy
      <4> QED
        BY <3>1, <4>1, SumsTyped DEF Requested, RoundsInv
    <3> QED
      BY <1>3, <3>1 DEF TakeGreedy, SumsInv
  <2>2. PICK p \in Requested : remaining[p] > 0
    <3>1. CASE phase = "open"
      BY <3>1 DEF SumsInv, RoundsInv, Requested
    <3> QED
      BY <1>3, <3>1 DEF TakeGreedy, SumsInv
  <2>3. Useful # {}
    <3>1. p \in Products
      BY DEF Requested
    <3>2. remaining[p] <= request[p]
      BY <3>1, SumsTyped DEF SumsInv
    <3> QED
      BY <2>1, <2>2, <3>1, <3>2, UselessLack, SumsTyped
  <2>4. PICK w \in Useful :
           /\ Draw(w)
           /\ phase' = IF \E q \in Requested : remaining'[q] > 0 THEN "greedy" ELSE "done"
    BY <1>3, <2>3 DEF TakeGreedy
  <2>5. w \in Warehouses
    BY DEF Useful
  <2>6. UNCHANGED <<request, available>>
    BY <1>3 DEF TakeGreedy
  <2>7. ASSUME NEW q \in Products PROVE Drawn(q)' + remaining'[q] = request'[q]
    BY <2>4, <2>5, <2>6, DrawAddsUp DEF SumsInv
  <2>8. ASSUME phase' = "done", NEW q \in Products PROVE remaining'[q] = 0
    <3>1. /\ remaining'[q] = remaining[q] - Decision(w, q)
          /\ Decision(w, q) \in Nat /\ remaining'[q] \in Nat
      BY <2>4, <2>5, DecisionBounds DEF Draw
    <3>2. q \in Requested => ~(remaining'[q] > 0)
      BY <2>4, <2>8
    <3>3. q \notin Requested => remaining[q] = 0
      BY SumsTyped DEF SumsInv, Requested
    <3> QED
      BY <3>1, <3>2, <3>3
  <2>9. Requested' = Requested /\ \A q \in Products : Network(q)' = Network(q)
    BY <2>6 DEF Requested, Network
  <2>10. phase' \in {"greedy", "done"} /\ (phase' = "greedy" => \E q \in Requested : remaining'[q] > 0)
    BY <2>4
  <2> QED
    BY <2>1, <2>6, <2>7, <2>8, <2>9, <2>10 DEF SumsInv
<1>4. CASE UNCHANGED vars
  BY <1>4 DEF vars, SumsInv, Requested, Drawn, Network
<1> QED
  BY <1>1, <1>2, <1>3, <1>4 DEF Next

(* An automatic order is allocated in full or refused for a shortage: the  *)
(* rounds never run out of warehouses while the network has the units, for *)
(* any products, warehouses and quantities.                                *)
THEOREM AllocatedInFull ==
    Spec => []AllOrNothing
<1>1. AllocationTypeOK /\ SumsInv => AllOrNothing
  <2> SUFFICES ASSUME AllocationTypeOK, SumsInv PROVE AllOrNothing
    OBVIOUS
  <2>1. ASSUME phase = "done", NEW p \in Products PROVE Drawn(p) = request[p]
    BY <2>1, SumsTyped DEF SumsInv
  <2> QED
    BY <2>1 DEF AllOrNothing, SumsInv
<1> QED
  BY <1>1, InitEstablishesRounds, InitEstablishesSums, NextKeepsTypes, NextKeepsRounds,
     NextKeepsSums, PTL DEF Spec
-----------------------------------------------------------------------------
(* An order of one product visits a warehouse at most once: between rounds *)
(* a level is either untouched or has been given whole.                    *)
Only(p) == Requested = {p}

OneInv ==
    \A p \in Products : Only(p) =>
        /\ \A c \in Candidates : drawn[c] <= available[c]
        /\ phase \in {"open", "greedy"} =>
              \A c \in Candidates : /\ drawn[c] \in {0, available[c]}
                                    /\ left[c] = available[c] - drawn[c]

LEMMA NothingForOthers ==
    ASSUME AllocationTypeOK, SumsInv, NEW p \in Products, Only(p),
           NEW q \in Products \ {p}, NEW w \in Warehouses
    PROVE  Decision(w, q) = 0
<1>1. request[q] = 0 /\ remaining[q] = 0
  BY SumsTyped DEF SumsInv, Only, Requested
<1>2. available[<<w, q>>] \in Nat
  BY DEF AllocationTypeOK, Candidates
<1> QED
  BY <1>1, <1>2 DEF Decision, Least

(* A warehouse that has given its level scores nothing.                    *)
LEMMA SpentScores ==
    ASSUME NEW p \in Products, Only(p), NEW w \in Warehouses, left[<<w, p>>] = 0
    PROVE  Lines(w) = 0 /\ Units(w) = 0
<1>1. Touched(w) = {}
  BY DEF Touched, Only
<1>2. {q \in Touched(w) : left[<<w, q>>] >= remaining[q]} = {}
  BY <1>1
<1>3. [q \in Touched(w) |-> Least(left[<<w, q>>], remaining[q])] \in [{} -> Nat]
  BY <1>1
<1>4. Units(w) = 0
  <2> DEFINE f == [q \in Touched(w) |-> Least(left[<<w, q>>], remaining[q])]
  <2>1. Total(f) = 0
    <3>1. f \in [{} -> Nat]
      BY <1>3
    <3> HIDE DEF f
    <3> QED
      BY <3>1, TotalZero
  <2> QED
    BY <2>1 DEF Units
<1> QED
  BY <1>2, <1>4, FS_EmptySet DEF Lines

(* An untouched warehouse with units to give does not.                     *)
LEMMA FreshScores ==
    ASSUME NEW p \in Products, Only(p), NEW w \in Warehouses,
           remaining[p] \in Nat, remaining[p] > 0,
           left[<<w, p>>] \in Nat, left[<<w, p>>] > 0
    PROVE  Lines(w) \in Nat /\ Units(w) \in Nat /\ Units(w) > 0
<1>1. Touched(w) = {p}
  BY DEF Touched, Only
<1>2. IsFiniteSet({p})
  BY FS_Singleton
<1>3. Lines(w) \in Nat
  <2>1. {q \in Touched(w) : left[<<w, q>>] >= remaining[q]} \in SUBSET {p}
    BY <1>1
  <2> QED
    BY <1>2, <2>1, FS_Subset, FS_CardinalityType DEF Lines
<1>4. Units(w) \in Nat /\ Units(w) > 0
  <2> DEFINE f == [q \in Touched(w) |-> Least(left[<<w, q>>], remaining[q])]
  <2>1. f \in [{p} -> Nat] /\ f[p] > 0
    BY <1>1 DEF Least
  <2>2. Total(f) \in Nat /\ Total(f) > 0
    <3>1. p \in {p}
      OBVIOUS
    <3> HIDE DEF f
    <3> QED
      BY <1>2, <2>1, <3>1, TotalNat, TotalPositive
  <2> QED
    BY <2>2 DEF Units
<1> QED
  BY <1>3, <1>4

LEMMA SpentNeverOutranks ==
    ASSUME NEW w, NEW v, Lines(w) = 0, Units(w) = 0,
           Lines(v) \in Nat, Units(v) \in Nat, Units(v) > 0
    PROVE  ~Outranks(w, v)
<1> SUFFICES ASSUME Outranks(w, v) PROVE FALSE
  OBVIOUS
<1>1. PICK i \in 1..5 : /\ GreedyScore(w)[i] > GreedyScore(v)[i]
                        /\ \A j \in 1..(i - 1) : GreedyScore(w)[j] = GreedyScore(v)[j]
  <2>1. DOMAIN GreedyScore(w) = 1..5
    BY DEF GreedyScore
  <2> QED
    BY <2>1 DEF Outranks, Above
<1>2. /\ GreedyScore(w)[1] = 0 /\ GreedyScore(w)[2] = 0
      /\ GreedyScore(v)[1] = Lines(v) /\ GreedyScore(v)[2] = Units(v)
  BY DEF GreedyScore
<1>3. i = 1 \/ i = 2 \/ 2 \in 1..(i - 1)
  OBVIOUS
<1> QED
  BY <1>1, <1>2, <1>3

(* While something remains of the one product, a level that was not given  *)
(* yet has units, and so the round never goes to one that was.             *)
LEMMA SomeFresh ==
    ASSUME AllocationTypeOK, NEW p \in Products, remaining[p] > 0,
           Drawn(p) + remaining[p] = request[p], Network(p) >= request[p]
    PROVE  \E v \in Warehouses : drawn[<<v, p>>] < available[<<v, p>>]
<1> SUFFICES ASSUME \A v \in Warehouses : ~(drawn[<<v, p>>] < available[<<v, p>>])
             PROVE  FALSE
  OBVIOUS
<1> DEFINE f == [v \in Warehouses |-> available[<<v, p>>]]
           g == [v \in Warehouses |-> drawn[<<v, p>>]]
<1>1. /\ f \in [Warehouses -> Nat] /\ g \in [Warehouses -> Nat]
      /\ \A v \in Warehouses : f[v] <= g[v]
  BY DEF AllocationTypeOK, Candidates
<1>2. Total(f) <= Total(g)
  <2> HIDE DEF f, g
  <2> QED
    BY <1>1, TotalMonotone, AllocationAssumption
<1>3. Network(p) <= Drawn(p)
  BY <1>2 DEF Network, Drawn
<1> QED
  BY <1>3, SumsTyped

LEMMA RoundGoesToFresh ==
    ASSUME AllocationTypeOK, SumsInv, OneInv, NEW p \in Products, Only(p),
           phase \in {"open", "greedy"}, remaining[p] > 0, Network(p) >= request[p],
           NEW w \in Useful, \A v \in Useful \ {w} : Outranks(w, v)
    PROVE  drawn[<<w, p>>] = 0
<1> SUFFICES ASSUME drawn[<<w, p>>] # 0 PROVE FALSE
  OBVIOUS
<1>1. w \in Warehouses
  BY DEF Useful
<1>2. <<w, p>> \in Candidates
  BY <1>1 DEF Candidates
<1>3. left[<<w, p>>] = 0 /\ drawn[<<w, p>>] = available[<<w, p>>]
  BY <1>2 DEF OneInv, AllocationTypeOK
<1>4. PICK v \in Warehouses : drawn[<<v, p>>] < available[<<v, p>>]
  BY SomeFresh DEF SumsInv
<1>5. <<v, p>> \in Candidates
  BY DEF Candidates
<1>6. /\ available[<<v, p>>] \in Nat /\ available[<<v, p>>] > 0
      /\ left[<<v, p>>] = available[<<v, p>>]
  BY <1>4, <1>5 DEF OneInv, AllocationTypeOK
<1>7. v # w
  BY <1>2, <1>3, <1>4 DEF AllocationTypeOK
<1>8. remaining[p] \in Nat /\ p \in Requested
  BY DEF AllocationTypeOK, Only
<1>9. v \in Useful
  BY <1>6, <1>8 DEF Useful, Decision, Least
<1>10. Lines(w) = 0 /\ Units(w) = 0
  BY <1>1, <1>3, SpentScores
<1>11. Lines(v) \in Nat /\ Units(v) \in Nat /\ Units(v) > 0
  BY <1>6, <1>8, FreshScores
<1> QED
  BY <1>7, <1>9, <1>10, <1>11, SpentNeverOutranks

LEMMA NextKeepsOne ==
    AllocationTypeOK /\ RoundsInv /\ SumsInv /\ OneInv /\ [Next]_vars => OneInv'
<1> SUFFICES ASSUME AllocationTypeOK, RoundsInv, SumsInv, OneInv, [Next]_vars,
                    NEW p \in Products, Only(p)'
             PROVE  /\ \A c \in Candidates : drawn'[c] <= available'[c]
                    /\ phase' \in {"open", "greedy"} =>
                          \A c \in Candidates : /\ drawn'[c] \in {0, available'[c]}
                                                /\ left'[c] = available'[c] - drawn'[c]
  BY DEF OneInv
<1>1. UNCHANGED <<request, available>>
  BY DEF Next, Refuse, TakeSingle, TakeGreedy, vars
<1>2. Only(p)
  BY <1>1 DEF Only, Requested
<1>3. CASE Refuse
  BY <1>2, <1>3 DEF Refuse, OneInv
<1>4. CASE TakeSingle
  <2>1. PICK w \in Warehouses : Draw(w)
    BY <1>4 DEF TakeSingle
  <2>2. ASSUME NEW c \in Candidates PROVE drawn'[c] <= available[c]
    <3>1. c[1] \in Warehouses /\ c[2] \in Products /\ c = <<c[1], c[2]>>
      BY DEF Candidates
    <3>2. available[c] \in Nat /\ remaining[c[2]] \in Nat /\ drawn[c] = 0
      BY <1>4, <3>1 DEF AllocationTypeOK, TakeSingle, RoundsInv
    <3>3. CASE c[1] = w
      <4>1. drawn'[c] = Decision(w, c[2]) /\ available[<<w, c[2]>>] = available[c]
        BY <2>1, <3>1, <3>2, <3>3, DecisionBounds DEF Draw
      <4> QED
        BY <3>2, <4>1 DEF Decision, Least
    <3>4. CASE c[1] # w
      BY <2>1, <3>2, <3>4 DEF Draw
    <3> QED
      BY <3>3, <3>4
  <2> QED
    BY <1>1, <1>4, <2>2 DEF TakeSingle
<1>5. CASE TakeGreedy
  <2>1. CASE Useful = {}
    BY <1>2, <1>5, <2>1 DEF TakeGreedy, OneInv
  <2>2. CASE Useful # {}
    <3>1. PICK w \in Useful :
             /\ \A v \in Useful \ {w} : Outranks(w, v)
             /\ Draw(w)
             /\ left' = [c \in Candidates |->
                   IF c[1] = w THEN left[c] - Decision(w, c[2]) ELSE left[c]]
             /\ phase' = IF \E q \in Requested : remaining'[q] > 0 THEN "greedy" ELSE "done"
      BY <1>5, <2>2 DEF TakeGreedy
    <3>2. w \in Warehouses
      BY DEF Useful
    <3>3. /\ phase \in {"open", "greedy"}
          /\ remaining[p] > 0 /\ Network(p) >= request[p]
      <4>1. p \in Requested /\ (phase = "open" => remaining = request)
        BY <1>2 DEF Only, RoundsInv
      <4> QED
        BY <1>2, <1>5, <4>1 DEF TakeGreedy, SumsInv, NetworkCanSatisfy, Requested, Only
    <3>4. drawn[<<w, p>>] = 0
      BY <1>2, <3>1, <3>3, RoundGoesToFresh
    <3>5. /\ available[<<w, p>>] \in Nat /\ remaining[p] \in Nat
          /\ left[<<w, p>>] = available[<<w, p>>]
      BY <1>2, <3>2, <3>3, <3>4 DEF AllocationTypeOK, Candidates, OneInv
    <3>6. /\ drawn'[<<w, p>>] = Decision(w, p)
          /\ left'[<<w, p>>] = available[<<w, p>>] - Decision(w, p)
          /\ remaining'[p] = remaining[p] - Decision(w, p)
      BY <3>1, <3>2, <3>4, <3>5 DEF Draw, Candidates, Decision, Least
    <3>7. ASSUME NEW c \in Candidates, c # <<w, p>> PROVE drawn'[c] = drawn[c] /\ left'[c] = left[c]
      <4>1. c[1] \in Warehouses /\ c[2] \in Products /\ c = <<c[1], c[2]>>
        BY DEF Candidates
      <4>2. drawn[c] \in Nat /\ left[c] \in Int
        BY DEF AllocationTypeOK
      <4>3. CASE c[1] # w
        BY <3>1, <4>3 DEF Draw
      <4>4. CASE c[1] = w
        <5>1. c[2] # p
          BY <3>7, <4>1, <4>4
        <5>2. Decision(w, c[2]) = 0
          BY <1>2, <3>2, <4>1, <5>1, NothingForOthers
        <5> QED
          BY <3>1, <4>2, <4>4, <5>2 DEF Draw
      <4> QED
        BY <4>3, <4>4
    <3>8. Decision(w, p) \in Nat /\ Decision(w, p) <= available[<<w, p>>]
      BY <3>5 DEF Decision, Least
    <3>9. phase' \in {"open", "greedy"} => Decision(w, p) = available[<<w, p>>]
      <4> SUFFICES ASSUME phase' \in {"open", "greedy"} PROVE Decision(w, p) = available[<<w, p>>]
        OBVIOUS
      <4>1. remaining'[p] > 0
        BY <1>2, <3>1 DEF Only
      <4> QED
        BY <3>5, <3>6, <4>1 DEF Decision, Least
    <3>10. ASSUME NEW c \in Candidates, c = <<w, p>>
           PROVE  /\ drawn'[c] <= available[c]
                  /\ phase' \in {"open", "greedy"} =>
                        drawn'[c] \in {0, available[c]} /\ left'[c] = available[c] - drawn'[c]
      BY <3>5, <3>6, <3>8, <3>9, <3>10
    <3>11. ASSUME NEW c \in Candidates, c # <<w, p>>
           PROVE  /\ drawn'[c] <= available[c]
                  /\ phase' \in {"open", "greedy"} =>
                        drawn'[c] \in {0, available[c]} /\ left'[c] = available[c] - drawn'[c]
      BY <1>2, <3>3, <3>7, <3>11 DEF OneInv
    <3> QED
      BY <1>1, <3>10, <3>11
  <2> QED
    BY <2>1, <2>2
<1>6. CASE UNCHANGED vars
  BY <1>2, <1>6 DEF vars, OneInv
<1> QED
  BY <1>3, <1>4, <1>5, <1>6 DEF Next

(* No level gives an order of one product more than it has, although each  *)
(* round caps its decisions with the availability from before the first.   *)
THEOREM OneProductNeverOverdraws ==
    Spec => []OneProductFits
<1>1. Init => OneInv
  <2> SUFFICES ASSUME Init, NEW p \in Products PROVE OneInv
    BY DEF OneInv
  <2>1. \A c \in Candidates : drawn[c] = 0 /\ left[c] = available[c] /\ available[c] \in Nat
    BY AllocationAssumption DEF Init
  <2> QED
    BY <2>1 DEF OneInv
<1>2. AllocationTypeOK /\ OneInv => OneProductFits
  <2> SUFFICES ASSUME AllocationTypeOK, OneInv, Cardinality(Requested) = 1
               PROVE  \A c \in Candidates : drawn[c] <= available[c]
    BY DEF OneProductFits
  <2>1. Requested \in SUBSET Products
    BY DEF Requested
  <2>2. IsFiniteSet(Requested)
    BY <2>1, FS_Subset, AllocationAssumption
  <2>3. PICK p : Requested = {p}
    BY <2>2, FS_Singleton
  <2>4. p \in Products /\ Only(p)
    BY <2>1, <2>3 DEF Only
  <2> QED
    BY <2>4 DEF OneInv
<1> QED
  BY <1>1, <1>2, InitEstablishesRounds, InitEstablishesSums, NextKeepsTypes, NextKeepsRounds,
     NextKeepsSums, NextKeepsOne, PTL DEF Spec
-----------------------------------------------------------------------------
(* What others may rely on: Stock's Decided takes the decisions of a       *)
(* finished request for this and nothing more.                             *)
DecidedAsPromised ==
    phase = "done" =>
        /\ \A c \in Candidates : drawn[c] > 0 => available[c] > 0
        /\ \A p \in Products : Drawn(p) <= Network(p)
        /\ ~NoneHasAll => DecisionsFit /\ OneFills
        /\ Cardinality(Requested) = 1 => DecisionsFit

AmpleFills ==
    \E w \in Warehouses : FilledBy(w) /\ \A p \in Products : available[<<w, p>>] >= request[p]

ContractInv ==
    /\ \A c \in Candidates : drawn[c] > 0 => available[c] > 0
    /\ phase = "done" => /\ NoneHasAll \/ AmpleFills
                         /\ \A p \in Products : Network(p) >= request[p]

LEMMA DrawFromOffers ==
    ASSUME AllocationTypeOK, UNCHANGED available, NEW w \in Warehouses, Draw(w),
           \A c \in Candidates : drawn[c] > 0 => available[c] > 0
    PROVE  (\A c \in Candidates : drawn[c] > 0 => available[c] > 0)'
<1> SUFFICES ASSUME NEW c \in Candidates, drawn'[c] > 0 PROVE available[c] > 0
  OBVIOUS
<1>1. c = <<c[1], c[2]>> /\ c[2] \in Products /\ drawn[c] \in Nat /\ available[c] \in Nat
  BY DEF Candidates, AllocationTypeOK
<1>2. drawn'[c] = IF c[1] = w THEN drawn[c] + Decision(w, c[2]) ELSE drawn[c]
  BY DEF Draw
<1>3. CASE c[1] = w
  <2>1. c = <<w, c[2]>> /\ remaining[c[2]] \in Nat
    BY <1>1, <1>3 DEF AllocationTypeOK
  <2>2. Decision(w, c[2]) > 0 => available[c] > 0
    BY <1>1, <2>1 DEF Decision, Least
  <2>3. Decision(w, c[2]) \in Nat
    BY <1>1, DecisionBounds
  <2> QED
    BY <1>1, <1>2, <1>3, <2>2, <2>3
<1> QED
  BY <1>2, <1>3

LEMMA NextKeepsContract ==
    /\ AllocationTypeOK /\ RoundsInv /\ SumsInv /\ ContractInv /\ [Next]_vars
    => ContractInv'
<1> SUFFICES ASSUME AllocationTypeOK, RoundsInv, SumsInv, ContractInv, [Next]_vars
             PROVE  ContractInv'
  OBVIOUS
<1>1. CASE Refuse
  BY <1>1 DEF Refuse, ContractInv
<1>2. CASE TakeSingle
  <2>1. PICK w \in Warehouses : Fits(w) /\ Draw(w)
    BY <1>2 DEF TakeSingle
  <2>2. remaining = request /\ left = available /\ \A c \in Candidates : drawn[c] = 0
    BY <1>2 DEF TakeSingle, RoundsInv
  <2>3. FilledBy(w)'
    BY <1>2, <2>1, <2>2, FittingFills DEF TakeSingle
  <2>4. ASSUME NEW p \in Products
        PROVE  available[<<w, p>>] >= request[p] /\ Network(p) >= request[p]
    <3>1. request[p] \in Nat /\ available[<<w, p>>] \in Nat /\ Network(p) \in Nat
      BY SumsTyped DEF AllocationTypeOK, Candidates
    <3>2. CASE p \in Requested
      BY <1>2, <2>1, <2>2, <3>2 DEF TakeSingle, NetworkCanSatisfy, Fits
    <3>3. CASE p \notin Requested
      BY <3>1, <3>3 DEF Requested
    <3> QED
      BY <3>2, <3>3
  <2>5. AmpleFills'
    BY <1>2, <2>3, <2>4 DEF TakeSingle, AmpleFills
  <2>6. \A p \in Products : Network(p)' >= request'[p]
    BY <1>2, <2>4 DEF TakeSingle, Network
  <2> QED
    BY <1>2, <2>1, <2>5, <2>6, DrawFromOffers DEF TakeSingle, ContractInv
<1>3. CASE TakeGreedy /\ Useful = {}
  BY <1>3 DEF TakeGreedy, ContractInv
<1>4. CASE TakeGreedy /\ Useful # {}
  <2>1. PICK w \in Useful : Draw(w)
    BY <1>4 DEF TakeGreedy
  <2>2. w \in Warehouses /\ UNCHANGED <<request, available>>
    BY <1>4 DEF Useful, TakeGreedy
  <2>3. NoneHasAll
    BY <1>4, NoFitNoneHasAll DEF TakeGreedy, RoundsInv
  <2>4. NoneHasAll'
    BY <2>2, <2>3 DEF NoneHasAll
  <2>5. ASSUME NEW p \in Products PROVE Network(p) >= request[p]
    <3>1. request[p] \in Nat /\ Network(p) \in Nat
      BY SumsTyped
    <3>2. CASE phase = "greedy"
      BY <3>2 DEF SumsInv
    <3>3. CASE phase = "open" /\ NetworkCanSatisfy
      BY <3>1, <3>3 DEF NetworkCanSatisfy, Requested, RoundsInv
    <3> QED
      BY <1>4, <3>2, <3>3 DEF TakeGreedy
  <2>6. \A p \in Products : Network(p)' >= request'[p]
    BY <2>2, <2>5 DEF Network
  <2>7. (\A c \in Candidates : drawn[c] > 0 => available[c] > 0)'
    BY <2>1, <2>2, DrawFromOffers DEF ContractInv
  <2> QED
    BY <2>4, <2>6, <2>7 DEF ContractInv
<1>5. CASE UNCHANGED vars
  BY <1>5 DEF vars, ContractInv, NoneHasAll, AmpleFills, FilledBy, Network
<1> QED
  BY <1>1, <1>2, <1>3, <1>4, <1>5 DEF Next

(* The engine takes only of what has something to offer, of no product     *)
(* more than the network has, and never too much of a level if one         *)
(* warehouse has everything or one product is asked for (engine.go,        *)
(* Allocate): all that Stock assumes of it.                                *)
THEOREM EngineKeepsContract ==
    Spec => []DecidedAsPromised
<1>1. Init => ContractInv
  <2> SUFFICES ASSUME Init PROVE ContractInv
    OBVIOUS
  <2>1. \A c \in Candidates : drawn[c] = 0
    BY DEF Init
  <2> QED
    BY <2>1 DEF Init, ContractInv
<1>2. AllocationTypeOK /\ SumsInv /\ ContractInv /\ OneProductFits => DecidedAsPromised
  <2> SUFFICES ASSUME AllocationTypeOK, SumsInv, ContractInv, OneProductFits, phase = "done"
               PROVE  /\ \A p \in Products : Drawn(p) <= Network(p)
                      /\ ~NoneHasAll => DecisionsFit /\ OneFills
    BY DEF DecidedAsPromised, ContractInv, OneProductFits, DecisionsFit
  <2>1. ASSUME NEW p \in Products PROVE Drawn(p) <= Network(p)
    BY SumsTyped DEF SumsInv, ContractInv
  <2>2. ASSUME ~NoneHasAll PROVE DecisionsFit /\ OneFills
    <3>1. PICK w \in Warehouses :
             FilledBy(w) /\ \A p \in Products : available[<<w, p>>] >= request[p]
      BY <2>2 DEF ContractInv, AmpleFills
    <3>2. ASSUME NEW c \in Candidates PROVE drawn[c] <= available[c]
      <4>1. c = <<c[1], c[2]>> /\ c[2] \in Products /\ available[c] \in Nat
        BY DEF Candidates, AllocationTypeOK
      <4>2. drawn[c] = IF c[1] = w THEN request[c[2]] ELSE 0
        BY <3>1 DEF FilledBy
      <4>3. c[1] = w => available[c] >= request[c[2]]
        BY <3>1, <4>1
      <4>4. request[c[2]] \in Nat
        BY <4>1 DEF AllocationTypeOK
      <4> QED
        BY <4>1, <4>2, <4>3, <4>4
    <3> QED
      BY <3>1, <3>2 DEF DecisionsFit, OneFills
  <2> QED
    BY <2>1, <2>2
<1> QED
  BY <1>1, <1>2, InitEstablishesRounds, InitEstablishesSums, NextKeepsTypes, NextKeepsRounds,
     NextKeepsSums, NextKeepsContract, OneProductNeverOverdraws, PTL DEF Spec
=============================================================================
