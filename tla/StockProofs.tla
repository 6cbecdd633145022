---------------------------- MODULE StockProofs ----------------------------
(* Proofs about module Stock, for every number of levels, orders and       *)
(* walk-ins and for every bound.                                           *)
EXTENDS Stock, FiniteSetTheorems, TLAPS

-----------------------------------------------------------------------------
(* Typing.                                                                 *)

LEMMA TypeInit == StockInit => StockTypeOK
  BY StockAssumption DEF StockInit, StockTypeOK, Statuses, OrderStatuses

LEMMA ExpiredOnType ==
  ASSUME StockTypeOK, NEW ls, NEW started
  PROVE  ExpiredOn(ls, started) \in [Holds -> Statuses]
  BY DEF ExpiredOn, StockTypeOK, Statuses

LEMMA StartTimesType ==
  ASSUME StockTypeOK
  PROVE  StartTimes \subseteq Nat /\ now \in Nat /\ \A t \in StartTimes : t <= now
  BY StockAssumption DEF StartTimes, StockTypeOK

LEMMA TypeInventory == StockTypeOK /\ InventoryStep => StockTypeOK'
  <1> SUFFICES ASSUME StockTypeOK, NEW started \in StartTimes,
                      \/ \E w \in Walkins, l \in Levels, n \in 1..MaxQty :
                            Reserve(w, l, n, started)
                      \/ \E k \in Holds : Release(k, started)
                      \/ \E l \in Levels, delta \in (-MaxQty..MaxQty) \ {0} :
                            Adjust(l, delta, started)
               PROVE  StockTypeOK'
    BY DEF InventoryStep
  <1> USE StockAssumption, ExpiredOnType, StartTimesType
  <1>1. ASSUME NEW w \in Walkins, NEW l \in Levels, NEW n \in 1..MaxQty,
               Reserve(w, l, n, started)
        PROVE  StockTypeOK'
    BY <1>1 DEF Reserve, StockTypeOK, Statuses, Holds, Holders
  <1>2. ASSUME NEW k \in Holds, Release(k, started)
        PROVE  StockTypeOK'
    BY <1>2 DEF Release, StockTypeOK, Statuses, GivenUp
  <1>3. ASSUME NEW l \in Levels, NEW delta, Adjust(l, delta, started)
        PROVE  StockTypeOK'
    BY <1>3 DEF Adjust, StockTypeOK
  <1>4. QED BY <1>1, <1>2, <1>3

LEMMA TypeOrder == StockTypeOK /\ OrderStep => StockTypeOK'
  <1> SUFFICES ASSUME StockTypeOK, NEW started \in StartTimes, NEW o \in Orders,
                      NEW lines \in [Levels -> 0..MaxQty], NEW scanned,
                      PlaceOrder(o, lines, scanned, started)
               PROVE  StockTypeOK'
    BY DEF OrderStep, CreateOrder, AutoCreateOrder
  <1> USE StockAssumption, ExpiredOnType, StartTimesType DEF PlaceOrder, StockTypeOK
  <1>1. status' \in [Holds -> Statuses]
    BY DEF Statuses
  <1>2. qty' \in [Holds -> 0..MaxQty]
    BY DEF Holds
  <1>3. expiry' \in [Holds -> Nat]
    OBVIOUS
  <1>4. order' \in [Orders -> OrderStatuses]
    BY DEF OrderStatuses
  <1>5. QED BY <1>1, <1>2, <1>3, <1>4

LEMMA TypePayment == StockTypeOK /\ PaymentStep => StockTypeOK'
  <1> SUFFICES ASSUME StockTypeOK, NEW o \in Orders,
                      \/ \E started \in StartTimes : CancelOrder(o, started)
                      \/ HoldForPayment(o)
                      \/ CommitPayment(o)
                      \/ \E failed \in BOOLEAN : EndPayment(o, failed)
               PROVE  StockTypeOK'
    BY DEF PaymentStep
  <1> USE DEF StockTypeOK, Statuses, OrderStatuses
  <1>1. ASSUME NEW started, CancelOrder(o, started) PROVE StockTypeOK'
    BY <1>1 DEF CancelOrder, CloseOrder, GivenUp
  <1>2. CASE HoldForPayment(o)
    BY <1>2 DEF HoldForPayment
  <1>3. CASE CommitPayment(o)
    BY <1>3 DEF CommitPayment
  <1>4. ASSUME NEW failed, EndPayment(o, failed) PROVE StockTypeOK'
    BY <1>4 DEF EndPayment, GivenUp
  <1>5. QED BY <1>1, <1>2, <1>3, <1>4

LEMMA TypeFulfillment == StockTypeOK /\ FulfillmentStep => StockTypeOK'
  <1> SUFFICES ASSUME StockTypeOK, NEW o \in Orders, NEW ls \in SUBSET Levels,
                      Complete(o, ls)
               PROVE  StockTypeOK'
    BY DEF FulfillmentStep
  <1> USE StockAssumption DEF Complete, StockTypeOK
  <1>1. onHand' \in [Levels -> 0..MaxStock]
    <2> SUFFICES ASSUME NEW l \in ls
                 PROVE  onHand[l] - qty[<<o, l>>] \in 0..MaxStock
      OBVIOUS
    <2>1. <<o, l>> \in Holds
      BY DEF Holds, Holders
    <2> QED BY <2>1
  <1>2. status' \in [Holds -> Statuses]
    BY DEF Statuses
  <1>3. order' \in [Orders -> OrderStatuses]
    BY DEF OrderStatuses
  <1>4. QED BY <1>1, <1>2, <1>3

LEMMA TypeStep == StockTypeOK /\ [StockNext]_stockVars => StockTypeOK'
  <1>1. StockTypeOK /\ Tick => StockTypeOK'
    BY StockAssumption DEF Tick, StockTypeOK
  <1>2. StockTypeOK /\ UNCHANGED stockVars => StockTypeOK'
    BY DEF stockVars, StockTypeOK
  <1>3. QED
    BY <1>1, <1>2, TypeInventory, TypeOrder, TypePayment, TypeFulfillment
       DEF StockNext

(* The tables stay in their types: no on-hand quantity is ever negative    *)
(* and no operation writes a status the schema does not have.              *)
THEOREM StockTyping == StockSpec => []StockTypeOK
  BY TypeInit, TypeStep, PTL DEF StockSpec

-----------------------------------------------------------------------------
(* Counting units.                                                         *)

Line(k, q) == {u \in Units : u[1] = k /\ u[2] <= q}

LEMMA UnitsFinite ==
  \A l \in Levels : IsFiniteSet(ReservedUnits(l)) /\ Reserved(l) \in Nat
  <1>1. IsFiniteSet(Holders)
    BY StockAssumption, FS_Union DEF Holders
  <1>2. IsFiniteSet(Holds)
    BY <1>1, StockAssumption, FS_Product DEF Holds
  <1>a. IsFiniteSet(1..MaxQty)
    BY StockAssumption, FS_Interval
  <1>3. IsFiniteSet(Units)
    BY <1>2, <1>a, FS_Product DEF Units
  <1>4. \A l \in Levels : ReservedUnits(l) \in SUBSET Units
    BY DEF ReservedUnits
  <1>5. \A l \in Levels : IsFiniteSet(ReservedUnits(l))
    BY <1>3, <1>4, FS_Subset
  <1>6. QED BY <1>5, FS_CardinalityType DEF Reserved

(* A reservation of quantity q is q units.                                 *)
LEMMA LineSize ==
  ASSUME NEW k \in Holds, NEW q \in 0..MaxQty
  PROVE  IsFiniteSet(Line(k, q)) /\ Cardinality(Line(k, q)) = q
  <1> DEFINE f == [n \in 1..q |-> <<k, n>>]
  <1>1. Line(k, q) = {<<k, n>> : n \in 1..q}
    BY StockAssumption DEF Line, Units
  <1>2. f \in Bijection(1..q, Line(k, q))
    BY <1>1 DEF Bijection, Injection, Surjection, IsInjective
  <1>3. ExistsBijection(1..q, Line(k, q))
    BY <1>2 DEF ExistsBijection
  <1>4. IsFiniteSet(1..q) /\ Cardinality(1..q) = q
    BY FS_Interval
  <1>5. QED BY <1>3, <1>4, FS_Bijection

(* Units leave a level, none comes.                                        *)
LEMMA FewerUnits ==
  ASSUME NEW l \in Levels, ReservedUnits(l)' \subseteq ReservedUnits(l)
  PROVE  Reserved(l)' \in Nat /\ Reserved(l)' <= Reserved(l)
  <1>1. IsFiniteSet(ReservedUnits(l)) /\ ReservedUnits(l)' \in SUBSET ReservedUnits(l)
    BY UnitsFinite
  <1>2. Cardinality(ReservedUnits(l)') <= Cardinality(ReservedUnits(l))
    BY <1>1, FS_Subset
  <1>3. IsFiniteSet(ReservedUnits(l)')
    BY <1>1, FS_Subset
  <1>4. QED BY <1>2, <1>3, FS_CardinalityType DEF Reserved

(* One reservation of quantity q is added to a level.                      *)
LEMMA OneMoreLine ==
  ASSUME NEW l \in Levels, NEW k \in Holds, NEW q \in 0..MaxQty,
         ReservedUnits(l)' \subseteq ReservedUnits(l) \cup Line(k, q)
  PROVE  Reserved(l)' \in Nat /\ Reserved(l)' <= Reserved(l) + q
  <1> DEFINE both == ReservedUnits(l) \cup Line(k, q)
             new  == ReservedUnits(l)'
             meet == ReservedUnits(l) \cap Line(k, q)
  <1>1. /\ IsFiniteSet(ReservedUnits(l)) /\ Cardinality(ReservedUnits(l)) \in Nat
        /\ IsFiniteSet(Line(k, q)) /\ Cardinality(Line(k, q)) = q
    BY UnitsFinite, LineSize DEF Reserved
  <1>2. /\ IsFiniteSet(both)
        /\ Cardinality(both) =
              Cardinality(ReservedUnits(l)) + Cardinality(Line(k, q)) - Cardinality(meet)
    BY <1>1, FS_Union
  <1>3. meet \in SUBSET ReservedUnits(l) /\ new \in SUBSET both
    OBVIOUS
  <1>4. IsFiniteSet(meet) /\ Cardinality(meet) \in Nat
    BY <1>1, <1>3, FS_Subset, FS_CardinalityType
  <1>5. IsFiniteSet(new) /\ Cardinality(new) <= Cardinality(both)
    BY <1>2, <1>3, FS_Subset
  <1>6. Cardinality(new) \in Nat
    BY <1>5, FS_CardinalityType
  <1>7. Cardinality(new) <= Cardinality(ReservedUnits(l)) + q
    BY <1>1, <1>2, <1>4, <1>5, <1>6, FS_CardinalityType
  <1>8. QED BY <1>6, <1>7 DEF Reserved

(* One reservation of quantity q leaves a level.                           *)
LEMMA OneLineLess ==
  ASSUME NEW l \in Levels, NEW k \in Holds, NEW q \in 0..MaxQty,
         Line(k, q) \subseteq ReservedUnits(l),
         ReservedUnits(l)' \subseteq ReservedUnits(l) \ Line(k, q)
  PROVE  Reserved(l)' \in Nat /\ Reserved(l)' <= Reserved(l) - q
  <1> DEFINE new == ReservedUnits(l)'
  <1>1. /\ IsFiniteSet(ReservedUnits(l)) /\ Cardinality(ReservedUnits(l)) \in Nat
        /\ IsFiniteSet(Line(k, q)) /\ Cardinality(Line(k, q)) = q
    BY UnitsFinite, LineSize DEF Reserved
  <1>2. new \in SUBSET ReservedUnits(l)
    OBVIOUS
  <1>3. IsFiniteSet(new)
    BY <1>1, <1>2, FS_Subset
  <1>4. Cardinality(new) \in Nat
    BY <1>3, FS_CardinalityType
  <1>5. /\ IsFiniteSet(new \cup Line(k, q))
        /\ Cardinality(new \cup Line(k, q)) =
              Cardinality(new) + q - Cardinality(new \cap Line(k, q))
    BY <1>1, <1>3, FS_Union
  <1>6. new \cap Line(k, q) = {} /\ new \cup Line(k, q) \in SUBSET ReservedUnits(l)
    OBVIOUS
  <1>7. Cardinality(new \cap Line(k, q)) = 0
    BY <1>6, FS_EmptySet
  <1>8. Cardinality(new \cup Line(k, q)) <= Cardinality(ReservedUnits(l))
    BY <1>1, <1>6, FS_Subset
  <1>9. QED BY <1>1, <1>4, <1>5, <1>7, <1>8 DEF Reserved

-----------------------------------------------------------------------------
(* No oversell.                                                            *)

(* The one thing the stock leaves to others: AutoCreateOrder places what   *)
(* the allocation engine decided, and with several products in several     *)
(* warehouses that may be more than a level has.  This says that it never  *)
(* is; what rests on it names it as a hypothesis.                          *)
DecisionsAreWithin ==
    \A started \in StartTimes, o \in Orders, lines \in [Levels -> 0..MaxQty],
       scanned \in SUBSET Levels :
          AutoCreateOrder(o, lines, scanned, started) => WithinAvailable(lines)

AutoOrdersFit == [][DecisionsAreWithin]_stockVars

NoOversellInv == StockTypeOK /\ NoOversell

(* Lazy expiry only touches reservations that count no more.               *)
LEMMA ExpiryChangesNothing ==
  ASSUME StockTypeOK, NEW ls, NEW started \in StartTimes, NEW k \in Holds
  PROVE  /\ ExpiredOn(ls, started)[k] = status[k]
            \/ /\ ExpiredOn(ls, started)[k] = "expired"
               /\ status[k] = "active" /\ ~Effective(k)
  BY StartTimesType, StockAssumption DEF ExpiredOn, Effective, StockTypeOK

(* If stock stays and no reservation becomes effective, nothing is oversold. *)
LEMMA NothingAdded ==
  ASSUME NoOversellInv, StockTypeOK', UNCHANGED <<onHand, qty>>,
         \A k \in Holds : Effective(k)' => Effective(k)
  PROVE  NoOversell'
  <1> SUFFICES ASSUME NEW l \in Levels PROVE (Reserved(l) <= onHand[l])'
    BY DEF NoOversell
  <1>1. ReservedUnits(l)' \subseteq ReservedUnits(l)
    BY DEF ReservedUnits, Units
  <1>2. Reserved(l)' \in Nat /\ Reserved(l)' <= Reserved(l)
    BY <1>1, FewerUnits
  <1>3. QED BY <1>2, UnitsFinite DEF NoOversellInv, NoOversell, StockTypeOK

LEMMA NoOversellInit == StockInit => NoOversell
  <1> SUFFICES ASSUME StockInit, NEW l \in Levels PROVE Reserved(l) <= onHand[l]
    BY DEF NoOversell
  <1>1. ReservedUnits(l) = {}
    BY DEF StockInit, ReservedUnits, Units, Effective
  <1>2. Reserved(l) = 0
    BY <1>1, FS_EmptySet DEF Reserved
  <1>3. QED BY <1>2, StockAssumption DEF StockInit

LEMMA NoOversellReserve ==
  ASSUME NoOversellInv, StockTypeOK', NEW started \in StartTimes,
         NEW w \in Walkins, NEW l \in Levels, NEW n \in 1..MaxQty,
         Reserve(w, l, n, started)
  PROVE  NoOversell'
  <1> SUFFICES ASSUME NEW m \in Levels PROVE (Reserved(m) <= onHand[m])'
    BY DEF NoOversell
  <1> USE DEF NoOversellInv
  <1>1. <<w, l>> \in Holds
    BY DEF Holds, Holders
  <1>2. \A k \in Holds \ {<<w, l>>} : qty'[k] = qty[k] /\ (Effective(k)' => Effective(k))
    BY <1>1, ExpiryChangesNothing DEF Reserve, Effective, StockTypeOK, ExpiredOn
  <1>3. CASE m = l
    <2>1. ReservedUnits(l)' \subseteq ReservedUnits(l) \cup Line(<<w, l>>, n)
      BY <1>1, <1>2 DEF ReservedUnits, Line, Units, Reserve, StockTypeOK
    <2>2. Reserved(l)' \in Nat /\ Reserved(l)' <= Reserved(l) + n
      BY <1>1, <2>1, OneMoreLine, StockAssumption
    <2>3. QED BY <1>3, <2>2, UnitsFinite DEF Reserve, Available, StockTypeOK
  <1>4. CASE m # l
    <2>1. ReservedUnits(m)' \subseteq ReservedUnits(m)
      BY <1>2, <1>4 DEF ReservedUnits, Units
    <2>2. QED BY <2>1, FewerUnits, UnitsFinite DEF Reserve, NoOversell, StockTypeOK
  <1>5. QED BY <1>3, <1>4

LEMMA NoOversellAdjust ==
  ASSUME NoOversellInv, StockTypeOK', NEW started \in StartTimes,
         NEW l \in Levels, NEW delta \in Int, Adjust(l, delta, started)
  PROVE  NoOversell'
  <1> SUFFICES ASSUME NEW m \in Levels PROVE (Reserved(m) <= onHand[m])'
    BY DEF NoOversell
  <1> USE DEF NoOversellInv
  <1>1. \A k \in Holds : Effective(k)' => Effective(k)
    BY ExpiryChangesNothing DEF Adjust, Effective
  <1>2. ReservedUnits(m)' \subseteq ReservedUnits(m)
    BY <1>1 DEF ReservedUnits, Units, Adjust
  <1>3. Reserved(m)' \in Nat /\ Reserved(m)' <= Reserved(m)
    BY <1>2, FewerUnits
  <1>4. Reserved(m) <= onHand'[m]
    BY DEF Adjust, NoOversell, StockTypeOK
  <1>5. QED BY <1>3, <1>4, UnitsFinite DEF StockTypeOK

LEMMA NoOversellPlaceOrder ==
  ASSUME NoOversellInv, StockTypeOK', NEW started \in StartTimes,
         NEW o \in Orders, NEW lines \in [Levels -> 0..MaxQty], NEW scanned,
         PlaceOrder(o, lines, scanned, started), WithinAvailable(lines)
  PROVE  NoOversell'
  <1> SUFFICES ASSUME NEW l \in Levels PROVE (Reserved(l) <= onHand[l])'
    BY DEF NoOversell
  <1> USE DEF NoOversellInv
  <1>1. <<o, l>> \in Holds
    BY DEF Holds, Holders
  <1>2. \A k \in Holds : k[1] # o \/ lines[k[2]] = 0 =>
           qty'[k] = qty[k] /\ (Effective(k)' => Effective(k))
    BY ExpiryChangesNothing DEF PlaceOrder, Effective
  <1>3. CASE lines[l] > 0
    <2>1. ReservedUnits(l)' \subseteq ReservedUnits(l) \cup Line(<<o, l>>, lines[l])
      BY <1>1, <1>2 DEF ReservedUnits, Line, Units, PlaceOrder, Holds
    <2>2. Reserved(l)' \in Nat /\ Reserved(l)' <= Reserved(l) + lines[l]
      BY <1>1, <2>1, OneMoreLine
    <2>3. lines[l] <= onHand[l] - Reserved(l)
      BY <1>3 DEF WithinAvailable, Available
    <2>4. QED BY <2>2, <2>3, UnitsFinite DEF PlaceOrder, StockTypeOK
  <1>4. CASE lines[l] = 0
    <2>1. ReservedUnits(l)' \subseteq ReservedUnits(l)
      BY <1>2, <1>4 DEF ReservedUnits, Units
    <2>2. QED BY <2>1, FewerUnits, UnitsFinite DEF PlaceOrder, NoOversell, StockTypeOK
  <1>5. QED BY <1>3, <1>4

LEMMA NoOversellPayment ==
  ASSUME NoOversellInv, StockTypeOK', PaymentStep
  PROVE  NoOversell'
  <1> USE DEF NoOversellInv
  <1>1. UNCHANGED <<onHand, qty>>
    BY DEF PaymentStep, CancelOrder, CloseOrder, HoldForPayment, CommitPayment, EndPayment
  <1>2. \A k \in Holds : Effective(k)' => Effective(k)
    <2> SUFFICES ASSUME NEW k \in Holds, Effective(k)' PROVE Effective(k)
      OBVIOUS
    <2> PICK o \in Orders :
           \/ \E started \in StartTimes : CancelOrder(o, started)
           \/ HoldForPayment(o)
           \/ CommitPayment(o)
           \/ \E failed \in BOOLEAN : EndPayment(o, failed)
      BY DEF PaymentStep
    <2>1. ASSUME NEW started \in StartTimes, CancelOrder(o, started) PROVE Effective(k)
      BY <2>1 DEF CancelOrder, CloseOrder, Effective, GivenUp
    <2>2. CASE HoldForPayment(o)
      BY <2>2 DEF HoldForPayment, AllHolds, Effective
    <2>3. CASE CommitPayment(o)
      BY <2>3 DEF CommitPayment, AllHolds, Effective
    <2>4. ASSUME NEW failed \in BOOLEAN, EndPayment(o, failed) PROVE Effective(k)
      BY <2>4 DEF EndPayment, AllHolds, Effective, GivenUp
    <2>5. QED BY <2>1, <2>2, <2>3, <2>4
  <1>3. QED BY <1>1, <1>2, NothingAdded

LEMMA NoOversellComplete ==
  ASSUME NoOversellInv, StockTypeOK', NEW o \in Orders, NEW ls \in SUBSET Levels,
         Complete(o, ls)
  PROVE  NoOversell'
  <1> SUFFICES ASSUME NEW l \in Levels PROVE (Reserved(l) <= onHand[l])'
    BY DEF NoOversell
  <1> USE DEF NoOversellInv
  <1>1. <<o, l>> \in Holds
    BY DEF Holds, Holders
  <1>2. qty' = qty /\ \A k \in Holds : Effective(k)' => Effective(k)
    BY DEF Complete, Effective
  <1>3. CASE l \in ls
    <2>1. status[<<o, l>>] = "committed" /\ status'[<<o, l>>] = "consumed"
      BY <1>1, <1>3 DEF Complete
    <2>2. Line(<<o, l>>, qty[<<o, l>>]) \subseteq ReservedUnits(l)
      BY <2>1 DEF Line, ReservedUnits, Effective
    <2>3. ReservedUnits(l)' \subseteq ReservedUnits(l) \ Line(<<o, l>>, qty[<<o, l>>])
      BY <1>2, <2>1 DEF Line, ReservedUnits, Units, Effective
    <2>4. qty[<<o, l>>] \in 0..MaxQty
      BY <1>1 DEF StockTypeOK
    <2>5. Reserved(l)' \in Nat /\ Reserved(l)' <= Reserved(l) - qty[<<o, l>>]
      BY <1>1, <2>2, <2>3, <2>4, OneLineLess
    <2>6. onHand'[l] = onHand[l] - qty[<<o, l>>]
      BY <1>3 DEF Complete
    <2>7. QED BY <2>4, <2>5, <2>6, UnitsFinite DEF NoOversell, StockTypeOK
  <1>4. CASE l \notin ls
    <2>1. ReservedUnits(l)' \subseteq ReservedUnits(l)
      BY <1>2 DEF ReservedUnits, Units
    <2>2. onHand'[l] = onHand[l]
      BY <1>4 DEF Complete
    <2>3. QED BY <2>1, <2>2, FewerUnits, UnitsFinite DEF NoOversell, StockTypeOK
  <1>5. QED BY <1>3, <1>4

LEMMA NoOversellStep ==
  /\ NoOversellInv /\ StockTypeOK'
  /\ [StockNext]_stockVars /\ [DecisionsAreWithin]_stockVars
  => NoOversell'
  <1> SUFFICES ASSUME NoOversellInv, StockTypeOK', [StockNext]_stockVars,
                      [DecisionsAreWithin]_stockVars
               PROVE  NoOversell'
    OBVIOUS
  <1> USE DEF NoOversellInv
  <1>1. CASE InventoryStep
    <2> PICK started \in StartTimes :
           \/ \E w \in Walkins, l \in Levels, n \in 1..MaxQty :
                 Reserve(w, l, n, started)
           \/ \E k \in Holds : Release(k, started)
           \/ \E l \in Levels, delta \in (-MaxQty..MaxQty) \ {0} :
                 Adjust(l, delta, started)
      BY <1>1 DEF InventoryStep
    <2>1. ASSUME NEW k \in Holds, Release(k, started) PROVE NoOversell'
      <3>1. \A j \in Holds : Effective(j)' => Effective(j)
        BY <2>1, ExpiryChangesNothing DEF Release, Effective, GivenUp, StockTypeOK, ExpiredOn
      <3>2. QED BY <2>1, <3>1, NothingAdded DEF Release
    <2>2. QED BY <2>1, NoOversellReserve, NoOversellAdjust, StockAssumption
  <1>2. CASE OrderStep
    <2> PICK started \in StartTimes, o \in Orders, lines \in [Levels -> 0..MaxQty] :
           \/ CreateOrder(o, lines, started)
           \/ \E scanned \in SUBSET Levels : AutoCreateOrder(o, lines, scanned, started)
      BY <1>2 DEF OrderStep
    <2>1. CASE CreateOrder(o, lines, started)
      BY <2>1, NoOversellPlaceOrder DEF CreateOrder
    <2>2. ASSUME NEW scanned \in SUBSET Levels,
                 AutoCreateOrder(o, lines, scanned, started)
          PROVE  NoOversell'
      <3>1. PlaceOrder(o, lines, scanned, started)
        BY <2>2 DEF AutoCreateOrder
      <3>2. order' # order
        BY <3>1 DEF PlaceOrder, StockTypeOK
      <3>3. DecisionsAreWithin
        BY <3>2 DEF stockVars
      <3>4. WithinAvailable(lines)
        BY <2>2, <3>3 DEF DecisionsAreWithin
      <3>5. QED BY <3>1, <3>4, NoOversellPlaceOrder
    <2>3. QED BY <2>1, <2>2
  <1>3. CASE PaymentStep
    BY <1>3, NoOversellPayment
  <1>4. CASE FulfillmentStep
    BY <1>4, NoOversellComplete DEF FulfillmentStep
  <1>5. CASE Tick
    <2>1. \A k \in Holds : Effective(k)' => Effective(k)
      BY <1>5 DEF Tick, Effective, StockTypeOK
    <2>2. QED BY <1>5, <2>1, NothingAdded DEF Tick
  <1>6. CASE UNCHANGED stockVars
    BY <1>6, NothingAdded DEF stockVars, Effective
  <1>7. QED BY <1>1, <1>2, <1>3, <1>4, <1>5, <1>6 DEF StockNext

(* No interleaving of direct reservations, orders, payments, releases,     *)
(* adjustments and shipments, and no lapse, oversells a level, unless the  *)
(* engine decides an automatic order beyond what is available: nothing     *)
(* else can.                                                               *)
THEOREM StockNeverOversold == StockSpec /\ AutoOrdersFit => []NoOversell
  <1>1. /\ StockTypeOK /\ NoOversell /\ StockTypeOK'
        /\ [StockNext]_stockVars /\ [DecisionsAreWithin]_stockVars
        => NoOversell'
    BY NoOversellStep DEF NoOversellInv
  <1>2. QED BY <1>1, NoOversellInit, StockTyping, PTL DEF StockSpec, AutoOrdersFit

-----------------------------------------------------------------------------
(* An order and its reservations.                                          *)

(* The conjuncts of OrderMatchesHolds for one order.                       *)
Story(o) ==
    LET seen == {status[k] : k \in HoldsOf(o)}
    IN  /\ order[o] = "none" <=> seen = {}
        /\ order[o] = "pending" =>
              \/ seen = {"payment_held"}
              \/ seen \subseteq {"active", "released", "expired"}
        /\ order[o] = "cancelled" => seen \subseteq {"released", "expired"}
        /\ order[o] = "paid" => seen = {"committed"}
        /\ order[o] = "partially_fulfilled" => seen = {"committed", "consumed"}
        /\ order[o] = "fulfilled" => seen = {"consumed"}

LEMMA StoryOfAll == OrderMatchesHolds <=> \A o \in Orders : Story(o)
  BY DEF OrderMatchesHolds, Story

(* An order whose reservations a step leaves alone keeps its story.        *)
LEMMA StoryKept ==
  ASSUME NEW o \in Orders, Story(o), order'[o] = order[o],
         \A k \in Holds : k[1] = o => status'[k] = status[k]
  PROVE  Story(o)'
  <1>1. HoldsOf(o)' = HoldsOf(o)
    BY DEF HoldsOf
  <1>2. {status[k] : k \in HoldsOf(o)}' = {status[k] : k \in HoldsOf(o)}
    BY <1>1 DEF HoldsOf
  <1>3. QED BY <1>2 DEF Story

(* Active reservations may be given up one by one.                         *)
LEMMA StoryOfGivingUp ==
  ASSUME NEW o \in Orders, StockTypeOK, Story(o), order'[o] = order[o],
         \A k \in Holds : k[1] = o =>
            \/ status'[k] = status[k]
            \/ status[k] = "active" /\ status'[k] \in {"released", "expired"}
  PROVE  Story(o)'
  <1>1. HoldsOf(o)' = HoldsOf(o)
    BY DEF HoldsOf
  <1>2. CASE \A k \in HoldsOf(o) : status[k] # "active"
    BY <1>2, StoryKept DEF HoldsOf
  <1>3. CASE \E k \in HoldsOf(o) : status[k] = "active"
    <2>1. order[o] = "pending" /\ \A k \in HoldsOf(o) : status[k] \in {"active", "released", "expired"}
      BY <1>3 DEF Story, StockTypeOK, OrderStatuses
    <2>2. \A k \in HoldsOf(o) : status'[k] \in {"active", "released", "expired"}
      BY <2>1 DEF HoldsOf
    <2>3. /\ {status[k] : k \in HoldsOf(o)}' # {}
          /\ {status[k] : k \in HoldsOf(o)}' \subseteq {"active", "released", "expired"}
      BY <1>1, <1>3, <2>2
    <2>4. order'[o] = "pending"
      BY <2>1
    <2>5. QED BY <2>3, <2>4 DEF Story
  <1>4. QED BY <1>2, <1>3

LEMMA StoryInventory ==
  ASSUME StockTypeOK, OrderMatchesHolds, InventoryStep
  PROVE  OrderMatchesHolds'
  <1> SUFFICES ASSUME NEW o \in Orders PROVE Story(o)'
    BY StoryOfAll DEF OrderMatchesHolds, Story
  <1> Story(o)
    BY StoryOfAll
  <1> PICK started \in StartTimes :
           \/ \E w \in Walkins, l \in Levels, n \in 1..MaxQty :
                 Reserve(w, l, n, started)
           \/ \E k \in Holds : Release(k, started)
           \/ \E l \in Levels, delta \in (-MaxQty..MaxQty) \ {0} :
                 Adjust(l, delta, started)
    BY DEF InventoryStep
  <1>1. ASSUME NEW w \in Walkins, NEW l \in Levels, NEW n \in 1..MaxQty,
               Reserve(w, l, n, started)
        PROVE  Story(o)'
    <2>1. \A k \in Holds : k[1] = o => k # <<w, l>>
      BY StockAssumption
    <2>2. \A k \in Holds : k[1] = o =>
             \/ status'[k] = status[k]
             \/ status[k] = "active" /\ status'[k] \in {"released", "expired"}
      BY <1>1, <2>1, ExpiryChangesNothing DEF Reserve, ExpiredOn
    <2>3. QED BY <1>1, <2>2, StoryOfGivingUp DEF Reserve
  <1>2. ASSUME NEW j \in Holds, Release(j, started)
        PROVE  Story(o)'
    <2>1. \A k \in Holds : \/ status'[k] = status[k]
                           \/ /\ status[k] = "active"
                              /\ status'[k] \in {"released", "expired"}
      BY <1>2, ExpiryChangesNothing DEF Release, ExpiredOn, GivenUp
    <2>2. QED BY <1>2, <2>1, StoryOfGivingUp DEF Release
  <1>3. ASSUME NEW l \in Levels, NEW delta, Adjust(l, delta, started)
        PROVE  Story(o)'
    BY <1>3, ExpiryChangesNothing, StoryOfGivingUp DEF Adjust
  <1>4. QED BY <1>1, <1>2, <1>3

LEMMA StoryOrder ==
  ASSUME StockTypeOK, OrderMatchesHolds, OrderStep
  PROVE  OrderMatchesHolds'
  <1> PICK started \in StartTimes, p \in Orders, lines \in [Levels -> 0..MaxQty],
           scanned \in SUBSET Levels : PlaceOrder(p, lines, scanned, started)
    BY DEF OrderStep, CreateOrder, AutoCreateOrder
  <1> SUFFICES ASSUME NEW o \in Orders PROVE Story(o)'
    BY StoryOfAll DEF OrderMatchesHolds, Story
  <1> Story(o)
    BY StoryOfAll
  <1> DEFINE placed == {k \in Holds : k[1] = p /\ lines[k[2]] > 0}
  <1>1. CASE o = p
    <2>1. \A k \in Holds : k[1] = o => status[k] = "none"
      BY <1>1 DEF PlaceOrder, Story, HoldsOf
    <2>2. \A k \in Holds : k[1] = o =>
             status'[k] = IF k \in placed THEN "active" ELSE "none"
      BY <1>1, <2>1 DEF PlaceOrder, ExpiredOn
    <2>3. HoldsOf(o)' = placed
      BY <1>1, <2>2 DEF HoldsOf
    <2>4. placed # {} /\ order'[o] = "pending"
      BY <1>1 DEF PlaceOrder, StockTypeOK
    <2>5. \A k \in HoldsOf(o)' : status'[k] = "active"
      BY <2>2, <2>3, <1>1
    <2>6. QED BY <2>3, <2>4, <2>5 DEF Story
  <1>2. CASE o # p
    <2>1. \A k \in Holds : k[1] = o =>
             \/ status'[k] = status[k]
             \/ status[k] = "active" /\ status'[k] = "expired"
      BY <1>2 DEF PlaceOrder, ExpiredOn
    <2>2. order'[o] = order[o]
      BY <1>2 DEF PlaceOrder, StockTypeOK
    <2>3. QED BY <2>1, <2>2, StoryOfGivingUp
  <1>3. QED BY <1>1, <1>2

LEMMA StoryPayment ==
  ASSUME StockTypeOK, OrderMatchesHolds, PaymentStep
  PROVE  OrderMatchesHolds'
  <1> PICK p \in Orders :
           \/ \E started \in StartTimes : CancelOrder(p, started)
           \/ HoldForPayment(p)
           \/ CommitPayment(p)
           \/ \E failed \in BOOLEAN : EndPayment(p, failed)
    BY DEF PaymentStep
  <1> SUFFICES ASSUME NEW o \in Orders PROVE Story(o)'
    BY StoryOfAll DEF OrderMatchesHolds, Story
  <1> Story(o) /\ order[o] \in OrderStatuses
    BY StoryOfAll DEF StockTypeOK
  <1>1. CASE o # p
    <2>1. order'[o] = order[o] /\ \A k \in Holds : k[1] = o => status'[k] = status[k]
      BY <1>1 DEF CancelOrder, CloseOrder, HoldForPayment, CommitPayment, EndPayment, HoldsOf, StockTypeOK
    <2>2. QED BY <2>1, StoryKept
  <1>2. CASE o = p
    <2> order[o] = "pending" /\ HoldsOf(o) # {}
      BY <1>2 DEF CancelOrder, CloseOrder, HoldForPayment, CommitPayment, EndPayment, Story
    <2> HoldsOf(o)' = HoldsOf(o)
      BY <1>2 DEF CancelOrder, CloseOrder, HoldForPayment, CommitPayment, EndPayment, HoldsOf, GivenUp
    <2>1. ASSUME NEW started, CancelOrder(o, started) PROVE Story(o)'
      <3>1. \A k \in HoldsOf(o) : status'[k] \in {"released", "expired"}
        BY <2>1 DEF CancelOrder, CloseOrder, Story, HoldsOf, GivenUp
      <3>2. order'[o] = "cancelled"
        BY <2>1 DEF CancelOrder, CloseOrder, StockTypeOK
      <3>3. QED BY <3>1, <3>2 DEF Story
    <2>2. CASE HoldForPayment(o)
      <3>1. \A k \in HoldsOf(o) : status'[k] = "payment_held"
        BY <2>2 DEF HoldForPayment, HoldsOf
      <3>2. order'[o] = "pending"
        BY <2>2 DEF HoldForPayment
      <3>3. QED BY <3>1, <3>2 DEF Story
    <2>3. CASE CommitPayment(o)
      <3>1. \A k \in HoldsOf(o) : status'[k] = "committed"
        BY <2>3 DEF CommitPayment, HoldsOf
      <3>2. order'[o] = "paid"
        BY <2>3 DEF CommitPayment, StockTypeOK
      <3>3. QED BY <3>1, <3>2 DEF Story
    <2>4. ASSUME NEW failed \in BOOLEAN, EndPayment(o, failed) PROVE Story(o)'
      <3>1. \A k \in HoldsOf(o) :
               status'[k] \in IF failed THEN {"active", "released", "expired"}
                                        ELSE {"released", "expired"}
        BY <2>4 DEF EndPayment, HoldsOf, GivenUp
      <3>2. order'[o] = IF failed THEN "pending" ELSE "cancelled"
        BY <2>4 DEF EndPayment, StockTypeOK
      <3>3. QED BY <3>1, <3>2 DEF Story
    <2>5. QED BY <1>2, <2>1, <2>2, <2>3, <2>4
  <1>3. QED BY <1>1, <1>2

LEMMA StoryFulfillment ==
  ASSUME StockTypeOK, OrderMatchesHolds, FulfillmentStep
  PROVE  OrderMatchesHolds'
  <1> PICK p \in Orders, ls \in SUBSET Levels : Complete(p, ls)
    BY DEF FulfillmentStep
  <1> SUFFICES ASSUME NEW o \in Orders PROVE Story(o)'
    BY StoryOfAll DEF OrderMatchesHolds, Story
  <1> Story(o)
    BY StoryOfAll
  <1> DEFINE shipped == {k \in Holds : k[1] = p /\ k[2] \in ls}
  <1>1. CASE o # p
    BY <1>1, StoryKept DEF Complete, StockTypeOK
  <1>2. CASE o = p
    <2>1. shipped # {} /\ shipped \subseteq HoldsOf(o)
      <3>1. PICK l \in ls : TRUE
        BY DEF Complete
      <3>2. <<o, l>> \in shipped
        BY <1>2 DEF Holds, Holders
      <3>3. QED BY <1>2, <3>2 DEF Complete, HoldsOf
    <2>2. HoldsOf(o)' = HoldsOf(o)
      BY DEF Complete, HoldsOf
    <2>3. \A k \in HoldsOf(o) : status'[k] = IF k \in shipped THEN "consumed" ELSE status[k]
      BY DEF Complete, HoldsOf
    <2>4. \A k \in HoldsOf(o) : status[k] \in {"committed", "consumed"}
      BY <1>2 DEF Complete, Story
    <2>5. CASE \A k \in HoldsOf(o) \ shipped : status[k] = "consumed"
      <3>1. order'[o] = "fulfilled" /\ \A k \in HoldsOf(o) : status'[k] = "consumed"
        BY <1>2, <2>3, <2>5 DEF Complete, StockTypeOK
      <3>2. QED BY <2>1, <2>2, <3>1 DEF Story
    <2>6. CASE \E k \in HoldsOf(o) \ shipped : status[k] # "consumed"
      <3>1. order'[o] = "partially_fulfilled"
        BY <1>2, <2>6 DEF Complete, StockTypeOK
      <3>2. /\ \A k \in HoldsOf(o) : status'[k] \in {"committed", "consumed"}
            /\ \E k \in HoldsOf(o) : status'[k] = "committed"
            /\ \E k \in HoldsOf(o) : status'[k] = "consumed"
        BY <2>1, <2>3, <2>4, <2>6
      <3>3. {status[k] : k \in HoldsOf(o)}' = {"committed", "consumed"}
        BY <2>2, <3>2
      <3>4. QED BY <3>1, <3>3 DEF Story
    <2>7. QED BY <2>5, <2>6
  <1>3. QED BY <1>1, <1>2

LEMMA StoryInit == StockInit => OrderMatchesHolds
  BY DEF StockInit, OrderMatchesHolds, HoldsOf

LEMMA StoryStep ==
  StockTypeOK /\ OrderMatchesHolds /\ [StockNext]_stockVars => OrderMatchesHolds'
  <1>1. ASSUME OrderMatchesHolds, Tick \/ UNCHANGED stockVars
        PROVE  OrderMatchesHolds'
    <2>1. ASSUME NEW o \in Orders PROVE Story(o)'
      BY <1>1, StoryOfAll, StoryKept DEF Tick, stockVars
    <2>2. QED BY <2>1 DEF OrderMatchesHolds, Story
  <1>2. QED BY <1>1, StoryInventory, StoryOrder, StoryPayment, StoryFulfillment
               DEF StockNext

(* An order and its reservations never tell different stories.             *)
THEOREM StockOrdersMatch == StockSpec => []OrderMatchesHolds
  BY StoryInit, StoryStep, StockTyping, PTL DEF StockSpec

-----------------------------------------------------------------------------
(* The tables implement the ledger.                                        *)

LiveHolds  == {k \in Holds : Effective(k)}
Sold  == {k \in Holds : status[k] = "committed"}
Ended == {k \in Holds : status[k] # "none" /\ ~Effective(k)}

LedgerInv == StockTypeOK /\ NoOversell /\ OrderMatchesHolds

LEMMA LoadOfLive == \A l \in Levels : AsLedger!Load(LiveHolds, l) = Reserved(l)
  <1> SUFFICES ASSUME NEW l \in Levels PROVE AsLedger!Load(LiveHolds, l) = Reserved(l)
    OBVIOUS
  <1>1. {u \in Holds \X (1..MaxQty) :
            /\ u[1] \in LiveHolds
            /\ [k \in Holds |-> k[2]][u[1]] = l
            /\ u[2] <= qty[u[1]]} = ReservedUnits(l)
    BY DEF ReservedUnits, Units, LiveHolds
  <1>2. QED BY <1>1 DEF AsLedger!Load, Reserved, LiveHolds, Cardinality, AsLedger!Cardinality

LEMMA FitsWhenNotOversold == NoOversell => AsLedger!Fits
  BY LoadOfLive DEF NoOversell, AsLedger!Fits, LiveHolds

(* Reservations that stop counting, none of them sold.                     *)
LEMMA LedgerDrop ==
  ASSUME UNCHANGED <<onHand, qty>>,
         \A k \in Holds :
            /\ Effective(k)' => Effective(k)
            /\ Effective(k) /\ ~Effective(k)' => status[k] # "committed"
            /\ status'[k] = "none" <=> status[k] = "none"
            /\ status'[k] = "committed" <=> status[k] = "committed"
  PROVE  AsLedger!Next
  <1> PICK S : S = LiveHolds \ LiveHolds'
    OBVIOUS
  <1>1. /\ S \subseteq LiveHolds \ Sold
        /\ LiveHolds' = LiveHolds \ S /\ Sold' = Sold /\ Ended' = Ended \cup S
    BY DEF LiveHolds, Sold, Ended, Effective
  <1>2. AsLedger!Drop(S)
    BY <1>1 DEF AsLedger!Drop, LiveHolds, Sold, Ended, Effective
  <1>3. S \in SUBSET Holds
    BY DEF LiveHolds, Effective
  <1>4. QED BY <1>2, <1>3 DEF AsLedger!Next

(* Fresh reservations S, all with one expiry.                              *)
LEMMA LedgerMake ==
  ASSUME StockTypeOK', NoOversell', UNCHANGED onHand, UNCHANGED now,
         NEW S \in SUBSET Holds, NEW e \in Nat,
         \A k \in S : status[k] = "none" /\ status'[k] = "active" /\ expiry'[k] = e,
         \A k \in Holds \ S :
            /\ qty'[k] = qty[k]
            /\ Effective(k)' <=> Effective(k)
            /\ status'[k] = "none" <=> status[k] = "none"
            /\ status'[k] = "committed" <=> status[k] = "committed"
  PROVE  AsLedger!Next
  <1>1. S \subseteq Holds \ (LiveHolds \cup Ended) /\ Sold' = Sold
    BY DEF LiveHolds, Ended, Sold, Effective
  <1>2. AsLedger!Fresh(S)
    BY <1>1 DEF AsLedger!Fresh, LiveHolds, Ended, Effective
  <1>3. AsLedger!Fits'
    BY FitsWhenNotOversold, PTL
  <1>4. CASE e > now
    <2>1. LiveHolds' = LiveHolds \cup S /\ Ended' = Ended
      BY <1>4 DEF LiveHolds, Ended, Effective
    <2>2. AsLedger!Make(S)
      BY <1>1, <1>2, <1>3, <2>1 DEF AsLedger!Make, LiveHolds, Sold, Ended, Effective
    <2>3. QED BY <2>2 DEF AsLedger!Next
  <1>5. CASE ~(e > now)
    <2>1. LiveHolds' = LiveHolds /\ Ended' = Ended \cup S
      BY <1>5 DEF LiveHolds, Ended, Effective
    <2>2. AsLedger!Void(S)
      BY <1>1, <1>2, <2>1 DEF AsLedger!Void, LiveHolds, Sold, Ended, Effective
    <2>3. QED BY <2>2 DEF AsLedger!Next
  <1>6. QED BY <1>4, <1>5

LEMMA LedgerReserve ==
  ASSUME LedgerInv, StockTypeOK', NoOversell', NEW started \in StartTimes,
         NEW w \in Walkins, NEW l \in Levels, NEW n \in 1..MaxQty,
         Reserve(w, l, n, started)
  PROVE  AsLedger!Next
  <1> USE DEF LedgerInv
  <1>1. <<w, l>> \in Holds /\ started + TTL \in Nat
    BY StartTimesType, StockAssumption DEF Holds, Holders
  <1>2. \A k \in Holds \ {<<w, l>>} :
           /\ qty'[k] = qty[k]
           /\ Effective(k)' <=> Effective(k)
           /\ status'[k] = "none" <=> status[k] = "none"
           /\ status'[k] = "committed" <=> status[k] = "committed"
    BY <1>1, ExpiryChangesNothing DEF Reserve, Effective, StockTypeOK, ExpiredOn
  <1>3. /\ status[<<w, l>>] = "none" /\ status'[<<w, l>>] = "active"
        /\ expiry'[<<w, l>>] = started + TTL
    BY <1>1 DEF Reserve, ExpiredOn, StockTypeOK
  <1>4. UNCHANGED onHand /\ UNCHANGED now
    BY DEF Reserve
  <1>5. {<<w, l>>} \in SUBSET Holds
    BY <1>1
  <1>6. QED BY <1>1, <1>2, <1>3, <1>4, <1>5, LedgerMake

LEMMA LedgerPlaceOrder ==
  ASSUME LedgerInv, StockTypeOK', NoOversell', NEW started \in StartTimes,
         NEW o \in Orders, NEW lines \in [Levels -> 0..MaxQty], NEW scanned,
         PlaceOrder(o, lines, scanned, started)
  PROVE  AsLedger!Next
  <1> USE DEF LedgerInv
  <1> DEFINE placed == {k \in Holds : k[1] = o /\ lines[k[2]] > 0}
  <1>1. placed \in SUBSET Holds /\ started + TTL \in Nat
    BY StartTimesType, StockAssumption
  <1>2. \A k \in placed : status[k] = "none"
    <2>1. Story(o) /\ order[o] = "none"
      BY StoryOfAll DEF PlaceOrder
    <2>2. \A k \in Holds : k[1] = o => status[k] = "none"
      BY <2>1 DEF Story, HoldsOf
    <2>3. QED BY <2>2
  <1>3. \A k \in placed : status'[k] = "active" /\ expiry'[k] = started + TTL
    BY DEF PlaceOrder
  <1>4. \A k \in Holds \ placed :
           /\ qty'[k] = qty[k]
           /\ Effective(k)' <=> Effective(k)
           /\ status'[k] = "none" <=> status[k] = "none"
           /\ status'[k] = "committed" <=> status[k] = "committed"
    BY ExpiryChangesNothing DEF PlaceOrder, Effective
  <1>5. UNCHANGED onHand /\ UNCHANGED now
    BY DEF PlaceOrder
  <1> HIDE DEF placed
  <1>6. QED BY <1>1, <1>2, <1>3, <1>4, <1>5, LedgerMake

LEMMA LedgerAdjust ==
  ASSUME LedgerInv, StockTypeOK', NoOversell', NEW started \in StartTimes,
         NEW l \in Levels, NEW delta \in Int, Adjust(l, delta, started)
  PROVE  AsLedger!Next
  <1> USE DEF LedgerInv
  <1>1. \A k \in Holds :
           /\ Effective(k)' <=> Effective(k)
           /\ status'[k] = "none" <=> status[k] = "none"
           /\ status'[k] = "committed" <=> status[k] = "committed"
    BY ExpiryChangesNothing DEF Adjust, Effective
  <1>2. LiveHolds' = LiveHolds /\ Sold' = Sold /\ Ended' = Ended
    BY <1>1 DEF LiveHolds, Sold, Ended, Effective
  <1>3. AsLedger!Fits'
    BY FitsWhenNotOversold, PTL
  <1>4. onHand' \in [Levels -> Nat] /\ qty' = qty
    BY StockAssumption DEF StockTypeOK, Adjust
  <1>5. AsLedger!Recount
    BY <1>2, <1>3, <1>4 DEF AsLedger!Recount, LiveHolds, Sold, Ended, Effective
  <1>6. QED BY <1>5 DEF AsLedger!Next

LEMMA LedgerCommit ==
  ASSUME NEW o \in Orders, CommitPayment(o)
  PROVE  AsLedger!Next
  <1>1. PICK S : S = HoldsOf(o)
    OBVIOUS
  <1>2. S \in SUBSET Holds /\ S \subseteq LiveHolds \ Sold
    BY <1>1 DEF CommitPayment, AllHolds, HoldsOf, LiveHolds, Sold, Effective
  <1>3. LiveHolds' = LiveHolds /\ Sold' = Sold \cup S /\ Ended' = Ended
    BY <1>1 DEF CommitPayment, AllHolds, HoldsOf, LiveHolds, Sold, Ended, Effective
  <1>4. AsLedger!Sell(S)
    BY <1>2, <1>3 DEF AsLedger!Sell, CommitPayment, LiveHolds, Sold, Ended, Effective
  <1>5. QED BY <1>2, <1>4 DEF AsLedger!Next

(* What is shipped from a level is the quantity of its one reservation.    *)
LEMMA LoadOfShipment ==
  ASSUME StockTypeOK, NEW o \in Orders, NEW ls \in SUBSET Levels,
         NEW S, S = {k \in Holds : k[1] = o /\ k[2] \in ls}, NEW l \in Levels
  PROVE  AsLedger!Load(S, l) = IF l \in ls THEN qty[<<o, l>>] ELSE 0
  <1> DEFINE load == {u \in Holds \X (1..MaxQty) :
                         /\ u[1] \in S
                         /\ [k \in Holds |-> k[2]][u[1]] = l
                         /\ u[2] <= qty[u[1]]}
  <1>1. AsLedger!Load(S, l) = Cardinality(load)
    BY DEF AsLedger!Load, Cardinality, AsLedger!Cardinality
  <1>2. <<o, l>> \in Holds
    BY DEF Holds, Holders
  <1>3. CASE l \in ls
    <2>1. load = Line(<<o, l>>, qty[<<o, l>>])
      BY <1>2, <1>3 DEF Line, Units, Holds
    <2>2. qty[<<o, l>>] \in 0..MaxQty
      BY <1>2 DEF StockTypeOK
    <2>3. QED BY <1>1, <1>2, <1>3, <2>1, <2>2, LineSize
  <1>4. CASE l \notin ls
    <2>1. load = {}
      BY <1>4
    <2>2. QED BY <1>1, <1>4, <2>1, FS_EmptySet
  <1>5. QED BY <1>3, <1>4

LEMMA LedgerComplete ==
  ASSUME StockTypeOK, NEW o \in Orders, NEW ls \in SUBSET Levels, Complete(o, ls)
  PROVE  AsLedger!Next
  <1>1. PICK S : S = {k \in Holds : k[1] = o /\ k[2] \in ls}
    OBVIOUS
  <1>2. S \in SUBSET Holds /\ S \subseteq Sold
    BY <1>1 DEF Complete, Sold
  <1>3. LiveHolds' = LiveHolds \ S /\ Sold' = Sold \ S /\ Ended' = Ended \cup S
    BY <1>1 DEF Complete, LiveHolds, Sold, Ended, Effective
  <1>4. onHand' = [l \in Levels |-> onHand[l] - AsLedger!Load(S, l)]
    <2>1. \A l \in Levels :
             AsLedger!Load(S, l) = IF l \in ls THEN qty[<<o, l>>] ELSE 0
      BY <1>1, LoadOfShipment
    <2>2. \A l \in Levels : onHand[l] \in Nat
      BY StockAssumption DEF StockTypeOK
    <2>3. QED BY <2>1, <2>2 DEF Complete
  <1>5. qty' = qty
    BY DEF Complete
  <1>6. AsLedger!Ship(S)
    BY <1>2, <1>3, <1>4, <1>5 DEF AsLedger!Ship, LiveHolds, Sold, Ended, Effective
  <1>7. QED BY <1>2, <1>6 DEF AsLedger!Next

LEMMA LedgerStep ==
  LedgerInv /\ StockTypeOK' /\ NoOversell' /\ [StockNext]_stockVars =>
     [AsLedger!Next]_(AsLedger!ledgerVars)
  <1> SUFFICES ASSUME LedgerInv, StockTypeOK', NoOversell', [StockNext]_stockVars
               PROVE  AsLedger!Next
    OBVIOUS
  <1> USE DEF LedgerInv
  <1>1. CASE InventoryStep
    <2> PICK started \in StartTimes :
           \/ \E w \in Walkins, l \in Levels, n \in 1..MaxQty :
                 Reserve(w, l, n, started)
           \/ \E k \in Holds : Release(k, started)
           \/ \E l \in Levels, delta \in (-MaxQty..MaxQty) \ {0} :
                 Adjust(l, delta, started)
      BY <1>1 DEF InventoryStep
    <2>1. ASSUME NEW j \in Holds, Release(j, started) PROVE AsLedger!Next
      <3>1. \A k \in Holds :
               \/ status'[k] = status[k]
               \/ status[k] = "active" /\ status'[k] \in {"released", "expired"}
        BY <2>1, ExpiryChangesNothing DEF Release, ExpiredOn, GivenUp
      <3>2. \A k \in Holds :
               /\ Effective(k)' => Effective(k)
               /\ Effective(k) /\ ~Effective(k)' => status[k] # "committed"
               /\ status'[k] = "none" <=> status[k] = "none"
               /\ status'[k] = "committed" <=> status[k] = "committed"
        BY <2>1, <3>1 DEF Release, Effective
      <3>3. UNCHANGED <<onHand, qty>>
        BY <2>1 DEF Release
      <3>4. QED BY <3>2, <3>3, LedgerDrop
    <2>2. QED BY <2>1, LedgerReserve, LedgerAdjust, StockAssumption
  <1>2. CASE OrderStep
    BY <1>2, LedgerPlaceOrder DEF OrderStep, CreateOrder, AutoCreateOrder
  <1>3. CASE PaymentStep
    <2> PICK o \in Orders :
           \/ \E started \in StartTimes : CancelOrder(o, started)
           \/ HoldForPayment(o)
           \/ CommitPayment(o)
           \/ \E failed \in BOOLEAN : EndPayment(o, failed)
      BY <1>3 DEF PaymentStep
    <2>1. CASE CommitPayment(o)
      BY <2>1, LedgerCommit
    <2>2. CASE ~CommitPayment(o)
      <3>1. \A k \in Holds :
               /\ Effective(k)' => Effective(k)
               /\ Effective(k) /\ ~Effective(k)' => status[k] # "committed"
               /\ status'[k] = "none" <=> status[k] = "none"
               /\ status'[k] = "committed" <=> status[k] = "committed"
        BY <2>2 DEF CancelOrder, CloseOrder, HoldForPayment, EndPayment, AllHolds, HoldsOf,
                    Effective, GivenUp
      <3>2. UNCHANGED <<onHand, qty>>
        BY <2>2 DEF CancelOrder, CloseOrder, HoldForPayment, EndPayment
      <3>3. QED BY <3>1, <3>2, LedgerDrop
    <2>3. QED BY <2>1, <2>2
  <1>4. CASE FulfillmentStep
    BY <1>4, LedgerComplete DEF FulfillmentStep
  <1>5. CASE Tick \/ UNCHANGED stockVars
    <2>1. \A k \in Holds :
             /\ Effective(k)' => Effective(k)
             /\ Effective(k) /\ ~Effective(k)' => status[k] # "committed"
             /\ status'[k] = "none" <=> status[k] = "none"
             /\ status'[k] = "committed" <=> status[k] = "committed"
      BY <1>5 DEF Tick, stockVars, Effective, StockTypeOK
    <2>2. UNCHANGED <<onHand, qty>>
      BY <1>5 DEF Tick, stockVars
    <2>3. QED BY <2>1, <2>2, LedgerDrop
  <1>6. QED BY <1>1, <1>2, <1>3, <1>4, <1>5 DEF StockNext

LEMMA LedgerStart == StockInit => AsLedger!Init
  <1> SUFFICES ASSUME StockInit PROVE AsLedger!Init
    OBVIOUS
  <1>1. onHand \in [Levels -> Nat] /\ qty = [k \in Holds |-> 0]
    BY StockAssumption DEF StockInit
  <1>2. LiveHolds = {} /\ Sold = {} /\ Ended = {}
    BY DEF StockInit, LiveHolds, Sold, Ended, Effective
  <1>3. QED BY <1>1, <1>2 DEF AsLedger!Init, LiveHolds, Sold, Ended

(* The tables keep the promises of the ledger: nothing that lapsed, was    *)
(* released or was shipped ever counts again, and what was sold leaves     *)
(* only by being shipped out of the stock it was promised from.  New       *)
(* promises fit in the stock as long as the engine's decisions do.         *)
THEOREM StockKeepsLedger == StockSpec /\ AutoOrdersFit => ImplementsLedger
  <1>1. StockTypeOK /\ NoOversell /\ OrderMatchesHolds
           /\ StockTypeOK' /\ NoOversell' /\ [StockNext]_stockVars =>
        [AsLedger!Next]_(AsLedger!ledgerVars)
    BY LedgerStep DEF LedgerInv
  <1>2. QED
    BY <1>1, LedgerStart, StockTyping, StockNeverOversold, StockOrdersMatch, PTL
       DEF StockSpec, ImplementsLedger, AsLedger!Spec

-----------------------------------------------------------------------------
(* Where the decisions of the engine are known to fit.                     *)

OneProduct   == \A l, m \in Levels : ProductOf[l] = ProductOf[m]
OneWarehouse == \A l, m \in Levels : WarehouseOf[l] = WarehouseOf[m]

(* An order that could only be split one way is decided within what is     *)
(* available: one product fits by the order of the visits, and one         *)
(* warehouse that has what the network has is taken as it is.              *)
LEMMA UnsplitOrdersFit == OneProduct \/ OneWarehouse => AutoOrdersFit
  <1> SUFFICES ASSUME OneProduct \/ OneWarehouse PROVE AutoOrdersFit
    OBVIOUS
  <1>1. DecisionsAreWithin
    <2> SUFFICES ASSUME NEW started \in StartTimes, NEW o \in Orders,
                        NEW lines \in [Levels -> 0..MaxQty],
                        NEW scanned \in SUBSET Levels,
                        AutoCreateOrder(o, lines, scanned, started)
                 PROVE  WithinAvailable(lines)
      BY DEF DecisionsAreWithin
    <2> DEFINE taken   == {l \in Levels : lines[l] > 0}
               offered == {l \in scanned : Available(l) > 0}
               Near(l) == {m \in offered : WarehouseOf[m] = WarehouseOf[l]}
    <2>1. /\ taken \subseteq offered
          /\ CanFill(offered, lines)
          /\ (\E l \in offered : CanFill(Near(l), lines)) => WithinAvailable(lines)
          /\ (\A l, m \in taken : ProductOf[l] = ProductOf[m]) => WithinAvailable(lines)
      BY DEF AutoCreateOrder, Decided
    <2>2. CASE OneProduct
      BY <2>1, <2>2 DEF OneProduct
    <2>3. CASE OneWarehouse
      <3>1. PICK l \in taken : TRUE
        BY DEF AutoCreateOrder, PlaceOrder, Holds
      <3>2. l \in offered /\ Near(l) = offered
        BY <2>1, <2>3, <3>1 DEF OneWarehouse
      <3>3. QED BY <2>1, <3>2
    <2>4. QED BY <2>2, <2>3
  <1>2. QED BY <1>1, PTL DEF AutoOrdersFit

(* With one product, or one warehouse, nothing is left to a hypothesis: no *)
(* level is oversold and every promise of the ledger is kept, automatic    *)
(* orders included (order.Repository, AutoCreate).                         *)
THEOREM UnsplitStockIsSafe ==
  (OneProduct \/ OneWarehouse) /\ StockSpec => []NoOversell /\ ImplementsLedger
  BY UnsplitOrdersFit, StockNeverOversold, StockKeepsLedger, PTL
=============================================================================
