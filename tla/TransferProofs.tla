--------------------------- MODULE TransferProofs --------------------------
(* Proofs about the parts of MCTransfers, for every number of levels,      *)
(* transfers, orders and rows:                                             *)
(*   - Transfers: what concerns the other transactions is cited from       *)
(*     StockProofs; here are their own steps and the sum of the goods.     *)
(*   - PagedList: what a page is, how pages join up, and that a view has   *)
(*     one request of its generation, whose answer fits what it shows.     *)
(*   - Replenishment: the order of the list of low levels, and that the    *)
(*     rows of a page are those between its cursors.                       *)
EXTENDS MCTransfers, StockProofs, SequenceTheorems

-----------------------------------------------------------------------------
(* What a transfer takes from a level and brings to it.                    *)

LEMMA TakenType ==
  ASSUME TransferTypeOK, NEW t \in Transfers, NEW l \in Levels
  PROVE  /\ Taken(t, l) \in 0..MaxQty /\ Brought(t, l) \in 0..MaxQty
  <1> USE DEF TransferTypeOK, Items
  <1>1. items[t] \subseteq Items
    OBVIOUS
  <1>2. ASSUME \E i \in items[t] : i.from = l PROVE Taken(t, l) \in 0..MaxQty
    BY <1>1, <1>2, StockAssumption DEF Taken
  <1>3. ASSUME \E i \in items[t] : i.to = l PROVE Brought(t, l) \in 0..MaxQty
    BY <1>1, <1>3, StockAssumption DEF Brought
  <1>4. QED BY <1>2, <1>3, StockAssumption DEF Taken, Brought

(* A transfer has at most one item of a product, so that Taken and Brought *)
(* name its quantity.                                                      *)
LEMMA TakenIs ==
  ASSUME TransferTypeOK, NEW t \in Transfers, NEW i \in items[t]
  PROVE  /\ Taken(t, i.from) = i.quantity
         /\ Brought(t, i.to) = i.quantity
  <1>1. items[t] \subseteq Items /\ OneRoute(items[t])
    BY DEF TransferTypeOK
  <1>2. \A j \in items[t] : j.from = i.from => j = i
    BY <1>1 DEF OneRoute, Items
  <1>3. \A j \in items[t] : j.to = i.to => j = i
    BY <1>1 DEF OneRoute, Items
  <1>4. QED BY <1>2, <1>3 DEF Taken, Brought

LEMMA TakenPresent ==
  ASSUME TransferTypeOK, NEW t \in Transfers, NEW l \in Levels,
         \A i \in items[t] : i.quantity <= Available(i.from)
  PROVE  Taken(t, l) <= onHand[l]
  <1>1. Reserved(l) \in Nat /\ onHand[l] \in Nat
    BY UnitsFinite, StockAssumption DEF TransferTypeOK, StockTypeOK
  <1>2. CASE \E i \in items[t] : i.from = l
    <2> PICK i \in items[t] : i.from = l
      BY <1>2
    <2>1. Taken(t, l) = i.quantity /\ i.quantity \in Nat
      BY TakenIs DEF TransferTypeOK, Items
    <2>2. i.quantity <= onHand[l] - Reserved(l)
      BY DEF Available
    <2>3. QED BY <1>1, <2>1, <2>2
  <1>3. CASE ~ \E i \in items[t] : i.from = l
    BY <1>1, <1>3 DEF Taken
  <1>4. QED BY <1>2, <1>3

LEMMA TakenAvailable ==
  ASSUME TransferTypeOK, NoOversell, NEW t \in Transfers, NEW l \in Levels,
         \A i \in items[t] : i.quantity <= Available(i.from)
  PROVE  Taken(t, l) <= onHand[l] - Reserved(l)
  <1>1. CASE \E i \in items[t] : i.from = l
    <2> PICK i \in items[t] : i.from = l
      BY <1>1
    <2>1. QED BY TakenIs DEF Available
  <1>2. CASE ~ \E i \in items[t] : i.from = l
    BY <1>2, UnitsFinite DEF Taken, NoOversell, TransferTypeOK, StockTypeOK
  <1>3. QED BY <1>1, <1>2

-----------------------------------------------------------------------------
(* Typing.                                                                 *)

LEMMA TypeTransferStep ==
  TransferTypeOK /\ TransferStep => TransferTypeOK'
  <1> SUFFICES ASSUME TransferTypeOK, NEW t \in Transfers,
                      \/ \E lines \in SUBSET Items : CreateTransfer(t, lines)
                      \/ \E started \in StartTimes : Dispatch(t, started)
                      \/ Receive(t)
                      \/ CancelTransfer(t)
               PROVE  TransferTypeOK'
    BY DEF TransferStep
  <1> USE DEF TransferTypeOK
  <1>1. ASSUME NEW lines \in SUBSET Items, CreateTransfer(t, lines)
        PROVE  TransferTypeOK'
    <2>1. StockTypeOK'
      BY <1>1 DEF CreateTransfer, stockVars, StockTypeOK
    <2>2. \A u \in Transfers : items'[u] = IF u = t THEN lines ELSE items[u]
      BY <1>1 DEF CreateTransfer
    <2>3. \A u \in Transfers : OneRoute(items'[u])
      BY <1>1, <2>2 DEF CreateTransfer
    <2>4. items' \in [Transfers -> SUBSET Items] /\ transfer' \in [Transfers -> TransferStatuses]
      BY <1>1 DEF CreateTransfer, TransferStatuses
    <2>5. QED BY <1>1, <2>1, <2>3, <2>4 DEF CreateTransfer
  <1>2. ASSUME NEW started \in StartTimes, Dispatch(t, started)
        PROVE  TransferTypeOK'
    <2>1. \A l \in Levels : onHand[l] - Taken(t, l) \in 0..MaxStock
      <3> SUFFICES ASSUME NEW l \in Levels PROVE onHand[l] - Taken(t, l) \in 0..MaxStock
        OBVIOUS
      <3>1. Taken(t, l) <= onHand[l]
        BY <1>2, TakenPresent DEF Dispatch
      <3>2. Taken(t, l) \in Nat /\ onHand[l] \in 0..MaxStock
        BY TakenType, StockAssumption DEF StockTypeOK
      <3>3. QED BY <3>1, <3>2, StockAssumption
    <2>2. onHand' \in [Levels -> 0..MaxStock]
      BY <1>2, <2>1 DEF Dispatch
    <2>3. StockTypeOK'
      BY <1>2, <2>2, ExpiredOnType DEF Dispatch, StockTypeOK
    <2>4. QED BY <1>2, <2>3 DEF Dispatch, TransferStatuses
  <1>3. ASSUME Receive(t) PROVE TransferTypeOK'
    <2>1. \A l \in Levels : onHand[l] + Brought(t, l) \in 0..MaxStock
      BY <1>3, TakenType, StockAssumption DEF Receive, StockTypeOK
    <2>2. StockTypeOK'
      BY <1>3, <2>1 DEF Receive, StockTypeOK
    <2>3. QED BY <1>3, <2>2 DEF Receive, TransferStatuses
  <1>4. ASSUME CancelTransfer(t) PROVE TransferTypeOK'
    BY <1>4 DEF CancelTransfer, stockVars, StockTypeOK, TransferStatuses
  <1>5. QED BY <1>1, <1>2, <1>3, <1>4

LEMMA ItemsFinite == IsFiniteSet(Items)
  <1>1. PICK T : T = (Levels \X Levels) \X (1..MaxQty)
    OBVIOUS
  <1>2. IsFiniteSet(T)
    <2>1. IsFiniteSet(1..MaxQty)
      BY FS_Interval, StockAssumption
    <2>2. IsFiniteSet(Levels \X Levels)
      BY FS_Product, StockAssumption
    <2>3. QED BY <1>1, <2>1, <2>2, FS_Product
  <1>3. PICK f : f = [i \in Items |-> <<<<i.from, i.to>>, i.quantity>>]
    OBVIOUS
  <1>4. f \in Injection(Items, T)
    <2>1. f \in [Items -> T]
      BY <1>1, <1>3 DEF Items
    <2>2. \A i \in Items : i = [from |-> i.from, to |-> i.to, quantity |-> i.quantity]
      BY DEF Items
    <2>3. \A i, j \in Items : f[i] = f[j] => i = j
      BY <1>3, <2>2
    <2>4. QED BY <2>1, <2>3 DEF Injection, IsInjective
  <1>5. QED BY <1>2, <1>4, FS_Injection

LEMMA GoodsFinite ==
  \A p \in Products :
     /\ IsFiniteSet(OnShelf(p)) /\ Cardinality(OnShelf(p)) \in Nat
     /\ IsFiniteSet(InTransit(p)) /\ Cardinality(InTransit(p)) \in Nat
  <1>1. IsFiniteSet(1..MaxStock) /\ IsFiniteSet(1..MaxQty)
    BY FS_Interval, StockAssumption
  <1>2. IsFiniteSet(Levels \X (1..MaxStock))
    BY <1>1, FS_Product, StockAssumption
  <1>3. IsFiniteSet((Transfers \X Items) \X (1..MaxQty))
    BY <1>1, ItemsFinite, FS_Product, TransferAssumption
  <1>4. SUFFICES ASSUME NEW p \in Products
                 PROVE  /\ IsFiniteSet(OnShelf(p)) /\ Cardinality(OnShelf(p)) \in Nat
                        /\ IsFiniteSet(InTransit(p)) /\ Cardinality(InTransit(p)) \in Nat
    OBVIOUS
  <1>5. /\ OnShelf(p) \in SUBSET (Levels \X (1..MaxStock))
        /\ InTransit(p) \in SUBSET ((Transfers \X Items) \X (1..MaxQty))
    BY DEF OnShelf, InTransit
  <1>6. QED BY <1>2, <1>3, <1>5, FS_Subset, FS_CardinalityType

LEMMA ShelfCount == \A q \in Products : Cardinality(OnShelf(q)) \in Nat
  BY GoodsFinite

LEMMA TypeOtherStep == TransferTypeOK /\ OtherStep => TransferTypeOK'
  <1> SUFFICES ASSUME TransferTypeOK, OtherStep PROVE TransferTypeOK'
    OBVIOUS
  <1>1. StockTypeOK'
    BY TypeStep DEF TransferTypeOK, OtherStep
  <1>2. (\A q \in Products : Cardinality(OnShelf(q)) \in Nat)'
    BY ShelfCount, PTL
  <1>3. booked' \in [Products -> Int]
    BY <1>2, ShelfCount DEF OtherStep, TransferTypeOK
  <1>4. QED BY <1>1, <1>3 DEF TransferTypeOK, OtherStep

-----------------------------------------------------------------------------
(* No oversell, orders, and the ledger.                                    *)

(* All that a transfer's step does to a reservation is to expire it.       *)
LEMMA TransferLapse ==
  ASSUME TransferTypeOK, TransferStep
  PROVE  /\ UNCHANGED <<now, qty, expiry, order>>
         /\ \A k \in Holds :
               \/ status'[k] = status[k]
               \/ status[k] = "active" /\ status'[k] = "expired" /\ ~Effective(k)
  <1> PICK t \in Transfers :
           \/ \E lines \in SUBSET Items : CreateTransfer(t, lines)
           \/ \E started \in StartTimes : Dispatch(t, started)
           \/ Receive(t)
           \/ CancelTransfer(t)
    BY DEF TransferStep
  <1>1. ASSUME NEW started \in StartTimes, Dispatch(t, started)
        PROVE  /\ UNCHANGED <<now, qty, expiry, order>>
               /\ \A k \in Holds :
                     \/ status'[k] = status[k]
                     \/ status[k] = "active" /\ status'[k] = "expired" /\ ~Effective(k)
    BY <1>1, ExpiryChangesNothing DEF Dispatch, TransferTypeOK
  <1>2. QED BY <1>1 DEF CreateTransfer, Receive, CancelTransfer, stockVars

LEMMA NoOversellTransferStep ==
  TransferTypeOK /\ NoOversell /\ TransferTypeOK' /\ TransferStep => NoOversell'
  <1> SUFFICES ASSUME TransferTypeOK, NoOversell, TransferTypeOK', NEW t \in Transfers,
                      NEW l \in Levels,
                      \/ \E lines \in SUBSET Items : CreateTransfer(t, lines)
                      \/ \E started \in StartTimes : Dispatch(t, started)
                      \/ Receive(t)
                      \/ CancelTransfer(t)
               PROVE  Reserved(l)' <= onHand'[l]
    BY DEF TransferStep, NoOversell
  <1> USE DEF TransferTypeOK
  <1>1. \A k \in Holds : qty'[k] = qty[k] /\ (Effective(k)' => Effective(k))
    BY TransferLapse DEF TransferStep, Effective
  <1>2. ReservedUnits(l)' \subseteq ReservedUnits(l)
    BY <1>1 DEF ReservedUnits, Units
  <1>3. Reserved(l)' \in Nat /\ Reserved(l)' <= Reserved(l)
    BY <1>2, FewerUnits
  <1>4. Reserved(l) <= onHand'[l]
    <2>1. ASSUME NEW started \in StartTimes, Dispatch(t, started)
          PROVE  Reserved(l) <= onHand'[l]
      BY <2>1, TakenAvailable, TakenType, UnitsFinite DEF Dispatch, StockTypeOK
    <2>2. ASSUME Receive(t) PROVE Reserved(l) <= onHand'[l]
      BY <2>2, TakenType, UnitsFinite DEF Receive, StockTypeOK, NoOversell
    <2>3. QED BY <2>1, <2>2 DEF CreateTransfer, CancelTransfer, stockVars, NoOversell
  <1>5. QED BY <1>3, <1>4, UnitsFinite DEF StockTypeOK

LEMMA StoryTransferStep ==
  TransferTypeOK /\ OrderMatchesHolds /\ TransferStep => OrderMatchesHolds'
  <1> SUFFICES ASSUME TransferTypeOK, OrderMatchesHolds, TransferStep, NEW o \in Orders
               PROVE  Story(o)'
    BY DEF OrderMatchesHolds, Story
  <1> Story(o) /\ StockTypeOK
    BY StoryOfAll DEF TransferTypeOK
  <1>1. QED BY TransferLapse, StoryOfGivingUp

LEMMA LedgerTransferStep ==
  TransferTypeOK /\ TransferTypeOK' /\ NoOversell' /\ TransferStep =>
     [AsLedger!Next]_(AsLedger!ledgerVars)
  <1> SUFFICES ASSUME TransferTypeOK, TransferTypeOK', NoOversell', TransferStep
               PROVE  AsLedger!Next
    OBVIOUS
  <1> USE DEF TransferTypeOK
  <1>1. \A k \in Holds :
           /\ Effective(k)' <=> Effective(k)
           /\ status'[k] = "none" <=> status[k] = "none"
           /\ status'[k] = "committed" <=> status[k] = "committed"
    BY TransferLapse DEF Effective
  <1>2. LiveHolds' = LiveHolds /\ Sold' = Sold /\ Ended' = Ended
    BY <1>1 DEF LiveHolds, Sold, Ended, Effective
  <1>3. AsLedger!Fits'
    BY FitsWhenNotOversold, PTL
  <1>4. onHand' \in [Levels -> Nat] /\ qty' = qty
    BY TransferLapse, StockAssumption DEF StockTypeOK
  <1>5. AsLedger!Recount
    BY <1>2, <1>3, <1>4 DEF AsLedger!Recount, LiveHolds, Sold, Ended, Effective
  <1>6. QED BY <1>5 DEF AsLedger!Next

-----------------------------------------------------------------------------
(* Conservation.                                                           *)

(* d units, numbered from a + 1, of one thing x.                           *)
Column(x, a, d) == {x} \X ((a+1)..(a+d))

LEMMA ColumnSize ==
  ASSUME NEW x, NEW a \in Nat, NEW d \in Nat
  PROVE  IsFiniteSet(Column(x, a, d)) /\ Cardinality(Column(x, a, d)) = d
  <1>1. PICK S : S = Column(x, a, d)
    OBVIOUS
  <1>2. PICK I : I = (a+1)..(a+d)
    OBVIOUS
  <1>3. PICK f : f = [n \in I |-> <<x, n>>]
    OBVIOUS
  <1>4. f \in Bijection(I, S)
    <2>1. f \in [I -> S]
      BY <1>1, <1>2, <1>3 DEF Column
    <2>2. \A m, n \in I : f[m] = f[n] => m = n
      BY <1>3
    <2>3. \A s \in S : \E n \in I : f[n] = s
      BY <1>1, <1>2, <1>3 DEF Column
    <2>4. QED BY <2>1, <2>2, <2>3 DEF Bijection, Injection, Surjection, IsInjective
  <1>5. IsFiniteSet(I) /\ Cardinality(I) = d
    <2>1. a + 1 \in Int /\ a + d \in Int
      OBVIOUS
    <2>2. QED BY <1>2, <2>1, FS_Interval
  <1>6. ExistsBijection(I, S)
    BY <1>4 DEF ExistsBijection
  <1>7. QED BY <1>1, <1>5, <1>6, FS_Bijection

Shelf(stock, p) ==
  {u \in Levels \X (1..MaxStock) : ProductOf[u[1]] = p /\ u[2] <= stock[u[1]]}

LEMMA ShelfFinite ==
  ASSUME NEW f, NEW p
  PROVE  IsFiniteSet(Shelf(f, p)) /\ Cardinality(Shelf(f, p)) \in Nat
  <1>1. IsFiniteSet(1..MaxStock)
    BY FS_Interval, StockAssumption
  <1>2. IsFiniteSet(Levels \X (1..MaxStock))
    BY <1>1, FS_Product, StockAssumption
  <1>3. Shelf(f, p) \in SUBSET (Levels \X (1..MaxStock))
    BY DEF Shelf
  <1>4. QED BY <1>2, <1>3, FS_Subset, FS_CardinalityType

(* Of one product, one level holds d more units and the others as many.    *)
LEMMA ShelfGrows ==
  ASSUME NEW f \in [Levels -> 0..MaxStock], NEW g \in [Levels -> 0..MaxStock],
         NEW p, NEW l \in Levels, ProductOf[l] = p,
         NEW d \in Nat, g[l] = f[l] + d,
         \A m \in Levels \ {l} : ProductOf[m] = p => g[m] = f[m]
  PROVE  Cardinality(Shelf(g, p)) = Cardinality(Shelf(f, p)) + d
  <1> USE StockAssumption
  <1>1. PICK New : New = Column(l, f[l], d)
    OBVIOUS
  <1>2. IsFiniteSet(New) /\ Cardinality(New) = d
    BY <1>1, ColumnSize
  <1>3. IsFiniteSet(Shelf(f, p)) /\ Cardinality(Shelf(f, p)) \in Nat
    BY ShelfFinite
  <1>4. Shelf(g, p) = Shelf(f, p) \cup New
    <2>1. ASSUME NEW u \in Levels \X (1..MaxStock)
          PROVE  u \in Shelf(g, p) <=> u \in Shelf(f, p) \cup New
      <3>1. CASE u[1] = l
        <4>1. u[2] <= g[l] <=> u[2] <= f[l] \/ u[2] \in (f[l]+1)..(f[l]+d)
          OBVIOUS
        <4>2. u = <<u[1], u[2]>>
          OBVIOUS
        <4>3. u \in New <=> u[2] \in (f[l]+1)..(f[l]+d)
          BY <1>1, <3>1, <4>2 DEF Column
        <4>4. QED BY <3>1, <4>1, <4>3 DEF Shelf
      <3>2. CASE u[1] # l
        BY <1>1, <3>2 DEF Column, Shelf
      <3>3. QED BY <3>1, <3>2
    <2>2. New \subseteq Levels \X (1..MaxStock)
      BY <1>1 DEF Column
    <2>3. /\ Shelf(g, p) \subseteq Levels \X (1..MaxStock)
          /\ Shelf(f, p) \subseteq Levels \X (1..MaxStock)
      BY DEF Shelf
    <2>4. QED BY <2>1, <2>2, <2>3
  <1>5. Shelf(f, p) \cap New = {}
    BY <1>1 DEF Column, Shelf
  <1>6. Cardinality(Shelf(f, p) \cap New) = 0
    BY <1>5, FS_EmptySet
  <1>7. Cardinality(Shelf(f, p) \cup New) =
          Cardinality(Shelf(f, p)) + Cardinality(New)
             - Cardinality(Shelf(f, p) \cap New)
    BY <1>2, <1>3, FS_Union
  <1>8. QED BY <1>2, <1>3, <1>4, <1>6, <1>7

Cargo(phase, p) ==
  {u \in (Transfers \X Items) \X (1..MaxQty) :
      /\ phase[u[1][1]] = "in_transit" /\ u[1][2] \in items[u[1][1]]
      /\ ProductOf[u[1][2].from] = p /\ u[2] <= u[1][2].quantity}

LEMMA CargoFinite ==
  ASSUME NEW f, NEW p
  PROVE  IsFiniteSet(Cargo(f, p)) /\ Cardinality(Cargo(f, p)) \in Nat
  <1>1. IsFiniteSet(1..MaxQty)
    BY FS_Interval, StockAssumption
  <1>2. IsFiniteSet((Transfers \X Items) \X (1..MaxQty))
    BY <1>1, ItemsFinite, FS_Product, TransferAssumption
  <1>3. Cargo(f, p) \in SUBSET ((Transfers \X Items) \X (1..MaxQty))
    BY DEF Cargo
  <1>4. QED BY <1>2, <1>3, FS_Subset, FS_CardinalityType

(* One transfer goes under way that has item i of product p.               *)
LEMMA CargoGrows ==
  ASSUME TransferTypeOK, NEW p, NEW t \in Transfers, NEW i \in items[t],
         ProductOf[i.from] = p,
         NEW f, NEW g, f[t] # "in_transit", g[t] = "in_transit",
         \A u \in Transfers \ {t} : g[u] = f[u]
  PROVE  Cardinality(Cargo(g, p)) = Cardinality(Cargo(f, p)) + i.quantity
  <1> USE StockAssumption
  <1>1. i \in Items /\ i.quantity \in 1..MaxQty /\ items[t] \subseteq Items
    BY DEF TransferTypeOK, Items
  <1>2. \A j \in items[t] : ProductOf[j.from] = p => j = i
    BY DEF TransferTypeOK, OneRoute
  <1>3. PICK New : New = Column(<<t, i>>, 0, i.quantity)
    OBVIOUS
  <1>4. IsFiniteSet(New) /\ Cardinality(New) = i.quantity
    BY <1>3, <1>1, ColumnSize
  <1>5. IsFiniteSet(Cargo(f, p)) /\ Cardinality(Cargo(f, p)) \in Nat
    BY CargoFinite
  <1>6. Cargo(g, p) = Cargo(f, p) \cup New
    <2>1. ASSUME NEW u \in (Transfers \X Items) \X (1..MaxQty)
          PROVE  u \in Cargo(g, p) <=> u \in Cargo(f, p) \cup New
      <3>1. u = <<<<u[1][1], u[1][2]>>, u[2]>> /\ u[2] \in 1..MaxQty
        OBVIOUS
      <3>2. u \in New <=> u[1][1] = t /\ u[1][2] = i /\ u[2] <= i.quantity
        BY <1>3, <1>1, <3>1 DEF Column
      <3>3. CASE u[1][1] = t
        <4>1. u \notin Cargo(f, p)
          BY <3>3 DEF Cargo
        <4>2. u \in Cargo(g, p) <=> u[1][2] = i /\ u[2] <= i.quantity
          BY <1>2, <3>3 DEF Cargo
        <4>3. QED BY <3>2, <3>3, <4>1, <4>2
      <3>4. CASE u[1][1] # t
        BY <3>2, <3>4 DEF Cargo
      <3>5. QED BY <3>3, <3>4
    <2>2. New \subseteq (Transfers \X Items) \X (1..MaxQty)
      BY <1>3, <1>1 DEF Column
    <2>3. /\ Cargo(g, p) \subseteq (Transfers \X Items) \X (1..MaxQty)
          /\ Cargo(f, p) \subseteq (Transfers \X Items) \X (1..MaxQty)
      BY DEF Cargo
    <2>4. QED BY <2>1, <2>2, <2>3
  <1>7. Cargo(f, p) \cap New = {}
    BY <1>3 DEF Column, Cargo
  <1>8. Cardinality(Cargo(f, p) \cap New) = 0
    BY <1>7, FS_EmptySet
  <1>9. Cardinality(Cargo(f, p) \cup New) =
          Cardinality(Cargo(f, p)) + Cardinality(New) - Cardinality(Cargo(f, p) \cap New)
    BY <1>4, <1>5, FS_Union
  <1>10. QED BY <1>1, <1>4, <1>5, <1>6, <1>8, <1>9

(* A transfer without the product makes no difference to it.               *)
LEMMA CargoKept ==
  ASSUME NEW p, NEW t \in Transfers, NEW f, NEW g,
         \A u \in Transfers \ {t} : g[u] = f[u],
         \/ \A i \in items[t] : ProductOf[i.from] # p
         \/ f[t] # "in_transit" /\ g[t] # "in_transit"
  PROVE  Cargo(g, p) = Cargo(f, p)
  BY DEF Cargo

LEMMA GoodsDispatch ==
  ASSUME TransferTypeOK, TransferTypeOK', NEW p \in Products, NEW t \in Transfers,
         NEW started \in StartTimes, Dispatch(t, started)
  PROVE  Physical(p)' = Physical(p)
  <1>1. /\ OnShelf(p) = Shelf(onHand, p) /\ OnShelf(p)' = Shelf(onHand', p)
        /\ InTransit(p) = Cargo(transfer, p) /\ InTransit(p)' = Cargo(transfer', p)
    BY DEF Dispatch, OnShelf, Shelf, InTransit, Cargo
  <1>2. /\ transfer[t] = "pending" /\ transfer'[t] = "in_transit"
        /\ \A u \in Transfers \ {t} : transfer'[u] = transfer[u]
    BY DEF Dispatch, TransferTypeOK
  <1>3. onHand \in [Levels -> 0..MaxStock] /\ onHand' \in [Levels -> 0..MaxStock]
    BY DEF TransferTypeOK, StockTypeOK
  <1>4. CASE \E i \in items[t] : ProductOf[i.from] = p
    <2> PICK i \in items[t] : ProductOf[i.from] = p
      BY <1>4
    <2>1. i \in Items /\ i.from \in Levels /\ i.quantity \in Nat
      BY DEF TransferTypeOK, Items
    <2>2. \A j \in items[t] : ProductOf[j.from] = p => j = i
      BY DEF TransferTypeOK, OneRoute
    <2>3. onHand[i.from] = onHand'[i.from] + i.quantity
      BY <1>3, <2>1, TakenIs DEF Dispatch
    <2>4. \A m \in Levels \ {i.from} : ProductOf[m] = p => onHand[m] = onHand'[m]
      BY <1>3, <2>2 DEF Dispatch, Taken
    <2>5. Cardinality(Shelf(onHand, p)) = Cardinality(Shelf(onHand', p)) + i.quantity
      BY <1>3, <2>1, <2>3, <2>4, ShelfGrows
    <2>6. Cardinality(Cargo(transfer', p)) = Cardinality(Cargo(transfer, p)) + i.quantity
      BY <1>2, CargoGrows
    <2>7. Cardinality(Shelf(onHand', p)) \in Nat /\ Cardinality(Cargo(transfer, p)) \in Nat
      BY ShelfFinite, CargoFinite
    <2>8. QED BY <1>1, <2>1, <2>5, <2>6, <2>7 DEF Physical
  <1>5. CASE ~ \E i \in items[t] : ProductOf[i.from] = p
    <2>1. \A m \in Levels : ProductOf[m] = p => onHand[m] = onHand'[m]
      BY <1>3, <1>5 DEF Dispatch, Taken
    <2>2. Shelf(onHand', p) = Shelf(onHand, p)
      BY <2>1 DEF Shelf
    <2>3. Cargo(transfer', p) = Cargo(transfer, p)
      BY <1>2, <1>5, CargoKept
    <2>4. QED BY <1>1, <2>2, <2>3 DEF Physical
  <1>6. QED BY <1>4, <1>5

LEMMA GoodsReceive ==
  ASSUME TransferTypeOK, TransferTypeOK', NEW p \in Products, NEW t \in Transfers,
         Receive(t)
  PROVE  Physical(p)' = Physical(p)
  <1>1. /\ OnShelf(p) = Shelf(onHand, p) /\ OnShelf(p)' = Shelf(onHand', p)
        /\ InTransit(p) = Cargo(transfer, p) /\ InTransit(p)' = Cargo(transfer', p)
    BY DEF Receive, OnShelf, Shelf, InTransit, Cargo
  <1>2. /\ transfer[t] = "in_transit" /\ transfer'[t] # "in_transit"
        /\ \A u \in Transfers \ {t} : transfer[u] = transfer'[u]
    BY DEF Receive, TransferTypeOK
  <1>3. onHand \in [Levels -> 0..MaxStock] /\ onHand' \in [Levels -> 0..MaxStock]
    BY DEF TransferTypeOK, StockTypeOK
  <1>4. CASE \E i \in items[t] : ProductOf[i.from] = p
    <2> PICK i \in items[t] : ProductOf[i.from] = p
      BY <1>4
    <2>1. i \in Items /\ i.to \in Levels /\ ProductOf[i.to] = p /\ i.quantity \in Nat
      BY DEF TransferTypeOK, Items
    <2>2. \A j \in items[t] : ProductOf[j.to] = p => j = i
      BY DEF TransferTypeOK, OneRoute, Items
    <2>3. onHand'[i.to] = onHand[i.to] + i.quantity
      BY <1>3, <2>1, TakenIs DEF Receive
    <2>4. \A m \in Levels \ {i.to} : ProductOf[m] = p => onHand'[m] = onHand[m]
      BY <1>3, <2>2 DEF Receive, Brought
    <2>5. Cardinality(Shelf(onHand', p)) = Cardinality(Shelf(onHand, p)) + i.quantity
      BY <1>3, <2>1, <2>3, <2>4, ShelfGrows
    <2>6. Cardinality(Cargo(transfer, p)) = Cardinality(Cargo(transfer', p)) + i.quantity
      BY <1>2, CargoGrows
    <2>7. Cardinality(Shelf(onHand, p)) \in Nat /\ Cardinality(Cargo(transfer', p)) \in Nat
      BY ShelfFinite, CargoFinite
    <2>8. QED BY <1>1, <2>1, <2>5, <2>6, <2>7 DEF Physical
  <1>5. CASE ~ \E i \in items[t] : ProductOf[i.from] = p
    <2>1. \A m \in Levels : ProductOf[m] = p => onHand[m] = onHand'[m]
      BY <1>3, <1>5 DEF Receive, Brought, Items, TransferTypeOK
    <2>2. Shelf(onHand', p) = Shelf(onHand, p)
      BY <2>1 DEF Shelf
    <2>3. Cargo(transfer', p) = Cargo(transfer, p)
      BY <1>2, <1>5, CargoKept
    <2>4. QED BY <1>1, <2>2, <2>3 DEF Physical
  <1>6. QED BY <1>4, <1>5

LEMMA GoodsTransferStep ==
  TransferTypeOK /\ TransferTypeOK' /\ GoodsConserved /\ TransferStep => GoodsConserved'
  <1> SUFFICES ASSUME TransferTypeOK, TransferTypeOK', GoodsConserved, TransferStep
               PROVE  GoodsConserved'
    OBVIOUS
  <1>1. ASSUME NEW p \in Products PROVE Physical(p)' = Physical(p) /\ booked' = booked
    <2> PICK t \in Transfers :
             \/ \E lines \in SUBSET Items : CreateTransfer(t, lines)
             \/ \E started \in StartTimes : Dispatch(t, started)
             \/ Receive(t)
             \/ CancelTransfer(t)
      BY DEF TransferStep
    <2>1. ASSUME NEW started \in StartTimes, Dispatch(t, started)
          PROVE  Physical(p)' = Physical(p) /\ booked' = booked
      BY <2>1, GoodsDispatch DEF Dispatch
    <2>2. ASSUME Receive(t) PROVE Physical(p)' = Physical(p) /\ booked' = booked
      BY <2>2, GoodsReceive DEF Receive
    <2>3. ASSUME NEW lines \in SUBSET Items, CreateTransfer(t, lines)
          PROVE  Physical(p)' = Physical(p) /\ booked' = booked
      <3>1. OnShelf(p)' = OnShelf(p)
        BY <2>3 DEF CreateTransfer, stockVars, OnShelf
      <3>2. InTransit(p)' = InTransit(p)
        BY <2>3 DEF CreateTransfer, InTransit, TransferTypeOK
      <3>3. QED BY <2>3, <3>1, <3>2 DEF Physical, CreateTransfer
    <2>4. ASSUME CancelTransfer(t) PROVE Physical(p)' = Physical(p) /\ booked' = booked
      <3>1. OnShelf(p)' = OnShelf(p)
        BY <2>4 DEF CancelTransfer, stockVars, OnShelf
      <3>2. InTransit(p)' = InTransit(p)
        BY <2>4 DEF CancelTransfer, InTransit, TransferTypeOK
      <3>3. QED BY <2>4, <3>1, <3>2 DEF Physical, CancelTransfer
    <2>5. QED BY <2>1, <2>2, <2>3, <2>4
  <1>2. QED BY <1>1 DEF GoodsConserved

LEMMA GoodsOtherStep ==
  TransferTypeOK /\ GoodsConserved /\ OtherStep => GoodsConserved'
  <1> SUFFICES ASSUME TransferTypeOK, GoodsConserved, OtherStep, NEW p \in Products
               PROVE  Physical(p)' = booked'[p] + Cardinality(Shelf(InitialStock, p))
    BY DEF GoodsConserved, Shelf
  <1>1. InTransit(p)' = InTransit(p)
    BY DEF OtherStep, InTransit
  <1>2. OnShelf(p) = Shelf(onHand, p) /\ OnShelf(p)' = Shelf(onHand', p)
    BY DEF OnShelf, Shelf
  <1>3. Physical(p) = booked[p] + Cardinality(Shelf(InitialStock, p))
    BY DEF GoodsConserved, Shelf
  <1>4. /\ Cardinality(Shelf(InitialStock, p)) \in Nat
        /\ Cardinality(Shelf(onHand, p)) \in Nat /\ Cardinality(Shelf(onHand', p)) \in Nat
    BY ShelfFinite
  <1>5. Physical(p)' = Cardinality(OnShelf(p)') + Cardinality(InTransit(p))
    BY <1>1 DEF Physical
  <1>6. booked'[p] = booked[p] + Cardinality(OnShelf(p)') - Cardinality(OnShelf(p))
    BY DEF OtherStep
  <1>7. QED BY <1>2, <1>3, <1>4, <1>5, <1>6, GoodsFinite
               DEF Physical, TransferTypeOK

-----------------------------------------------------------------------------
(* The theorems.  A dispatch must not make stock negative: that it checks  *)
(* what is available is enough, oversold or not.  So the invariant does    *)
(* without NoOversell, which rests on the engine's decisions (StockProofs).*)

TransferInv == TransferTypeOK /\ OrderMatchesHolds /\ GoodsConserved

LEMMA TransferInvInit == TransferInit => TransferInv
  <1> SUFFICES ASSUME TransferInit PROVE TransferInv
    OBVIOUS
  <1>1. StockTypeOK /\ OrderMatchesHolds
    BY TypeInit, StoryInit DEF TransferInit
  <1>2. TransferTypeOK
    BY <1>1 DEF TransferInit, TransferTypeOK, TransferStatuses, OneRoute
  <1>3. ASSUME NEW p \in Products
        PROVE  Physical(p) = booked[p] + Cardinality(Shelf(InitialStock, p))
    <2>1. OnShelf(p) = Shelf(InitialStock, p)
      BY DEF TransferInit, StockInit, OnShelf, Shelf
    <2>2. InTransit(p) = {}
      BY DEF TransferInit, InTransit
    <2>3. Cardinality(InTransit(p)) = 0
      BY <2>2, FS_EmptySet
    <2>4. QED BY <2>1, <2>3, ShelfFinite DEF TransferInit, Physical
  <1>4. GoodsConserved
    BY <1>3 DEF GoodsConserved, Shelf
  <1>5. QED BY <1>1, <1>2, <1>4 DEF TransferInv

LEMMA TransferInvStep == TransferInv /\ [TransferNext]_vars => TransferInv'
  <1> SUFFICES ASSUME TransferInv, [TransferNext]_vars PROVE TransferInv'
    OBVIOUS
  <1> USE DEF TransferInv
  <1>1. CASE TransferStep
    <2>1. TransferTypeOK'
      BY <1>1, TypeTransferStep
    <2>2. OrderMatchesHolds' /\ GoodsConserved'
      BY <1>1, <2>1, StoryTransferStep, GoodsTransferStep
    <2>3. QED BY <2>1, <2>2
  <1>2. CASE OtherStep
    <2>1. TransferTypeOK'
      BY <1>2, TypeOtherStep
    <2>2. StockTypeOK /\ StockTypeOK' /\ StockNext
      BY <1>2, <2>1 DEF TransferTypeOK, OtherStep
    <2>3. OrderMatchesHolds'
      BY <2>2, StoryStep
    <2>4. GoodsConserved'
      BY <1>2, GoodsOtherStep
    <2>5. QED BY <2>1, <2>3, <2>4
  <1>3. CASE UNCHANGED vars
    <2>1. TransferTypeOK'
      BY <1>3 DEF vars, transferVars, stockVars, TransferTypeOK, StockTypeOK
    <2>2. OrderMatchesHolds'
      BY <1>3, <2>1, StoryStep DEF vars, TransferTypeOK
    <2>3. ASSUME NEW p \in Products PROVE Physical(p)' = Physical(p) /\ booked' = booked
      <3>1. OnShelf(p)' = OnShelf(p) /\ InTransit(p)' = InTransit(p) /\ booked' = booked
        BY <1>3 DEF vars, transferVars, stockVars, OnShelf, InTransit
      <3>2. QED BY <3>1 DEF Physical
    <2>4. GoodsConserved'
      BY <2>3 DEF GoodsConserved
    <2>5. QED BY <2>1, <2>2, <2>4
  <1>4. QED BY <1>1, <1>2, <1>3 DEF TransferNext

LEMMA TransferInvariance == TransferSpec => []TransferInv
  BY TransferInvInit, TransferInvStep, PTL DEF TransferSpec

(* No dispatch makes stock negative, and every transfer keeps one route.   *)
THEOREM TransferTyping == TransferSpec => []TransferTypeOK
  <1>1. TransferInv => TransferTypeOK
    BY DEF TransferInv
  <1>2. QED BY <1>1, TransferInvariance, PTL

(* Nothing that is promised to anyone is sent away: transfers oversell no  *)
(* level that the decisions of the allocation engine do not.               *)
THEOREM TransfersNeverOversell == TransferSpec /\ AutoOrdersFit => []NoOversell
  <1>1. /\ TransferInv /\ TransferInv' /\ NoOversell
        /\ [TransferNext]_vars /\ [DecisionsAreWithin]_stockVars
        => NoOversell'
    <2>1. TransferInv /\ TransferInv' /\ NoOversell /\ TransferStep => NoOversell'
      BY NoOversellTransferStep DEF TransferInv
    <2>2. /\ TransferInv /\ TransferInv' /\ NoOversell
          /\ OtherStep \/ UNCHANGED vars
          /\ [DecisionsAreWithin]_stockVars
          => NoOversell'
      BY NoOversellStep DEF NoOversellInv, TransferInv, TransferTypeOK, OtherStep, vars
    <2>3. QED BY <2>1, <2>2 DEF TransferNext
  <1>2. TransferInit => NoOversell
    BY NoOversellInit DEF TransferInit
  <1>3. QED BY <1>1, <1>2, TransferInvariance, PTL DEF TransferSpec, AutoOrdersFit

(* Goods neither vanish nor double on their way.                           *)
THEOREM TransfersConserveGoods == TransferSpec => []GoodsConserved
  <1>1. TransferInv => GoodsConserved
    BY DEF TransferInv
  <1>2. QED BY <1>1, TransferInvariance, PTL

(* To those who hold promises, a transfer is a recount that still honours  *)
(* all of them, as long as the engine's decisions fit.                     *)
THEOREM TransfersKeepLedger == TransferSpec /\ AutoOrdersFit => ImplementsLedger
  <1>1. /\ TransferInv /\ TransferInv' /\ NoOversell /\ NoOversell' /\ [TransferNext]_vars
        => [AsLedger!Next]_(AsLedger!ledgerVars)
    <2>1. TransferInv /\ TransferInv' /\ NoOversell' /\ TransferStep =>
             [AsLedger!Next]_(AsLedger!ledgerVars)
      BY LedgerTransferStep DEF TransferInv
    <2>2. /\ TransferInv /\ TransferInv' /\ NoOversell /\ NoOversell'
          /\ OtherStep \/ UNCHANGED vars
          => [AsLedger!Next]_(AsLedger!ledgerVars)
      BY LedgerStep DEF TransferInv, LedgerInv, TransferTypeOK, OtherStep, vars
    <2>3. QED BY <2>1, <2>2 DEF TransferNext
  <1>2. TransferInit => AsLedger!Init
    BY LedgerStart DEF TransferInit
  <1>3. QED BY <1>1, <1>2, TransferInvariance, TransfersNeverOversell, PTL
               DEF TransferSpec, ImplementsLedger, AsLedger!Spec

(* With one product, or one warehouse, no level is oversold and every      *)
(* promise kept whatever is transferred, automatic orders included.        *)
THEOREM UnsplitTransfersAreSafe ==
  (OneProduct \/ OneWarehouse) /\ TransferSpec => []NoOversell /\ ImplementsLedger
  BY UnsplitOrdersFit, TransfersNeverOversell, TransfersKeepLedger, PTL

-----------------------------------------------------------------------------
(* The n-th of some numbers.                                               *)
UpTo(S, i) == Cardinality({j \in S : j <= i})

LEMMA UpToType ==
  ASSUME NEW S \in SUBSET Nat, IsFiniteSet(S), NEW i \in S
  PROVE  /\ UpTo(S, i) \in 1..Cardinality(S)
         /\ IsFiniteSet({j \in S : j <= i})
  <1> DEFINE below == {j \in S : j <= i}
  <1>1. below \in SUBSET S /\ i \in below
    OBVIOUS
  <1> HIDE DEF below
  <1>2. IsFiniteSet(below) /\ Cardinality(below) <= Cardinality(S)
    BY <1>1, FS_Subset
  <1>3. Cardinality(below) \in Nat /\ Cardinality(S) \in Nat
    BY <1>2, FS_CardinalityType
  <1>4. Cardinality(below) # 0
    BY <1>1, <1>2, FS_EmptySet
  <1>5. QED BY <1>2, <1>3, <1>4 DEF UpTo, below

LEMMA UpToGrows ==
  ASSUME NEW S \in SUBSET Nat, IsFiniteSet(S), NEW i \in S, NEW j \in S, i < j
  PROVE  UpTo(S, i) < UpTo(S, j)
  <1> DEFINE low == {k \in S : k <= i}
             high == {k \in S : k <= j}
  <1>1. IsFiniteSet(low) /\ IsFiniteSet(high)
    BY UpToType
  <1>2. low \in SUBSET (high \ {j}) /\ j \in high
    <2>1. \A k \in S : k \in Nat
      OBVIOUS
    <2>2. \A k \in S : k <= i => k <= j /\ k # j
      BY <2>1
    <2>3. low \subseteq high \ {j}
      BY <2>2
    <2>4. j \in high
      BY <2>1
    <2>5. QED BY <2>3, <2>4
  <1>3. Cardinality(low) \in Nat /\ Cardinality(high) \in Nat
    BY <1>1, FS_CardinalityType
  <1> HIDE DEF low, high
  <1>4. /\ IsFiniteSet(high \ {j}) /\ Cardinality(high \ {j}) = Cardinality(high) - 1
    BY <1>1, <1>2, FS_RemoveElement
  <1>5. Cardinality(low) <= Cardinality(high \ {j})
    BY <1>2, <1>4, FS_Subset
  <1>6. QED BY <1>3, <1>4, <1>5 DEF UpTo, low, high

(* Nth counts them all, each once.                                         *)
LEMMA NthOfSet ==
  ASSUME NEW S \in SUBSET Nat, IsFiniteSet(S)
  PROVE  /\ Cardinality(S) \in Nat
         /\ \A n \in 1..Cardinality(S) : Nth(S, n) \in S /\ UpTo(S, Nth(S, n)) = n
         /\ \A i \in S : UpTo(S, i) \in 1..Cardinality(S) /\ Nth(S, UpTo(S, i)) = i
  <1> DEFINE f == [i \in S |-> UpTo(S, i)]
  <1>1. Cardinality(S) \in Nat
    BY FS_CardinalityType
  <1>2. f \in [S -> 1..Cardinality(S)]
    BY UpToType
  <1>3. \A i, j \in S : UpTo(S, i) = UpTo(S, j) => i = j
    <2> SUFFICES ASSUME NEW i \in S, NEW j \in S, UpTo(S, i) = UpTo(S, j) PROVE i = j
      OBVIOUS
    <2>1. UpTo(S, i) \in 1..Cardinality(S)
      BY UpToType
    <2>2. UpTo(S, i) \in Nat
      BY <1>1, <2>1
    <2>3. ~(UpTo(S, i) < UpTo(S, j)) /\ ~(UpTo(S, j) < UpTo(S, i))
      BY <2>2
    <2>4. ~(i < j) /\ ~(j < i)
      BY <2>3, UpToGrows
    <2>5. i \in Nat /\ j \in Nat
      OBVIOUS
    <2>6. QED BY <2>4, <2>5
  <1>4. f \in Injection(S, 1..Cardinality(S))
    BY <1>2, <1>3 DEF Injection, IsInjective
  <1>5. IsFiniteSet(1..Cardinality(S)) /\ Cardinality(1..Cardinality(S)) = Cardinality(S)
    BY <1>1, FS_Interval
  <1>6. f \in Surjection(S, 1..Cardinality(S))
    <2> HIDE DEF f
    <2>1. QED BY <1>4, <1>5, FS_Injection
  <1>7. \A n \in 1..Cardinality(S) : \E i \in S : UpTo(S, i) = n
    BY <1>6 DEF Surjection
  <1>8. \A n \in 1..Cardinality(S) : Nth(S, n) \in S /\ UpTo(S, Nth(S, n)) = n
    BY <1>7 DEF Nth, UpTo
  <1>9. QED BY <1>1, <1>3, <1>8, UpToType

LEMMA NthOrders ==
  ASSUME NEW S \in SUBSET Nat, IsFiniteSet(S),
         NEW m \in 1..Cardinality(S), NEW n \in 1..Cardinality(S), m < n
  PROVE  Nth(S, m) < Nth(S, n)
  <1>1. /\ Cardinality(S) \in Nat
        /\ Nth(S, m) \in S /\ UpTo(S, Nth(S, m)) = m
        /\ Nth(S, n) \in S /\ UpTo(S, Nth(S, n)) = n
    BY NthOfSet
  <1>2. Nth(S, m) \in Nat /\ Nth(S, n) \in Nat /\ m # n /\ ~(n < m)
    <2>1. m \in Nat /\ n \in Nat
      BY <1>1
    <2>2. Nth(S, m) \in Nat /\ Nth(S, n) \in Nat
      BY <1>1
    <2>3. m # n /\ ~(n < m)
      BY <2>1
    <2>4. QED BY <2>2, <2>3
  <1>3. Nth(S, n) < Nth(S, m) => UpTo(S, Nth(S, n)) < UpTo(S, Nth(S, m))
    BY <1>1, UpToGrows
  <1>4. Nth(S, m) # Nth(S, n) /\ ~(Nth(S, n) < Nth(S, m))
    BY <1>1, <1>2, <1>3
  <1>5. QED BY <1>2, <1>4

(* If there are no gaps, the n-th is n.                                    *)
LEMMA NthOfInterval ==
  ASSUME NEW k \in Nat, NEW n \in 1..k
  PROVE  Nth(1..k, n) = n
  <1>1. IsFiniteSet(1..k) /\ Cardinality(1..k) = k /\ 1..k \in SUBSET Nat
    BY FS_Interval
  <1>2. {j \in 1..k : j <= n} = 1..n
    OBVIOUS
  <1>3. Cardinality(1..n) = n
    BY FS_Interval
  <1>4. UpTo(1..k, n) = n
    BY <1>2, <1>3 DEF UpTo
  <1>5. QED BY <1>1, <1>4, NthOfSet

-----------------------------------------------------------------------------
(* Pages.                                                                  *)
RowsAfter(s, since) == {r \in Rows : InScope(r, s) /\ (since # Absent => r < since.row)}

LEMMA RowsFinite ==
  ASSUME NEW R \in SUBSET Rows
  PROVE  R \in SUBSET Nat /\ IsFiniteSet(R) /\ Cardinality(R) \in Nat
  <1>1. IsFiniteSet(Rows) /\ Rows \subseteq Nat
    BY PagedAssumption, FS_Interval DEF Rows
  <1>2. QED BY <1>1, FS_Subset, FS_CardinalityType

LEMMA LesserOfTwo ==
  ASSUME NEW m \in Nat, NEW n \in Nat
  PROVE  (m <= n => Min({m, n}) = m) /\ (~(m <= n) => Min({m, n}) = n)
  BY DEF Min

LEMMA FollowingOrder ==
  ASSUME NEW s, NEW since
  PROVE  LET coming == Following(s, since)
         IN  /\ Len(coming) \in Nat
             /\ coming \in [1..Len(coming) -> RowsAfter(s, since)]
             /\ \A i, j \in 1..Len(coming) : i < j => coming[i] > coming[j]
             /\ \A r \in RowsAfter(s, since) : \E i \in 1..Len(coming) : coming[i] = r
  <1> DEFINE R == RowsAfter(s, since)
             n == Cardinality(R)
             coming == Following(s, since)
  <1>1. R \in SUBSET Rows
    BY DEF RowsAfter
  <1>2. R \in SUBSET Nat /\ IsFiniteSet(R) /\ n \in Nat
    BY <1>1, RowsFinite
  <1>3. coming = [i \in 1..n |-> Nth(R, n + 1 - i)]
    BY DEF Following, RowsAfter
  <1> HIDE DEF R, coming
  <1>4. \A k \in 1..n : Nth(R, k) \in R
    BY <1>2, NthOfSet
  <1>5. \A i \in 1..n : n + 1 - i \in 1..n
    BY <1>2
  <1>6. coming \in [1..n -> R]
    BY <1>3, <1>4, <1>5
  <1>7. Len(coming) = n
    BY <1>2, <1>6
  <1>8. ASSUME NEW i \in 1..n, NEW j \in 1..n, i < j PROVE coming[i] > coming[j]
    <2>1. Nth(R, n + 1 - j) < Nth(R, n + 1 - i)
      <3>1. n + 1 - j < n + 1 - i
        BY <1>2, <1>8
      <3>2. QED BY <1>2, <1>5, <3>1, NthOrders
    <2>2. coming[i] = Nth(R, n + 1 - i) /\ coming[j] = Nth(R, n + 1 - j)
      BY <1>3
    <2>3. coming[i] \in Nat /\ coming[j] \in Nat
      BY <1>2, <1>6
    <2>4. QED BY <2>1, <2>2, <2>3
  <1>9. ASSUME NEW r \in R PROVE \E i \in 1..n : coming[i] = r
    <2>1. UpTo(R, r) \in 1..n /\ Nth(R, UpTo(R, r)) = r
      BY <1>2, NthOfSet
    <2>2. n + 1 - UpTo(R, r) \in 1..n /\ n + 1 - (n + 1 - UpTo(R, r)) = UpTo(R, r)
      BY <1>2, <2>1
    <2>3. QED BY <1>3, <2>1, <2>2
  <1>10. QED BY <1>2, <1>6, <1>7, <1>8, <1>9 DEF R, coming

NewestFirst(l) == \A i, j \in DOMAIN l : i < j => l[i].row > l[j].row

Fits(l, s) ==
    \A i \in DOMAIN l : Tenant[l[i].row] = s.org /\ s.filter \in {"all", l[i].status}

(* A cursor names the last row.                                            *)
EndsAt(l, c) == c # Absent => Len(l) > 0 /\ c.row = l[Len(l)].row

(* What a page shows: the rows of its scope after a cursor, newest first,  *)
(* as far as the next cursor says.                                         *)
LEMMA PageFacts ==
  ASSUME stored \in [Rows -> RowStatuses \cup {Absent}], NEW s \in Scopes, NEW since
  PROVE  LET page == ListPage(s, since)
         IN  /\ page \in Pages
             /\ NewestFirst(page.items) /\ Fits(page.items, s)
             /\ \A i \in DOMAIN page.items : since # Absent => page.items[i].row < since.row
             /\ EndsAt(page.items, page.next)
             /\ \A r \in Rows :
                   /\ InScope(r, s) /\ (since # Absent => r < since.row)
                   /\ page.next = Absent \/ r >= page.next.row
                   => \E i \in DOMAIN page.items : page.items[i].row = r
  <1> DEFINE R == RowsAfter(s, since)
             coming == Following(s, since)
             n == Len(coming)
             k == Min({PageSize, n})
             page == ListPage(s, since)
             more == page.items
             next == page.next
  <1>1. /\ n \in Nat /\ coming \in [1..n -> R]
        /\ \A i, j \in 1..n : i < j => coming[i] > coming[j]
        /\ \A r \in R : \E i \in 1..n : coming[i] = r
    BY FollowingOrder
  <1>2. PageSize \in Nat /\ PageSize >= 1
    BY PagedAssumption
  <1>3. (PageSize <= n => k = PageSize) /\ (~(PageSize <= n) => k = n)
    <2> HIDE DEF n
    <2>1. QED BY <1>1, <1>2, LesserOfTwo
  <1>4. /\ more = [i \in 1..k |-> [row |-> coming[i], status |-> stored[coming[i]]]]
        /\ next = IF n > PageSize THEN [org |-> s.org, row |-> coming[PageSize]] ELSE Absent
        /\ page = [items |-> more, next |-> next]
    BY DEF ListPage, Cut
  <1>5. ASSUME NEW r \in R
        PROVE  /\ r \in Rows /\ r \in Nat /\ InScope(r, s) /\ (since # Absent => r < since.row)
               /\ stored[r] \in RowStatuses
               /\ Tenant[r] = s.org /\ s.filter \in {"all", stored[r]}
    <2>1. r \in Rows /\ InScope(r, s) /\ (since # Absent => r < since.row)
      BY DEF RowsAfter
    <2>2. r \in Nat
      BY <2>1, PagedAssumption DEF Rows
    <2>3. QED BY <2>1, <2>2 DEF InScope
  <1> HIDE DEF R, coming, n, k, page, more, next
  <1>6. k \in Nat /\ k <= n /\ 1..k \subseteq 1..n
    BY <1>1, <1>2, <1>3
  <1>7. DOMAIN more = 1..k /\ Len(more) = k
    BY <1>4, <1>6
  <1>8. ASSUME NEW i \in 1..k
        PROVE  /\ coming[i] \in R /\ more[i].row = coming[i]
               /\ more[i].status = stored[coming[i]] /\ more[i] \in Listed
    BY <1>1, <1>4, <1>5, <1>6 DEF Listed
  <1>9. more \in Seq(Listed)
    BY <1>4, <1>6, <1>7, <1>8
  <1>10. next \in Cursors \cup {Absent}
    <2>1. ASSUME n > PageSize PROVE [org |-> s.org, row |-> coming[PageSize]] \in Cursors
      <3>1. PageSize \in 1..n
        BY <1>1, <1>2, <2>1
      <3>2. QED BY <1>1, <1>5, <3>1 DEF Cursors, Scopes
    <2>2. QED BY <1>4, <2>1
  <1>11. page \in Pages
    BY <1>4, <1>9, <1>10 DEF Pages
  <1>12. NewestFirst(more)
    BY <1>1, <1>6, <1>7, <1>8 DEF NewestFirst
  <1>13. Fits(more, s)
    BY <1>5, <1>7, <1>8 DEF Fits
  <1>14. \A i \in DOMAIN more : since # Absent => more[i].row < since.row
    BY <1>5, <1>7, <1>8
  <1>15. next # Absent => /\ n > PageSize /\ k = PageSize
                          /\ next.row = coming[PageSize] /\ PageSize \in 1..k
    BY <1>1, <1>2, <1>3, <1>4
  <1>16. EndsAt(more, next)
    BY <1>2, <1>7, <1>8, <1>15 DEF EndsAt
  <1>17. ASSUME NEW r \in Rows, InScope(r, s), since # Absent => r < since.row,
                next = Absent \/ r >= next.row
         PROVE  \E i \in DOMAIN more : more[i].row = r
    <2>1. r \in R
      BY <1>17 DEF R, RowsAfter
    <2>2. PICK i \in 1..n : coming[i] = r
      BY <1>1, <2>1
    <2>3. i \in 1..k
      <3>1. CASE n > PageSize
        <4>1. next # Absent
          <5>1. coming[PageSize] \in Rows /\ s.org \in Tenants
            <6>1. PageSize \in 1..n
              BY <1>1, <1>2, <3>1
            <6>2. QED BY <1>1, <1>5, <6>1 DEF Scopes
          <5>2. QED BY <1>4, <3>1, <5>1, PagedAssumption
        <4>2. r >= coming[PageSize] /\ PageSize \in 1..n /\ k = PageSize
          BY <1>1, <1>2, <1>15, <1>17, <4>1
        <4>3. ~(PageSize < i)
          <5>1. coming[PageSize] \in Nat /\ r \in Nat
            BY <1>1, <1>5, <2>1, <4>2
          <5>2. QED BY <1>1, <2>2, <4>2, <5>1
        <4>4. QED BY <1>1, <1>2, <4>2, <4>3
      <3>2. CASE ~(n > PageSize)
        BY <1>1, <1>2, <1>3, <3>2
      <3>3. QED BY <3>1, <3>2
    <2>4. QED BY <1>7, <1>8, <2>2, <2>3
  <1>18. QED BY <1>11, <1>12, <1>13, <1>14, <1>16, <1>17 DEF page, more, next

(* Items of which none is there already are all appended.                  *)
LEMMA AppendedNew ==
  ASSUME NEW old, NEW more \in Seq(Listed),
         \A i \in DOMAIN more, j \in DOMAIN old : old[j].row # more[i].row
  PROVE  Appended(old, more) = old \o more
  <1> DEFINE k == Len(more)
             new == {i \in DOMAIN more : \A j \in DOMAIN old : old[j].row # more[i].row}
             kept == [n \in 1..Cardinality(new) |-> more[Nth(new, n)]]
  <1>1. k \in Nat /\ DOMAIN more = 1..k /\ more = [i \in 1..k |-> more[i]]
    OBVIOUS
  <1> HIDE DEF k
  <1>2. new = 1..k
    BY <1>1
  <1>3. Cardinality(new) = k
    <2>1. Cardinality(1..k) = k
      BY <1>1, FS_Interval
    <2>2. QED BY <1>2, <2>1
  <1>4. kept = [n \in 1..k |-> more[n]]
    <2>1. \A n \in 1..k : Nth(new, n) = n
      BY <1>1, <1>2, NthOfInterval
    <2> HIDE DEF new
    <2>2. QED BY <1>3, <2>1
  <1>5. Appended(old, more) = old \o kept
    BY DEF Appended
  <1>6. QED BY <1>1, <1>4, <1>5

-----------------------------------------------------------------------------
(* The view.                                                               *)
Current(q) == q.generation = generation

(* One request of the view's generation at a time, and its answer is for   *)
(* what the view waits for.                                                *)
OneRequest ==
    /\ \A p, q \in requests : Current(p) /\ Current(q) => p = q
    /\ \A q \in requests : Current(q) =>
          /\ q.scope = scope
          /\ q.append  => screen = "ready" /\ loadingMore /\ q.cursor = cursor /\ cursor # Absent
          /\ ~q.append => screen = "loading" /\ ~loadingMore /\ q.cursor = Absent

Covers(l, c, rows) ==
    \A r \in rows : c = Absent \/ r >= c.row => \E i \in DOMAIN l : l[i].row = r

(* The steady rows that a request asks for.                                *)
Asked(q) == {r \in steady : q.append => r < q.cursor.row}

(* An answer that is still to be shown.                                    *)
AnswerOK(q) ==
    q.page # Absent =>
        /\ NewestFirst(q.page.items) /\ Fits(q.page.items, scope)
        /\ q.append => \A i \in DOMAIN q.page.items : q.page.items[i].row < q.cursor.row
        /\ EndsAt(q.page.items, q.page.next)
        /\ Covers(q.page.items, q.page.next, Asked(q))

ViewOK ==
    /\ NewestFirst(shown) /\ Fits(shown, scope) /\ EndsAt(shown, cursor)
    /\ screen = "ready" => Covers(shown, cursor, steady)

SteadyOK == \A r \in steady : InScope(r, scope)

ListInv ==
    /\ PagedTypeOK /\ OneRequest /\ WaitsForAnAnswer /\ ViewOK /\ SteadyOK
    /\ \A q \in requests : Current(q) => AnswerOK(q)

RequestsOf(g) ==
    [generation: 1..g, append: BOOLEAN, scope: Scopes,
     cursor: Cursors \cup {Absent}, page: Pages \cup {Absent}]

LEMMA GenerationType ==
  ASSUME PagedTypeOK
  PROVE  generation \in Nat /\ generation >= 1 /\ requests \subseteq RequestsOf(generation)
  BY PagedAssumption DEF PagedTypeOK, RequestsOf

(* The database changes under the view.                                    *)
LEMMA StoreKeeps ==
  ASSUME ListInv, stored' \in [Rows -> RowStatuses \cup {Absent}], steady' \subseteq steady,
         SteadyOK', UNCHANGED <<scope, generation, requests, listVars>>
  PROVE  ListInv'
  <1> USE DEF listVars
  <1>1. PagedTypeOK'
    BY DEF ListInv, PagedTypeOK
  <1>2. OneRequest' /\ WaitsForAnAnswer'
    BY DEF ListInv, OneRequest, WaitsForAnAnswer, Current
  <1>3. ViewOK'
    BY DEF ListInv, ViewOK, Covers, NewestFirst, Fits, EndsAt
  <1>4. ASSUME NEW q \in requests, Current(q) PROVE AnswerOK(q)'
    BY <1>4 DEF ListInv, AnswerOK, Covers, Asked, NewestFirst, Fits, EndsAt
  <1>5. QED BY <1>1, <1>2, <1>3, <1>4 DEF ListInv, Current

LEMMA CommitKeepsList ==
  ASSUME ListInv, NEW r \in Rows, NEW st \in RowStatuses, Commit(r, st)
  PROVE  ListInv'
  <1>1. stored' \in [Rows -> RowStatuses \cup {Absent}]
    BY DEF Commit, ListInv, PagedTypeOK
  <1>2. SteadyOK'
    <2>1. \A q \in steady : q # r /\ stored'[q] = stored[q]
      BY DEF Commit, ListInv, PagedTypeOK, SteadyOK, InScope
    <2>2. QED BY <2>1 DEF Commit, ListInv, SteadyOK, InScope
  <1>3. QED BY <1>1, <1>2, StoreKeeps DEF Commit

LEMMA MoveKeepsList ==
  ASSUME ListInv, NEW r \in Rows, NEW st \in RowStatuses, Move(r, st)
  PROVE  ListInv'
  <1>1. stored' \in [Rows -> RowStatuses \cup {Absent}] /\ steady' \subseteq steady
    BY DEF Move, ListInv, PagedTypeOK
  <1>2. SteadyOK'
    <2> SUFFICES ASSUME NEW q \in steady' PROVE InScope(q, scope)'
      BY DEF SteadyOK
    <2>1. q \in steady /\ q \in Rows /\ InScope(q, scope) /\ scope' = scope
      BY <1>1 DEF Move, ListInv, PagedTypeOK, SteadyOK
    <2>2. CASE q # r
      <3>1. stored'[q] = stored[q]
        BY <2>1, <2>2 DEF Move, ListInv, PagedTypeOK
      <3>2. QED BY <2>1, <3>1 DEF InScope
    <2>3. CASE q = r
      <3>1. scope.filter = "all"
        BY <2>3 DEF Move
      <3>2. stored'[q] = st /\ st # Absent
        BY <2>1, <2>3, PagedAssumption DEF Move, ListInv, PagedTypeOK
      <3>3. QED BY <2>1, <3>1, <3>2 DEF InScope
    <2>4. QED BY <2>2, <2>3
  <1>3. QED BY <1>1, <1>2, StoreKeeps DEF Move

(* The view is emptied and asks for its first page: in a new generation,   *)
(* or again after a failure.                                               *)
LEMMA LoadKeeps ==
  ASSUME ListInv, NEW s \in Scopes, scope' = s, generation' \in 1..(MaxSwitches + 1),
         generation <= generation',
         \A q \in requests : q.generation # generation',
         LoadFirst(s, generation'), ~loadingMore', loadingMore' \in BOOLEAN,
         stored' = stored, steady' \subseteq steady, SteadyOK'
  PROVE  ListInv'
  <1> DEFINE new == Ask(FALSE, s, Absent, generation')
  <1>1. generation' \in Nat /\ generation' >= 1
    BY PagedAssumption
  <1>2. /\ new \in RequestsOf(generation')
        /\ new.generation = generation' /\ new.append = FALSE /\ new.scope = s
        /\ new.cursor = Absent /\ new.page = Absent
    BY <1>1, PagedAssumption DEF Ask, RequestsOf
  <1>3. /\ requests' = requests \cup {new}
        /\ screen' = "loading" /\ shown' = <<>> /\ cursor' = Absent /\ hasMore' = FALSE
    BY DEF LoadFirst
  <1> HIDE DEF new
  <1>4. requests' \subseteq RequestsOf(generation')
    <2>1. requests \subseteq RequestsOf(generation) /\ generation \in Nat
      BY GenerationType DEF ListInv
    <2>2. RequestsOf(generation) \subseteq RequestsOf(generation')
      BY <1>1, <2>1 DEF RequestsOf
    <2>3. QED BY <1>2, <1>3, <2>1, <2>2
  <1>5. PagedTypeOK'
    <2>1. shown' \in Seq(Listed)
      BY <1>3
    <2>2. steady' \subseteq Rows
      BY DEF ListInv, PagedTypeOK
    <2>3. QED BY <1>3, <1>4, <2>1, <2>2 DEF ListInv, PagedTypeOK, RequestsOf
  <1>6. \A q \in requests' : Current(q)' => q = new
    BY <1>3 DEF Current
  <1>7. OneRequest'
    BY <1>2, <1>3, <1>6 DEF OneRequest
  <1>8. WaitsForAnAnswer'
    BY <1>2, <1>3 DEF WaitsForAnAnswer
  <1>9. ViewOK'
    BY <1>3 DEF ViewOK, NewestFirst, Fits, EndsAt
  <1>10. \A q \in requests' : Current(q)' => AnswerOK(q)'
    BY <1>2, <1>6 DEF AnswerOK
  <1>11. QED BY <1>5, <1>7, <1>8, <1>9, <1>10 DEF ListInv

LEMMA SwitchKeepsList ==
  ASSUME ListInv, NEW s \in Scopes, Switch(s)
  PROVE  ListInv'
  <1>1. generation \in Nat /\ generation >= 1 /\ requests \subseteq RequestsOf(generation)
    BY GenerationType DEF ListInv
  <1>2. generation' = generation + 1 /\ generation <= MaxSwitches /\ MaxSwitches \in Nat
    BY PagedAssumption DEF Switch
  <1>3. generation' \in 1..(MaxSwitches + 1) /\ generation <= generation'
    BY <1>1, <1>2
  <1>4. \A q \in requests : q.generation # generation'
    <2>1. \A q \in requests : q.generation \in 1..generation
      BY <1>1 DEF RequestsOf
    <2>2. QED BY <1>1, <1>2, <2>1
  <1>5. steady' = {} /\ SteadyOK'
    BY DEF Switch, SteadyOK
  <1>6. LoadFirst(s, generation')
    BY <1>2 DEF Switch
  <1>7. QED BY <1>3, <1>4, <1>5, <1>6, LoadKeeps DEF Switch

LEMMA RetryKeepsList ==
  ASSUME ListInv, Retry
  PROVE  ListInv'
  <1>1. screen = "error" /\ UNCHANGED <<stored, scope, generation, loadingMore, steady>>
    BY DEF Retry
  <1>2. \A q \in requests : q.generation # generation'
    BY <1>1 DEF ListInv, OneRequest, Current
  <1>3. ~loadingMore
    BY <1>1 DEF ListInv, OneRequest, WaitsForAnAnswer, Current
  <1>4. LoadFirst(scope, generation')
    BY <1>1 DEF Retry
  <1>5. SteadyOK'
    BY <1>1 DEF ListInv, SteadyOK, InScope
  <1>6. /\ scope \in Scopes /\ scope' = scope /\ generation' \in 1..(MaxSwitches + 1)
        /\ generation <= generation' /\ loadingMore' \in BOOLEAN /\ ~loadingMore'
    BY <1>1, <1>3, GenerationType DEF ListInv, PagedTypeOK
  <1>7. QED BY <1>1, <1>2, <1>4, <1>5, <1>6, LoadKeeps

LEMMA LoadMoreKeepsList ==
  ASSUME ListInv, LoadMore
  PROVE  ListInv'
  <1> DEFINE new == Ask(TRUE, scope, cursor, generation)
  <1>1. /\ screen = "ready" /\ ~loadingMore /\ cursor # Absent /\ loadingMore' = TRUE
        /\ requests' = requests \cup {new}
        /\ UNCHANGED <<stored, scope, generation, screen, shown, cursor, hasMore, steady>>
    BY DEF LoadMore
  <1>2. /\ generation \in Nat /\ generation >= 1 /\ requests \subseteq RequestsOf(generation)
        /\ scope \in Scopes /\ cursor \in Cursors \cup {Absent}
    BY GenerationType DEF ListInv, PagedTypeOK
  <1>3. /\ new \in RequestsOf(generation)
        /\ new.generation = generation /\ new.append = TRUE /\ new.scope = scope
        /\ new.cursor = cursor /\ new.page = Absent
    BY <1>2, PagedAssumption DEF Ask, RequestsOf
  <1> HIDE DEF new
  <1>4. \A q \in requests : ~Current(q)
    BY <1>1 DEF ListInv, OneRequest
  <1>5. \A q \in requests' : Current(q)' => q = new
    BY <1>1, <1>4 DEF Current
  <1>6. PagedTypeOK'
    BY <1>1, <1>2, <1>3 DEF ListInv, PagedTypeOK, RequestsOf
  <1>7. OneRequest'
    BY <1>1, <1>3, <1>5 DEF OneRequest
  <1>8. WaitsForAnAnswer'
    BY <1>1, <1>3 DEF WaitsForAnAnswer
  <1>9. ViewOK' /\ SteadyOK'
    BY <1>1 DEF ListInv, ViewOK, SteadyOK, Covers, NewestFirst, Fits, EndsAt, InScope
  <1>10. \A q \in requests' : Current(q)' => AnswerOK(q)'
    BY <1>3, <1>5 DEF AnswerOK
  <1>11. QED BY <1>6, <1>7, <1>8, <1>9, <1>10 DEF ListInv

LEMMA ServeKeepsList ==
  ASSUME ListInv, NEW q \in requests, Serve(q)
  PROVE  ListInv'
  <1>1. PICK page, served :
           /\ page = ListPage(q.scope, q.cursor) /\ served = [q EXCEPT !.page = page]
           /\ q.page = Absent /\ requests' = (requests \ {q}) \cup {served}
           /\ UNCHANGED <<stored, scope, generation, listVars>>
    BY DEF Serve
  <1>2. /\ q \in RequestsOf(generation) /\ requests \subseteq RequestsOf(generation)
        /\ generation \in Nat
    BY GenerationType DEF ListInv
  <1>3. q.scope \in Scopes /\ q.cursor \in Cursors \cup {Absent} /\ q.append \in BOOLEAN
    BY <1>2 DEF RequestsOf
  <1>4. /\ page \in Pages
        /\ NewestFirst(page.items) /\ Fits(page.items, q.scope)
        /\ \A i \in DOMAIN page.items : q.cursor # Absent => page.items[i].row < q.cursor.row
        /\ EndsAt(page.items, page.next)
        /\ \A r \in Rows :
              /\ InScope(r, q.scope) /\ (q.cursor # Absent => r < q.cursor.row)
              /\ page.next = Absent \/ r >= page.next.row
              => \E i \in DOMAIN page.items : page.items[i].row = r
    BY <1>1, <1>3, PageFacts DEF ListInv, PagedTypeOK
  <1>5. /\ served \in RequestsOf(generation) /\ served.page = page
        /\ served.generation = q.generation /\ served.append = q.append
        /\ served.scope = q.scope /\ served.cursor = q.cursor
    BY <1>1, <1>2, <1>4 DEF RequestsOf
  <1>6. steady' \subseteq Rows
    BY DEF Serve, ListInv, PagedTypeOK
  <1>7. PagedTypeOK'
    BY <1>1, <1>2, <1>5, <1>6 DEF ListInv, PagedTypeOK, RequestsOf, listVars
  <1>8. OneRequest'
    <2>1. \A p \in requests' : Current(p)' => \/ p \in requests \ {q} /\ Current(p)
                                              \/ p = served /\ Current(q)
      BY <1>1, <1>5 DEF Current
    <2>2. \A r, p \in requests' : Current(r)' /\ Current(p)' => r = p
      BY <2>1 DEF ListInv, OneRequest
    <2>3. QED BY <1>1, <1>5, <2>1, <2>2 DEF ListInv, OneRequest, listVars
  <1>9. WaitsForAnAnswer'
    BY <1>1, <1>5 DEF ListInv, WaitsForAnAnswer, listVars
  <1>10. CASE ~Current(q)
    <2>1. steady' = steady
      BY <1>10 DEF Serve, Current
    <2>2. ViewOK' /\ SteadyOK'
      BY <1>1, <2>1 DEF ListInv, ViewOK, SteadyOK, Covers, NewestFirst, Fits, EndsAt, InScope,
                        listVars
    <2>3. ASSUME NEW p \in requests', Current(p)' PROVE AnswerOK(p)'
      <3>1. p \in requests /\ Current(p)
        BY <1>1, <1>5, <1>10, <2>3 DEF Current
      <3>2. QED BY <1>1, <2>1, <3>1
                   DEF ListInv, AnswerOK, Covers, Asked, NewestFirst, Fits, EndsAt
    <2>4. QED BY <1>7, <1>8, <1>9, <2>2, <2>3 DEF ListInv
  <1>11. CASE Current(q)
    <2>1. q.scope = scope
      BY <1>11 DEF ListInv, OneRequest
    <2>2. \A p \in requests' : Current(p)' => p = served
      BY <1>1, <1>11 DEF ListInv, OneRequest, Current
    <2>3. SteadyOK'
      <3>1. CASE q.append
        BY <1>1, <3>1 DEF Serve, ListInv, SteadyOK, InScope
      <3>2. CASE ~q.append
        BY <1>1, <1>11, <2>1, <3>2 DEF Serve, SteadyOK, InScope, Current
      <3>3. QED BY <3>1, <3>2
    <2>4. ViewOK'
      <3>1. CASE q.append
        <4>1. steady' = steady
          BY <3>1 DEF Serve
        <4>2. QED BY <1>1, <4>1 DEF ListInv, ViewOK, Covers, NewestFirst, Fits, EndsAt, listVars
      <3>2. CASE ~q.append
        <4>1. screen' = "loading"
          BY <1>1, <1>11, <3>2 DEF ListInv, OneRequest, listVars
        <4>2. QED BY <1>1, <4>1 DEF ListInv, ViewOK, NewestFirst, Fits, EndsAt, listVars
      <3>3. QED BY <3>1, <3>2
    <2>5. Covers(page.items, page.next, {r \in steady' : q.append => r < q.cursor.row})
      <3> SUFFICES ASSUME NEW r \in steady', q.append => r < q.cursor.row,
                          page.next = Absent \/ r >= page.next.row
                   PROVE  \E i \in DOMAIN page.items : page.items[i].row = r
        BY DEF Covers
      <3>1. r \in Rows /\ InScope(r, scope)
        <4>1. InScope(r, scope)'
          BY <2>3 DEF SteadyOK
        <4>2. QED BY <1>1, <1>6, <4>1 DEF InScope
      <3>2. q.cursor # Absent => r < q.cursor.row
        BY <1>11 DEF ListInv, OneRequest
      <3>3. QED BY <1>4, <2>1, <3>1, <3>2
    <2>6. AnswerOK(served)'
      <3>1. q.append => q.cursor # Absent
        BY <1>11 DEF ListInv, OneRequest
      <3>2. /\ served.page = page /\ served.append = q.append /\ served.cursor = q.cursor
            /\ scope' = scope
        BY <1>1, <1>5
      <3>3. QED BY <1>4, <2>1, <2>5, <3>1, <3>2 DEF AnswerOK, Asked
    <2>7. QED BY <1>7, <1>8, <1>9, <2>2, <2>3, <2>4, <2>6 DEF ListInv
  <1>12. QED BY <1>10, <1>11

(* The answer of an older generation goes nowhere.                         *)
LEMMA OldAnswerKeeps ==
  ASSUME ListInv, NEW q \in requests, ~Current(q), requests' = requests \ {q},
         UNCHANGED <<stored, scope, generation, steady, listVars>>
  PROVE  ListInv'
  <1> USE DEF listVars
  <1>1. PagedTypeOK'
    BY DEF ListInv, PagedTypeOK
  <1>2. OneRequest' /\ WaitsForAnAnswer'
    BY DEF ListInv, OneRequest, WaitsForAnAnswer, Current
  <1>3. ViewOK' /\ SteadyOK'
    BY DEF ListInv, ViewOK, SteadyOK, Covers, NewestFirst, Fits, EndsAt, InScope
  <1>4. ASSUME NEW p \in requests', Current(p)' PROVE AnswerOK(p)'
    BY <1>4 DEF ListInv, AnswerOK, Covers, Asked, NewestFirst, Fits, EndsAt, Current
  <1>5. QED BY <1>1, <1>2, <1>3, <1>4 DEF ListInv

(* After the answer of its own generation the view waits for nothing.      *)
LEMMA LastAnswerKeeps ==
  ASSUME ListInv, NEW q \in requests, Current(q), requests' = requests \ {q},
         UNCHANGED <<stored, scope, generation, steady>>,
         screen' \in {"ready", "error"}, loadingMore' = FALSE, hasMore' \in BOOLEAN,
         shown' \in Seq(Listed), cursor' \in Cursors \cup {Absent}, ViewOK'
  PROVE  ListInv'
  <1>1. PagedTypeOK'
    BY DEF ListInv, PagedTypeOK
  <1>2. \A p \in requests' : ~Current(p)'
    BY DEF ListInv, OneRequest, Current
  <1>3. SteadyOK'
    BY DEF ListInv, SteadyOK, InScope
  <1>4. QED BY <1>1, <1>2, <1>3 DEF ListInv, OneRequest, WaitsForAnAnswer

LEMMA FailKeepsList ==
  ASSUME ListInv, NEW q \in requests, Fail(q)
  PROVE  ListInv'
  <1>1. CASE Current(q)
    <2>1. /\ requests' = requests \ {q} /\ UNCHANGED <<stored, scope, generation, steady>>
          /\ screen' = IF q.append THEN "ready" ELSE "error"
          /\ loadingMore' = FALSE /\ UNCHANGED <<shown, cursor, hasMore>>
      BY <1>1 DEF Fail, Current
    <2>2. screen' = "ready" => screen = "ready"
      BY <1>1, <2>1 DEF ListInv, OneRequest
    <2>3. ViewOK'
      BY <2>1, <2>2 DEF ListInv, ViewOK, Covers, NewestFirst, Fits, EndsAt
    <2>4. QED BY <1>1, <2>1, <2>3, LastAnswerKeeps DEF ListInv, PagedTypeOK
  <1>2. CASE ~Current(q)
    BY <1>2, OldAnswerKeeps DEF Fail, Current
  <1>3. QED BY <1>1, <1>2

(* The rows of a first page, and those of a further page behind the rows   *)
(* that are shown.                                                         *)
LEMMA PageJoins ==
  ASSUME ListInv, NEW q \in requests, Current(q), q.page # Absent, q.append
  PROVE  LET all == Appended(shown, q.page.items)
         IN  /\ all \in Seq(Listed)
             /\ NewestFirst(all) /\ Fits(all, scope) /\ EndsAt(all, q.page.next)
             /\ Covers(all, q.page.next, steady)
  <1> DEFINE more == q.page.items
             next == q.page.next
             k == Len(shown)
             n == Len(more)
             all == Appended(shown, more)
  <1>1. q \in RequestsOf(generation) /\ q.cursor = cursor /\ cursor # Absent /\ screen = "ready"
    BY GenerationType DEF ListInv, OneRequest
  <1>2. cursor \in Cursors /\ q.page \in Pages
    BY <1>1 DEF ListInv, PagedTypeOK, RequestsOf
  <1>3. more \in Seq(Listed) /\ shown \in Seq(Listed) /\ next \in Cursors \cup {Absent}
    BY <1>2 DEF ListInv, PagedTypeOK, Pages
  <1>4. /\ NewestFirst(shown) /\ Fits(shown, scope) /\ EndsAt(shown, cursor)
        /\ Covers(shown, cursor, steady)
    BY <1>1 DEF ListInv, ViewOK
  <1>5. /\ NewestFirst(more) /\ Fits(more, scope) /\ EndsAt(more, next)
        /\ \A i \in DOMAIN more : more[i].row < cursor.row
        /\ Covers(more, next, Asked(q))
    BY <1>1 DEF ListInv, AnswerOK
  <1> HIDE DEF more, next
  <1>6. /\ k \in Nat /\ n \in Nat /\ DOMAIN shown = 1..k /\ DOMAIN more = 1..n
        /\ \A i \in 1..k : shown[i] \in Listed /\ shown[i].row \in Nat
        /\ \A i \in 1..n : more[i] \in Listed /\ more[i].row \in Nat
        /\ cursor.row \in Nat /\ k > 0 /\ cursor.row = shown[k].row
    <2>1. Rows \subseteq Nat
      BY PagedAssumption DEF Rows
    <2>2. \A l \in Listed : l.row \in Nat
      BY <2>1 DEF Listed
    <2>3. cursor.row \in Nat
      BY <1>2, <2>1 DEF Cursors
    <2>4. k > 0 /\ cursor.row = shown[k].row
      BY <1>1, <1>4 DEF EndsAt
    <2>5. QED BY <1>3, <2>2, <2>3, <2>4
  <1>7. Len(shown) = k /\ Len(more) = n
    OBVIOUS
  <1> HIDE DEF k, n
  <1>8. \A i \in 1..n, j \in 1..k : shown[j].row > more[i].row
    <2> SUFFICES ASSUME NEW i \in 1..n, NEW j \in 1..k PROVE shown[j].row > more[i].row
      OBVIOUS
    <2>1. j = k \/ j < k
      BY <1>6
    <2>2. shown[j].row >= cursor.row
      <3>1. j < k => shown[j].row > shown[k].row
        BY <1>4, <1>6 DEF NewestFirst
      <3>2. QED BY <1>6, <2>1, <3>1
    <2>3. more[i].row < cursor.row
      BY <1>5, <1>6
    <2>4. QED BY <1>6, <2>2, <2>3
  <1>9. all = shown \o more
    <2>1. \A i \in DOMAIN more, j \in DOMAIN shown : shown[j].row # more[i].row
      <3>1. \A i \in 1..n, j \in 1..k : shown[j].row # more[i].row
        BY <1>6, <1>8
      <3>2. QED BY <1>6, <3>1
    <2>2. QED BY <1>3, <2>1, AppendedNew
  <1>10. /\ all \in Seq(Listed) /\ Len(all) = k + n /\ DOMAIN all = 1..(k + n)
         /\ \A i \in 1..k : all[i] = shown[i]
         /\ \A i \in 1..n : all[k + i] = more[i]
    <2>1. all \in Seq(Listed)
      BY <1>3, <1>9
    <2>2. Len(all) = k + n /\ DOMAIN all = 1..(k + n)
      <3>1. Len(shown \o more) = Len(shown) + Len(more)
        BY <1>3
      <3>2. Len(all) = k + n
        BY <1>7, <1>9, <3>1
      <3>3. QED BY <2>1, <3>2
    <2>3. \A i \in 1..k : all[i] = shown[i]
      BY <1>3, <1>6, <1>7, <1>9
    <2>4. ASSUME NEW i \in 1..n PROVE all[k + i] = more[i]
      <3>1. k + i \in 1..(k + n) /\ ~(k + i <= k) /\ (k + i) - k = i
        BY <1>6
      <3>2. all[k + i] = more[(k + i) - k]
        BY <1>3, <1>6, <1>7, <1>9, <3>1
      <3>3. QED BY <3>1, <3>2
    <2>5. QED BY <2>1, <2>2, <2>3, <2>4
  <1> HIDE DEF all
  <1>11. \A i \in 1..(k + n) :
            i \in 1..k \/ (i - k \in 1..n /\ i = k + (i - k) /\ all[i] = more[i - k])
    <2> SUFFICES ASSUME NEW i \in 1..(k + n), i \notin 1..k
                 PROVE  i - k \in 1..n /\ i = k + (i - k) /\ all[i] = more[i - k]
      OBVIOUS
    <2>1. i - k \in 1..n /\ i = k + (i - k)
      BY <1>6
    <2>2. PICK a \in 1..n : a = i - k
      BY <2>1
    <2>3. all[k + a] = more[a]
      BY <1>10
    <2>4. QED BY <2>1, <2>2, <2>3
  <1>12. NewestFirst(all)
    <2> SUFFICES ASSUME NEW i \in 1..(k + n), NEW j \in 1..(k + n), i < j
                 PROVE  all[i].row > all[j].row
      BY <1>10 DEF NewestFirst
    <2>1. CASE j \in 1..k
      <3>1. i \in 1..k
        BY <1>6, <2>1
      <3>2. QED BY <1>4, <1>6, <1>10, <2>1, <3>1 DEF NewestFirst
    <2>2. CASE i \in 1..k /\ j - k \in 1..n
      <3>1. all[i] = shown[i] /\ all[j] = more[j - k]
        BY <1>6, <1>10, <1>11, <2>2
      <3>2. QED BY <1>8, <2>2, <3>1
    <2>3. CASE i - k \in 1..n /\ j - k \in 1..n
      <3>1. i - k < j - k
        BY <1>6
      <3>2. i \notin 1..k /\ j \notin 1..k
        BY <1>6, <2>3
      <3>3. all[i] = more[i - k]
        BY <1>11, <3>2
      <3>4. all[j] = more[j - k]
        BY <1>11, <3>2
      <3>5. QED BY <1>5, <1>6, <2>3, <3>1, <3>3, <3>4 DEF NewestFirst
    <2>4. QED BY <1>11, <2>1, <2>2, <2>3
  <1>13. Fits(all, scope)
    <2>1. ASSUME NEW i \in 1..(k + n)
          PROVE  Tenant[all[i].row] = scope.org /\ scope.filter \in {"all", all[i].status}
      <3>1. CASE i \in 1..k
        BY <1>4, <1>6, <1>10, <3>1 DEF Fits
      <3>2. CASE i - k \in 1..n
        <4>1. all[i] = more[i - k]
          BY <1>6, <1>10, <3>2
        <4>2. QED BY <1>5, <1>6, <3>2, <4>1 DEF Fits
      <3>3. QED BY <1>11, <3>1, <3>2
    <2>2. QED BY <1>10, <2>1 DEF Fits
  <1>14. EndsAt(all, next)
    <2> SUFFICES ASSUME next # Absent PROVE Len(all) > 0 /\ next.row = all[Len(all)].row
      BY DEF EndsAt
    <2>1. n > 0 /\ next.row = more[n].row
      BY <1>5, <1>7 DEF EndsAt
    <2>2. n \in 1..n /\ all[k + n] = more[n]
      BY <1>6, <1>10, <2>1
    <2>3. QED BY <1>6, <1>10, <2>1, <2>2
  <1>15. Covers(all, next, steady)
    <2> SUFFICES ASSUME NEW r \in steady, next = Absent \/ r >= next.row
                 PROVE  \E i \in DOMAIN all : all[i].row = r
      BY DEF Covers
    <2>1. r \in Nat
      BY PagedAssumption DEF ListInv, PagedTypeOK, Rows
    <2>2. CASE r >= cursor.row
      <3>1. PICK i \in 1..k : shown[i].row = r
        BY <1>4, <1>6, <2>2 DEF Covers
      <3>2. i \in 1..(k + n) /\ all[i].row = r
        BY <1>6, <1>10, <3>1
      <3>3. QED BY <1>10, <3>2
    <2>3. CASE r < cursor.row
      <3>1. r \in Asked(q)
        BY <1>1, <2>3 DEF Asked
      <3>2. PICK i \in 1..n : more[i].row = r
        BY <1>5, <1>6, <3>1 DEF Covers
      <3>3. k + i \in 1..(k + n) /\ all[k + i].row = r
        BY <1>6, <1>10, <3>2
      <3>4. QED BY <1>10, <3>3
    <2>4. QED BY <1>6, <2>1, <2>2, <2>3
  <1>16. QED BY <1>10, <1>12, <1>13, <1>14, <1>15 DEF all, more, next

LEMMA ShowKeepsList ==
  ASSUME ListInv, NEW q \in requests, ShowPage(q)
  PROVE  ListInv'
  <1>1. CASE Current(q)
    <2> DEFINE more == q.page.items
               next == q.page.next
    <2>1. /\ q.page # Absent /\ requests' = requests \ {q}
          /\ UNCHANGED <<stored, scope, generation, steady>>
          /\ shown' = IF q.append THEN Appended(shown, more) ELSE more
          /\ cursor' = next /\ hasMore' = (next # Absent)
          /\ screen' = "ready" /\ loadingMore' = FALSE
      BY <1>1 DEF ShowPage, Shows, Current
    <2>2. q \in RequestsOf(generation)
      BY GenerationType DEF ListInv
    <2>3. more \in Seq(Listed) /\ next \in Cursors \cup {Absent} /\ q.append \in BOOLEAN
      BY <2>1, <2>2 DEF RequestsOf, Pages
    <2>4. /\ shown' \in Seq(Listed)
          /\ NewestFirst(shown') /\ Fits(shown', scope) /\ EndsAt(shown', next)
          /\ Covers(shown', next, steady)
      <3>1. CASE q.append
        BY <1>1, <2>1, <3>1, PageJoins
      <3>2. CASE ~q.append
        <4>1. /\ NewestFirst(more) /\ Fits(more, scope) /\ EndsAt(more, next)
              /\ Covers(more, next, Asked(q))
          BY <1>1, <2>1 DEF ListInv, AnswerOK
        <4>2. Asked(q) = steady
          BY <3>2 DEF Asked
        <4>3. QED BY <2>1, <2>3, <3>2, <4>1, <4>2
      <3>3. QED BY <2>3, <3>1, <3>2
    <2>5. ViewOK'
      BY <2>1, <2>4 DEF ViewOK, NewestFirst, Fits, EndsAt, Covers
    <2>6. QED BY <1>1, <2>1, <2>3, <2>4, <2>5, LastAnswerKeeps
  <1>2. CASE ~Current(q)
    BY <1>2, OldAnswerKeeps DEF ShowPage, Current
  <1>3. QED BY <1>1, <1>2

LEMMA ListInvariance == PagedSpec => []ListInv
  <1>1. PagedInit => ListInv
    <2> SUFFICES ASSUME PagedInit PROVE ListInv
      OBVIOUS
    <2> DEFINE first == Ask(FALSE, scope, Absent, 1)
    <2>1. /\ scope \in Scopes /\ generation = 1 /\ requests = {first}
          /\ screen = "loading" /\ shown = <<>> /\ cursor = Absent
          /\ hasMore = FALSE /\ loadingMore = FALSE /\ steady = {}
          /\ stored = [r \in Rows |-> Absent]
      BY DEF PagedInit
    <2>2. /\ first \in RequestsOf(1)
          /\ first.generation = 1 /\ first.append = FALSE /\ first.scope = scope
          /\ first.cursor = Absent /\ first.page = Absent
      BY <2>1, PagedAssumption DEF Ask, RequestsOf
    <2> HIDE DEF first
    <2>3. PagedTypeOK
      <3>1. 1 \in 1..(MaxSwitches + 1)
        BY PagedAssumption
      <3>2. shown \in Seq(Listed) /\ requests \subseteq RequestsOf(generation)
        BY <2>1, <2>2
      <3>3. QED BY <2>1, <3>1, <3>2 DEF PagedTypeOK, RequestsOf
    <2>4. OneRequest /\ WaitsForAnAnswer
      BY <2>1, <2>2 DEF OneRequest, WaitsForAnAnswer
    <2>5. ViewOK /\ SteadyOK
      BY <2>1 DEF ViewOK, SteadyOK, NewestFirst, Fits, EndsAt
    <2>6. \A q \in requests : AnswerOK(q)
      BY <2>1, <2>2 DEF AnswerOK
    <2>7. QED BY <2>3, <2>4, <2>5, <2>6 DEF ListInv
  <1>2. ListInv /\ [PagedNext]_pagedVars => ListInv'
    <2> SUFFICES ASSUME ListInv, [PagedNext]_pagedVars PROVE ListInv'
      OBVIOUS
    <2>1. CASE UNCHANGED pagedVars
      <3>1. UNCHANGED <<stored, steady, scope, generation, requests, listVars>>
        BY <2>1 DEF pagedVars, listVars
      <3>2. SteadyOK' /\ stored' \in [Rows -> RowStatuses \cup {Absent}]
        BY <3>1 DEF ListInv, SteadyOK, InScope, PagedTypeOK
      <3>3. QED BY <3>1, <3>2, StoreKeeps
    <2>2. QED BY <2>1, CommitKeepsList, MoveKeepsList, SwitchKeepsList, RetryKeepsList,
                 LoadMoreKeepsList, ServeKeepsList, ShowKeepsList, FailKeepsList DEF PagedNext
  <1>3. QED BY <1>1, <1>2, PTL DEF PagedSpec

(* Whatever is asked, answered late or fails, the view and its requests    *)
(* keep their shape (transfers.tsx).                                       *)
THEOREM PagedTyping == PagedSpec => []PagedTypeOK
  <1>1. ListInv => PagedTypeOK
    BY DEF ListInv
  <1>2. QED BY <1>1, ListInvariance, PTL

(* The view shows its own organization and filter only, newest first and   *)
(* no transfer twice, for any number of rows, switches and late answers.   *)
THEOREM ViewShowsItsScope == PagedSpec => []ShowsItsScope
  <1>1. ListInv => ShowsItsScope
    BY DEF ListInv, ViewOK, NewestFirst, Fits, ShowsItsScope
  <1>2. QED BY <1>1, ListInvariance, PTL

(* Pages join without a gap, for any page size: a transfer that stays in   *)
(* scope is shown as soon as the list has come as far (ListPage).          *)
THEOREM PagesLeaveNoGap == PagedSpec => []NothingSkipped
  <1>1. ListInv => NothingSkipped
    BY DEF ListInv, ViewOK, Covers, NothingSkipped
  <1>2. QED BY <1>1, ListInvariance, PTL

(* A view that is loading, or loading more, has asked and has not been     *)
(* answered, however often it was switched and requests have failed.       *)
THEOREM ViewNeverHangs == PagedSpec => []WaitsForAnAnswer
  <1>1. ListInv => WaitsForAnAnswer
    BY DEF ListInv
  <1>2. QED BY <1>1, ListInvariance, PTL

-----------------------------------------------------------------------------
(* The order of the list: by the parts of the key, one after the other.    *)
Keys == {0, 1} \X Int \X Int

LEMMA PrecedesIs ==
  ASSUME NEW k, NEW l
  PROVE  Precedes(k, l) <=> \/ k[1] < l[1]
                            \/ k[1] = l[1] /\ k[2] < l[2]
                            \/ k[1] = l[1] /\ k[2] = l[2] /\ k[3] < l[3]
  <1>1. 1..3 = {1, 2, 3} /\ 1..(1 - 1) = {} /\ 1..(2 - 1) = {1} /\ 1..(3 - 1) = {1, 2}
    OBVIOUS
  <1>2. ASSUME NEW i \in 1..3, k[i] < l[i], \A j \in 1..(i - 1) : k[j] = l[j]
        PROVE  \/ k[1] < l[1]
               \/ k[1] = l[1] /\ k[2] < l[2]
               \/ k[1] = l[1] /\ k[2] = l[2] /\ k[3] < l[3]
    <2>1. CASE i = 1
      BY <1>2, <2>1
    <2>2. CASE i = 2
      <3>1. k[1] = l[1]
        BY <1>1, <1>2, <2>2
      <3>2. QED BY <1>2, <2>2, <3>1
    <2>3. CASE i = 3
      <3>1. k[1] = l[1] /\ k[2] = l[2]
        BY <1>1, <1>2, <2>3
      <3>2. QED BY <1>2, <2>3, <3>1
    <2>4. QED BY <1>1, <2>1, <2>2, <2>3
  <1>3. ASSUME k[1] < l[1] PROVE Precedes(k, l)
    <2>1. k[1] < l[1] /\ \A j \in 1..(1 - 1) : k[j] = l[j]
      BY <1>1, <1>3
    <2>2. 1 \in 1..3
      OBVIOUS
    <2>3. QED BY <2>1, <2>2 DEF Precedes
  <1>4. ASSUME k[1] = l[1], k[2] < l[2] PROVE Precedes(k, l)
    <2>1. k[2] < l[2] /\ \A j \in 1..(2 - 1) : k[j] = l[j]
      BY <1>1, <1>4
    <2>2. 2 \in 1..3
      OBVIOUS
    <2>3. QED BY <2>1, <2>2 DEF Precedes
  <1>5. ASSUME k[1] = l[1], k[2] = l[2], k[3] < l[3] PROVE Precedes(k, l)
    <2>1. k[3] < l[3] /\ \A j \in 1..(3 - 1) : k[j] = l[j]
      BY <1>1, <1>5
    <2>2. 3 \in 1..3
      OBVIOUS
    <2>3. QED BY <2>1, <2>2 DEF Precedes
  <1>6. QED BY <1>2, <1>3, <1>4, <1>5 DEF Precedes

LEMMA PrecedesOrders ==
  /\ \A k \in Keys : ~Precedes(k, k)
  /\ \A k, l \in Keys : Precedes(k, l) \/ Precedes(l, k) \/ k = l
  /\ \A k, l, m \in Keys : Precedes(k, l) /\ Precedes(l, m) => Precedes(k, m)
  <1>1. \A k \in Keys : k[1] \in Int /\ k[2] \in Int /\ k[3] \in Int /\ k = <<k[1], k[2], k[3]>>
    BY DEF Keys
  <1>2. \A k \in Keys : ~Precedes(k, k)
    BY <1>1, PrecedesIs
  <1>3. ASSUME NEW k \in Keys, NEW l \in Keys, ~Precedes(k, l), ~Precedes(l, k) PROVE k = l
    <2>1. k[1] = l[1] /\ k[2] = l[2] /\ k[3] = l[3]
      BY <1>1, <1>3, PrecedesIs
    <2>2. QED BY <1>1, <2>1
  <1>4. ASSUME NEW k \in Keys, NEW l \in Keys, NEW m \in Keys, Precedes(k, l), Precedes(l, m)
        PROVE  Precedes(k, m)
    BY <1>1, <1>4, PrecedesIs
  <1>5. QED BY <1>2, <1>3, <1>4

ShelvesOK ==
    /\ free \in [Shelves -> Int]
    /\ policy \in [Shelves -> [reorder: Int, target: Int] \cup {None}]

LEMMA UrgencyType ==
  ASSUME ShelvesOK, NEW s \in Shelves
  PROVE  /\ Urgency(s) \in Keys /\ Urgency(s) # None
         /\ Urgency(s)[2] = free[s] /\ Urgency(s)[3] = s
  BY ReplenishmentAssumption DEF ShelvesOK, Urgency, Keys

(* How many of some levels come before one of them.                        *)
Before(R, s) == {t \in R : Precedes(Urgency(t), Urgency(s))}

LEMMA BeforeGrows ==
  ASSUME ShelvesOK, NEW R \in SUBSET Shelves, NEW s \in R, NEW t \in R,
         Precedes(Urgency(s), Urgency(t))
  PROVE  /\ Cardinality(Before(R, s)) \in Nat /\ Cardinality(Before(R, t)) \in Nat
         /\ Cardinality(Before(R, s)) < Cardinality(Before(R, t))
  <1>1. /\ Before(R, s) \in SUBSET (Before(R, t) \ {s}) /\ s \in Before(R, t)
    <2>1. \A r \in R : Urgency(r) \in Keys
      BY UrgencyType
    <2>2. \A r \in R : Precedes(Urgency(r), Urgency(s)) => Precedes(Urgency(r), Urgency(t)) /\ r # s
      BY <2>1, PrecedesOrders
    <2>3. QED BY <2>2 DEF Before
  <1>2. IsFiniteSet(Before(R, t))
    BY ReplenishmentAssumption, FS_Subset DEF Before
  <1>3. /\ IsFiniteSet(Before(R, t) \ {s})
        /\ Cardinality(Before(R, t) \ {s}) = Cardinality(Before(R, t)) - 1
    BY <1>1, <1>2, FS_RemoveElement
  <1>4. /\ IsFiniteSet(Before(R, s))
        /\ Cardinality(Before(R, s)) <= Cardinality(Before(R, t) \ {s})
    BY <1>1, <1>3, FS_Subset
  <1>5. Cardinality(Before(R, s)) \in Nat /\ Cardinality(Before(R, t)) \in Nat
    BY <1>2, <1>4, FS_CardinalityType
  <1>6. QED BY <1>3, <1>4, <1>5

(* Every row has a place, and the list is in order.                        *)
LEMMA ByUrgencyOrders ==
  ASSUME ShelvesOK, NEW R \in SUBSET Shelves
  PROVE  LET n == Cardinality(R)
             hits == ByUrgency(R)
         IN  /\ n \in Nat /\ hits \in [1..n -> R]
             /\ \A i, j \in 1..n : i < j => Precedes(Urgency(hits[i]), Urgency(hits[j]))
             /\ \A s \in R : \E i \in 1..n : hits[i] = s
  <1> DEFINE n == Cardinality(R)
             hits == ByUrgency(R)
             place == [s \in R |-> Cardinality(Before(R, s)) + 1]
  <1>1. IsFiniteSet(R) /\ n \in Nat
    BY ReplenishmentAssumption, FS_Subset, FS_CardinalityType
  <1>2. ASSUME NEW s \in R PROVE place[s] \in 1..n /\ Cardinality(Before(R, s)) \in Nat
    <2>1. s \notin Before(R, s) /\ Before(R, s) \subseteq R \ {s}
      BY UrgencyType, PrecedesOrders DEF Before
    <2>2. IsFiniteSet(R \ {s}) /\ Cardinality(R \ {s}) = n - 1
      BY <1>1, FS_RemoveElement
    <2>3. IsFiniteSet(Before(R, s)) /\ Cardinality(Before(R, s)) <= n - 1
      BY <2>1, <2>2, FS_Subset
    <2>4. Cardinality(Before(R, s)) \in Nat
      BY <2>3, FS_CardinalityType
    <2>5. QED BY <1>1, <2>3, <2>4
  <1>3. ASSUME NEW s \in R, NEW t \in R, Precedes(Urgency(s), Urgency(t))
        PROVE  place[s] < place[t]
    BY <1>3, BeforeGrows
  <1>4. \A s, t \in R : s # t => Precedes(Urgency(s), Urgency(t)) \/ Precedes(Urgency(t), Urgency(s))
    <2> SUFFICES ASSUME NEW s \in R, NEW t \in R, s # t
                 PROVE  Precedes(Urgency(s), Urgency(t)) \/ Precedes(Urgency(t), Urgency(s))
      OBVIOUS
    <2>1. Urgency(s)[3] = s /\ Urgency(t)[3] = t /\ Urgency(s) \in Keys /\ Urgency(t) \in Keys
      BY UrgencyType
    <2>2. QED BY <2>1, PrecedesOrders
  <1>5. \A s, t \in R : place[s] = place[t] => s = t
    <2> HIDE DEF place
    <2>1. \A s \in R : place[s] \in Nat
      BY <1>1, <1>2
    <2>2. QED BY <1>3, <1>4, <2>1
  <1>6. place \in Injection(R, 1..n)
    <2>1. place \in [R -> 1..n]
      BY <1>2
    <2>2. QED BY <1>5, <2>1 DEF Injection, IsInjective
  <1>7. IsFiniteSet(1..n) /\ Cardinality(1..n) = n
    BY <1>1, FS_Interval
  <1>8. place \in Surjection(R, 1..n)
    <2> HIDE DEF place
    <2>1. QED BY <1>6, <1>7, FS_Injection
  <1>9. \A i \in 1..n : \E s \in R : place[s] = i
    BY <1>8 DEF Surjection
  <1>10. ASSUME NEW i \in 1..n PROVE hits[i] \in R /\ place[hits[i]] = i
    <2>1. PICK s \in R : place[s] = i
      BY <1>9
    <2>2. Cardinality(Before(R, s)) = i - 1
      BY <1>2, <2>1
    <2>3. hits[i] = CHOOSE r \in R : Cardinality(Before(R, r)) = i - 1
      BY DEF ByUrgency, Before
    <2>4. hits[i] \in R /\ Cardinality(Before(R, hits[i])) = i - 1
      BY <2>2, <2>3
    <2>5. QED BY <1>2, <2>4
  <1>11. hits \in [1..n -> R]
    BY <1>10 DEF ByUrgency
  <1>12. ASSUME NEW i \in 1..n, NEW j \in 1..n, i < j
         PROVE  Precedes(Urgency(hits[i]), Urgency(hits[j]))
    <2> HIDE DEF place, hits
    <2>1. hits[i] \in R /\ hits[j] \in R /\ place[hits[i]] = i /\ place[hits[j]] = j
      BY <1>10
    <2>2. hits[i] # hits[j] /\ ~(j < i)
      BY <1>1, <1>12, <2>1
    <2>3. QED BY <1>3, <1>4, <2>1, <2>2
  <1>13. ASSUME NEW s \in R PROVE \E i \in 1..n : hits[i] = s
    <2> HIDE DEF place, hits
    <2>1. place[s] \in 1..n
      BY <1>2
    <2>2. hits[place[s]] = s
      BY <1>5, <1>10, <2>1
    <2>3. QED BY <2>1, <2>2
  <1>14. QED BY <1>1, <1>11, <1>12, <1>13

-----------------------------------------------------------------------------
(* Pages.                                                                  *)
ShelfRows == [shelf: Shelves, free: Int, target: Int]

Once(l, s) == \E i \in DOMAIN l : l[i].shelf = s /\ \A j \in DOMAIN l : l[j].shelf = s => j = i

Never(l, s) == \A i \in DOMAIN l : l[i].shelf # s

Has(l, s, yes) == IF yes THEN Once(l, s) ELSE Never(l, s)

(* Two cursors, None being where the list begins and where it ends.        *)
Past(c, k)       == c = None \/ Precedes(c, k)
UpToNow(next, k) == next = None \/ ~Precedes(next, k)

OnPage(s, c, next) ==
    s \in Low /\ Past(c, Urgency(s)) /\ UpToNow(next, Urgency(s))

(* A page has the low levels between its two cursors, each once.           *)
LEMMA FirstRowsHas ==
  ASSUME ShelvesOK, NEW c \in Keys \cup {None}
  PROVE  LET page == FirstRows(c)
         IN  /\ page.rows \in Seq(ShelfRows) /\ page.next \in Keys \cup {None}
             /\ \A s \in Shelves : Has(page.rows, s, OnPage(s, c, page.next))
             /\ page.next # None =>
                   /\ c # None => Precedes(c, page.next)
                   /\ \E i \in DOMAIN page.rows : page.rows[i].free = page.next[2]
  <1> DEFINE R == {s \in Low : c = None \/ Precedes(c, Urgency(s))}
             hits == LowAfter(c)
             n == Cardinality(R)
             k == Min({PageRows, Len(hits)})
             sub == SubSeq(hits, 1, k)
             rows == FirstRows(c).rows
             next == FirstRows(c).next
  <1>1. R \in SUBSET Shelves
    BY DEF Low
  <1>2. hits = ByUrgency(R)
    BY DEF LowAfter
  <1>3. /\ rows = [i \in DOMAIN sub |-> [shelf |-> sub[i], free |-> free[sub[i]],
                                         target |-> policy[sub[i]].target]]
        /\ next = IF Len(hits) > PageRows THEN Urgency(hits[PageRows]) ELSE None
    BY DEF FirstRows
  <1>4. ASSUME NEW s \in R
        PROVE  s \in Low /\ s \in Shelves /\ Past(c, Urgency(s))
               /\ free[s] \in Int /\ policy[s].target \in Int
    BY DEF Low, ShelvesOK, Past
  <1>5. ASSUME NEW s \in Shelves PROVE s \in R <=> s \in Low /\ Past(c, Urgency(s))
    BY DEF Past
  <1>6. /\ n \in Nat /\ hits \in [1..n -> R]
        /\ \A i, j \in 1..n : i < j => Precedes(Urgency(hits[i]), Urgency(hits[j]))
        /\ \A s \in R : \E i \in 1..n : hits[i] = s
    <2> HIDE DEF R, hits
    <2>1. QED BY <1>1, <1>2, ByUrgencyOrders
  <1>7. Len(hits) = n /\ \A i \in 1..n : hits[i] \in R
    <2> HIDE DEF R, hits, n
    <2>1. QED BY <1>6
  <1>8. PageRows \in Nat /\ PageRows >= 1
    BY ReplenishmentAssumption
  <1>9. (PageRows <= n => k = PageRows) /\ (~(PageRows <= n) => k = n)
    <2> HIDE DEF R, hits, n
    <2>1. QED BY <1>6, <1>7, <1>8, LesserOfTwo
  <1> HIDE DEF R, hits, n, k, sub, rows, next
  <1>10. k \in Nat /\ k <= n
    BY <1>6, <1>8, <1>9
  <1>11. sub \in Seq(R) /\ Len(sub) = k /\ \A i \in 1..k : sub[i] = hits[i]
    <2>1. \A i \in 1..k : hits[i] \in R
      BY <1>7, <1>10, <1>6
    <2>2. /\ SubSeq(hits, 1, k) \in Seq(R)
          /\ Len(SubSeq(hits, 1, k)) = IF 1 <= k THEN k - 1 + 1 ELSE 0
          /\ \A i \in 1..(k - 1 + 1) : SubSeq(hits, 1, k)[i] = hits[1 + i - 1]
      BY <1>10, <2>1, SubSeqProperties
    <2>3. 1..(k - 1 + 1) = 1..k /\ (IF 1 <= k THEN k - 1 + 1 ELSE 0) = k
          /\ \A i \in 1..k : 1 + i - 1 = i
      BY <1>10
    <2>4. QED BY <2>2, <2>3 DEF sub
  <1>12. DOMAIN sub = 1..k
    BY <1>11
  <1>13. ASSUME NEW i \in 1..k
         PROVE  /\ i \in 1..n /\ hits[i] \in R /\ rows[i].shelf = hits[i]
                /\ rows[i].free = free[hits[i]] /\ rows[i] \in ShelfRows
    <2>1. i \in 1..n
      BY <1>6, <1>10
    <2>2. hits[i] \in R /\ sub[i] = hits[i]
      BY <1>7, <1>11, <2>1
    <2>3. rows[i] = [shelf |-> hits[i], free |-> free[hits[i]], target |-> policy[hits[i]].target]
      BY <1>3, <1>12, <2>2
    <2>4. QED BY <1>4, <2>1, <2>2, <2>3 DEF ShelfRows
  <1>14. DOMAIN rows = 1..k
    BY <1>3, <1>12
  <1>15. rows \in Seq(ShelfRows)
    <2>1. rows = [i \in 1..k |-> rows[i]]
      BY <1>3, <1>12
    <2>2. rows \in [1..k -> ShelfRows]
      BY <1>13, <2>1
    <2>3. QED BY <1>10, <2>2
  <1>16. ASSUME next = None, NEW s \in Shelves
         PROVE  OnPage(s, c, next) <=> \E i \in 1..k : hits[i] = s
    <2>1. k = n
      <3>1. CASE n > PageRows
        <4>1. PageRows \in 1..n
          BY <1>6, <1>8, <3>1
        <4>2. hits[PageRows] \in Shelves
          BY <1>1, <1>7, <4>1
        <4>3. QED BY <1>3, <1>7, <1>16, <3>1, <4>2, UrgencyType
      <3>2. CASE ~(n > PageRows)
        BY <1>6, <1>8, <1>9, <3>2
      <3>3. QED BY <3>1, <3>2
    <2>2. QED BY <1>5, <1>6, <1>7, <1>16, <2>1 DEF OnPage, UpToNow
  <1>17. ASSUME next # None, NEW s \in Shelves
         PROVE  OnPage(s, c, next) <=> \E i \in 1..k : hits[i] = s
    <2>1. n > PageRows /\ k = PageRows /\ next = Urgency(hits[k]) /\ k \in 1..k /\ k \in 1..n
      BY <1>3, <1>6, <1>7, <1>8, <1>9, <1>17
    <2>2. hits[k] \in R
      BY <1>7, <2>1
    <2>3. next \in Keys
      BY <1>1, <2>1, <2>2, UrgencyType
    <2>4. ASSUME NEW i \in 1..k, hits[i] = s PROVE OnPage(s, c, next)
      <3>1. i \in 1..n /\ hits[i] \in R
        BY <1>13
      <3>2. i < k \/ i = k
        BY <1>10
      <3>3. Urgency(s) \in Keys
        BY UrgencyType
      <3>4. Urgency(s) = next \/ Precedes(Urgency(s), next)
        BY <1>6, <2>1, <2>4, <3>1, <3>2
      <3>5. ~Precedes(next, Urgency(s))
        BY <2>3, <3>3, <3>4, PrecedesOrders
      <3>6. QED BY <1>4, <2>4, <3>1, <3>5 DEF OnPage, UpToNow
    <2>5. ASSUME OnPage(s, c, next) PROVE \E i \in 1..k : hits[i] = s
      <3>1. s \in R /\ ~Precedes(next, Urgency(s))
        BY <1>5, <1>17, <2>5 DEF OnPage, UpToNow
      <3>2. PICK i \in 1..n : hits[i] = s
        BY <1>6, <3>1
      <3>3. ~(k < i)
        BY <1>6, <2>1, <3>1, <3>2
      <3>4. i \in 1..k
        BY <1>6, <1>10, <3>3
      <3>5. QED BY <3>2, <3>4
    <2>6. QED BY <2>4, <2>5
  <1>18. \A s \in Shelves : OnPage(s, c, next) <=> \E i \in 1..k : hits[i] = s
    BY <1>16, <1>17
  <1>19. \A i, j \in 1..k : hits[i] = hits[j] => i = j
    <2> SUFFICES ASSUME NEW i \in 1..k, NEW j \in 1..k, i < j PROVE hits[i] # hits[j]
      BY <1>10
    <2>1. i \in 1..n /\ j \in 1..n /\ hits[i] \in R /\ hits[j] \in R
      BY <1>13
    <2>2. Precedes(Urgency(hits[i]), Urgency(hits[j])) /\ Urgency(hits[i]) \in Keys
      BY <1>1, <1>6, <2>1, UrgencyType
    <2>3. QED BY <2>2, PrecedesOrders
  <1>20. ASSUME NEW s \in Shelves PROVE Has(rows, s, OnPage(s, c, next))
    <2>1. CASE OnPage(s, c, next)
      <3>1. PICK i \in 1..k : hits[i] = s
        BY <1>18, <2>1
      <3>2. rows[i].shelf = s /\ \A j \in 1..k : rows[j].shelf = s => j = i
        BY <1>13, <1>19, <3>1
      <3>3. QED BY <1>14, <2>1, <3>2 DEF Has, Once
    <2>2. CASE ~OnPage(s, c, next)
      <3>1. \A i \in 1..k : rows[i].shelf # s
        BY <1>13, <1>18, <2>2
      <3>2. QED BY <1>14, <2>2, <3>1 DEF Has, Never
    <2>3. QED BY <2>1, <2>2
  <1>21. next \in Keys \cup {None} /\ (next # None =>
            (c # None => Precedes(c, next)) /\ \E i \in DOMAIN rows : rows[i].free = next[2])
    <2>1. CASE next # None
      <3>1. n > PageRows /\ k = PageRows /\ next = Urgency(hits[k]) /\ k \in 1..k /\ k \in 1..n
        BY <1>3, <1>6, <1>7, <1>8, <1>9, <2>1
      <3>2. hits[k] \in R /\ hits[k] \in Shelves
        BY <1>1, <1>7, <3>1
      <3>3. next \in Keys /\ next[2] = free[hits[k]]
        BY <3>1, <3>2, UrgencyType
      <3>4. c # None => Precedes(c, next)
        BY <1>4, <3>1, <3>2 DEF Past
      <3>5. rows[k].free = next[2]
        BY <1>13, <3>1, <3>3
      <3>6. QED BY <1>14, <3>1, <3>3, <3>4, <3>5
    <2>2. QED BY <2>1
  <1>22. QED BY <1>15, <1>20, <1>21 DEF rows, next

-----------------------------------------------------------------------------
(* What the pages have shown together.                                     *)
OnList(s) == s \in Low /\ (reader = "done" \/ (after # None /\ ~Precedes(after, Urgency(s))))

PageOK ==
    /\ found.rows \in Seq(ShelfRows) /\ found.next \in Keys \cup {None}
    /\ \A s \in untouched : Has(found.rows, s, OnPage(s, after, found.next))
    /\ found.next # None =>
          /\ after # None => Precedes(after, found.next)
          /\ \E i \in DOMAIN found.rows : found.rows[i].free = found.next[2]

ListingInv ==
    /\ ShelvesOK /\ untouched \subseteq Shelves
    /\ after \in Keys \cup {None} /\ listed \in Seq(ShelfRows)
    /\ \A s \in untouched : Has(listed, s, OnList(s))
    /\ after # None => \E i \in DOMAIN listed : listed[i].free = after[2]
    /\ reader = "refused" => after # None /\ after[2] < 0
    /\ reader = "items" => PageOK

LEMMA JoinedRows ==
  ASSUME NEW l \in Seq(ShelfRows), NEW m \in Seq(ShelfRows)
  PROVE  /\ l \o m \in Seq(ShelfRows)
         /\ DOMAIN (l \o m) = 1..(Len(l) + Len(m))
         /\ \A i \in DOMAIN l : i \in DOMAIN (l \o m) /\ (l \o m)[i] = l[i]
         /\ \A i \in DOMAIN m : Len(l) + i \in DOMAIN (l \o m) /\ (l \o m)[Len(l) + i] = m[i]
         /\ \A i \in DOMAIN (l \o m) :
               i \in DOMAIN l \/ \E j \in DOMAIN m : i = Len(l) + j
  <1>1. Len(l) \in Nat /\ Len(m) \in Nat /\ DOMAIN l = 1..Len(l) /\ DOMAIN m = 1..Len(m)
    OBVIOUS
  <1>2. /\ l \o m \in Seq(ShelfRows) /\ Len(l \o m) = Len(l) + Len(m)
        /\ \A i \in 1..(Len(l) + Len(m)) :
              (l \o m)[i] = IF i <= Len(l) THEN l[i] ELSE m[i - Len(l)]
    BY ConcatProperties
  <1>3. DOMAIN (l \o m) = 1..(Len(l) + Len(m))
    BY <1>2
  <1>4. ASSUME NEW i \in DOMAIN l PROVE i \in DOMAIN (l \o m) /\ (l \o m)[i] = l[i]
    BY <1>1, <1>2, <1>3
  <1>5. ASSUME NEW i \in DOMAIN m
        PROVE  Len(l) + i \in DOMAIN (l \o m) /\ (l \o m)[Len(l) + i] = m[i]
    <2>1. /\ Len(l) + i \in 1..(Len(l) + Len(m)) /\ ~(Len(l) + i <= Len(l))
          /\ (Len(l) + i) - Len(l) = i
      BY <1>1
    <2>2. (l \o m)[Len(l) + i] = m[(Len(l) + i) - Len(l)]
      BY <1>2, <2>1
    <2>3. QED BY <1>3, <2>1, <2>2
  <1>6. ASSUME NEW i \in DOMAIN (l \o m), i \notin DOMAIN l
        PROVE  \E j \in DOMAIN m : i = Len(l) + j
    <2>1. i - Len(l) \in DOMAIN m /\ i = Len(l) + (i - Len(l))
      BY <1>1, <1>3, <1>6
    <2>2. QED BY <2>1
  <1>7. QED BY <1>2, <1>3, <1>4, <1>5, <1>6

LEMMA JoinedHas ==
  ASSUME NEW l \in Seq(ShelfRows), NEW m \in Seq(ShelfRows), NEW s,
         NEW a \in BOOLEAN, NEW b \in BOOLEAN, ~(a /\ b), Has(l, s, a), Has(m, s, b)
  PROVE  Has(l \o m, s, a \/ b)
  <1> DEFINE all == l \o m
             k == Len(l)
  <1>1. /\ \A i \in DOMAIN l : i \in DOMAIN all /\ all[i] = l[i]
        /\ \A i \in DOMAIN m : k + i \in DOMAIN all /\ all[k + i] = m[i]
        /\ \A i \in DOMAIN all : i \in DOMAIN l \/ \E j \in DOMAIN m : i = k + j
    BY JoinedRows
  <1> HIDE DEF all, k
  <1>2. CASE a
    <2>1. PICK i \in DOMAIN l : l[i].shelf = s /\ \A j \in DOMAIN l : l[j].shelf = s => j = i
      BY <1>2 DEF Has, Once
    <2>2. \A j \in DOMAIN m : m[j].shelf # s
      BY <1>2 DEF Has, Never
    <2>3. i \in DOMAIN all /\ all[i].shelf = s
      BY <1>1, <2>1
    <2>4. ASSUME NEW j \in DOMAIN all, all[j].shelf = s PROVE j = i
      <3>1. CASE j \in DOMAIN l
        BY <1>1, <2>1, <2>4, <3>1
      <3>2. ASSUME NEW h \in DOMAIN m, j = k + h PROVE FALSE
        <4>1. all[k + h] = m[h]
          BY <1>1
        <4>2. QED BY <2>2, <2>4, <3>2, <4>1
      <3>3. QED BY <1>1, <3>1, <3>2
    <2>5. QED BY <1>2, <2>3, <2>4 DEF Has, Once, all
  <1>3. CASE ~a /\ b
    <2>1. PICK i \in DOMAIN m : m[i].shelf = s /\ \A j \in DOMAIN m : m[j].shelf = s => j = i
      BY <1>3 DEF Has, Once
    <2>2. \A j \in DOMAIN l : l[j].shelf # s
      BY <1>3 DEF Has, Never
    <2>3. k + i \in DOMAIN all /\ all[k + i].shelf = s
      BY <1>1, <2>1
    <2>4. ASSUME NEW j \in DOMAIN all, all[j].shelf = s PROVE j = k + i
      <3>1. j \notin DOMAIN l
        BY <1>1, <2>2, <2>4
      <3>2. PICK h \in DOMAIN m : j = k + h
        BY <1>1, <3>1
      <3>3. all[k + h] = m[h]
        BY <1>1
      <3>4. h = i
        BY <2>1, <2>4, <3>2, <3>3
      <3>5. QED BY <3>2, <3>4
    <2>5. QED BY <1>3, <2>3, <2>4 DEF Has, Once, all
  <1>4. CASE ~a /\ ~b
    <2>1. /\ \A i \in DOMAIN l : l[i].shelf # s
          /\ \A i \in DOMAIN m : m[i].shelf # s
      BY <1>4 DEF Has, Never
    <2>2. ASSUME NEW i \in DOMAIN all PROVE all[i].shelf # s
      <3>1. CASE i \in DOMAIN l
        BY <1>1, <2>1, <3>1
      <3>2. ASSUME NEW h \in DOMAIN m, i = k + h PROVE all[i].shelf # s
        <4>1. all[k + h] = m[h]
          BY <1>1
        <4>2. QED BY <2>1, <3>2, <4>1
      <3>3. QED BY <1>1, <3>1, <3>2
    <2>3. QED BY <1>4, <2>2 DEF Has, Never, all
  <1>5. QED BY <1>2, <1>3, <1>4

(* Stock and policies change: the levels that did not are where they were. *)
LEMMA ShelvesChange ==
  ASSUME ListingInv, ShelvesOK', untouched' \subseteq untouched,
         \A s \in untouched' : free'[s] = free[s] /\ policy'[s] = policy[s],
         UNCHANGED readerVars
  PROVE  ListingInv'
  <1>1. /\ reader' = reader /\ after' = after /\ found' = found /\ listed' = listed
    BY DEF readerVars
  <1>2. ASSUME NEW s \in untouched'
        PROVE  /\ s \in untouched /\ (s \in Low' <=> s \in Low) /\ Urgency(s)' = Urgency(s)
    BY DEF ListingInv, Low, Urgency
  <1>3. ASSUME NEW s \in untouched' PROVE Has(listed, s, OnList(s))'
    <2>1. OnList(s)' <=> OnList(s)
      BY <1>1, <1>2 DEF OnList
    <2>2. Has(listed, s, OnList(s))
      BY <1>2 DEF ListingInv
    <2>3. QED BY <1>1, <2>1, <2>2 DEF Has, Once, Never
  <1>4. ASSUME reader = "items", NEW s \in untouched'
        PROVE  Has(found.rows, s, OnPage(s, after, found.next))'
    <2>1. OnPage(s, after, found.next)' <=> OnPage(s, after, found.next)
      BY <1>1, <1>2 DEF OnPage, Past, UpToNow
    <2>2. Has(found.rows, s, OnPage(s, after, found.next))
      BY <1>2, <1>4 DEF ListingInv, PageOK
    <2>3. QED BY <1>1, <2>1, <2>2 DEF Has, Once, Never
  <1>5. reader = "items" => PageOK'
    BY <1>1, <1>4 DEF ListingInv, PageOK
  <1>6. QED BY <1>1, <1>3, <1>5 DEF ListingInv

LEMMA ChangeKeepsListing ==
  ASSUME ListingInv, NEW s \in Shelves, NEW n \in Free, Change(s, n)
  PROVE  ListingInv'
  <1>1. ShelvesOK'
    BY ReplenishmentAssumption DEF ListingInv, ShelvesOK, Change
  <1>2. untouched' \subseteq untouched /\ UNCHANGED readerVars
    BY DEF Change
  <1>3. \A t \in untouched' : free'[t] = free[t] /\ policy'[t] = policy[t]
    BY DEF ListingInv, ShelvesOK, Change
  <1>4. QED BY <1>1, <1>2, <1>3, ShelvesChange

LEMMA PolicyKeepsListing ==
  ASSUME ListingInv, NEW s \in Shelves, NEW p \in PolicyInputs, UpdateReplenishmentPolicy(s, p)
  PROVE  ListingInv'
  <1>1. ShelvesOK'
    BY ReplenishmentAssumption DEF ListingInv, ShelvesOK, UpdateReplenishmentPolicy
  <1>2. untouched' \subseteq untouched /\ UNCHANGED readerVars
    BY DEF UpdateReplenishmentPolicy
  <1>3. \A t \in untouched' : free'[t] = free[t] /\ policy'[t] = policy[t]
    BY DEF ListingInv, ShelvesOK, UpdateReplenishmentPolicy
  <1>4. QED BY <1>1, <1>2, <1>3, ShelvesChange

(* What a reading leaves alone.                                            *)
LEMMA ShelvesStay ==
  ASSUME ListingInv, UNCHANGED shelfVars
  PROVE  /\ ShelvesOK' /\ untouched' \subseteq Shelves /\ untouched' = untouched
         /\ Low' = Low /\ \A s : Urgency(s)' = Urgency(s)
  BY DEF ListingInv, shelfVars, ShelvesOK, Low, Urgency

LEMMA ReadItemsKeepsListing ==
  ASSUME ListingInv, ReadItems
  PROVE  ListingInv'
  <1>1. UNCHANGED shelfVars /\ reader = "ready" /\ after' = after /\ listed' = listed
    BY DEF ReadItems
  <1>2. \A s \in untouched : Has(listed, s, OnList(s))'
    <2> SUFFICES ASSUME NEW s \in untouched PROVE Has(listed, s, OnList(s))'
      OBVIOUS
    <2>1. reader' # "done"
      BY DEF ReadItems
    <2>2. OnList(s)' <=> OnList(s)
      BY <1>1, <2>1, ShelvesStay DEF OnList
    <2>3. QED BY <1>1, <2>2 DEF ListingInv, Has, Once, Never
  <1>3. reader' = "refused" => after # None /\ after[2] < 0
    <2>1. after # None => after[2] \in Int
      BY DEF ListingInv, Keys
    <2>2. QED BY <2>1 DEF ReadItems, Decodes
  <1>4. ASSUME reader' = "items" PROVE PageOK'
    <2>1. found' = FirstRows(after)
      BY <1>4 DEF ReadItems
    <2>2. /\ found'.rows \in Seq(ShelfRows) /\ found'.next \in Keys \cup {None}
          /\ \A s \in Shelves : Has(found'.rows, s, OnPage(s, after, found'.next))
          /\ found'.next # None =>
                /\ after # None => Precedes(after, found'.next)
                /\ \E i \in DOMAIN found'.rows : found'.rows[i].free = found'.next[2]
      BY <2>1, FirstRowsHas DEF ListingInv
    <2>3. ASSUME NEW s \in untouched' PROVE Has(found.rows, s, OnPage(s, after, found.next))'
      <3>1. s \in Shelves /\ (OnPage(s, after, found.next)' <=> OnPage(s, after, found'.next))
        BY <1>1, ShelvesStay DEF ListingInv, OnPage, Past, UpToNow
      <3>2. QED BY <2>2, <3>1 DEF Has, Once, Never
    <2>4. QED BY <1>1, <2>2, <2>3 DEF PageOK
  <1>5. QED BY <1>1, <1>2, <1>3, <1>4, ShelvesStay DEF ListingInv

LEMMA ReadDonorsKeepsListing ==
  ASSUME ListingInv, ReadDonors
  PROVE  ListingInv'
  <1> DEFINE next == found.next
  <1>1. /\ UNCHANGED shelfVars /\ reader = "items" /\ after' = next
        /\ listed' = listed \o found.rows
        /\ reader' = IF next = None THEN "done" ELSE "ready"
    BY DEF ReadDonors
  <1>2. /\ PageOK /\ listed \in Seq(ShelfRows) /\ found.rows \in Seq(ShelfRows)
        /\ next \in Keys \cup {None} /\ after \in Keys \cup {None}
    BY <1>1 DEF ListingInv, PageOK
  <1>3. ASSUME NEW s \in untouched PROVE Has(listed, s, OnList(s))'
    <2>1. s \in Shelves /\ Urgency(s) \in Keys
      BY UrgencyType DEF ListingInv
    <2>2. OnList(s) <=> s \in Low /\ after # None /\ ~Precedes(after, Urgency(s))
      BY <1>1 DEF OnList
    <2>3. ~(OnList(s) /\ OnPage(s, after, next))
      BY <2>2 DEF OnPage, Past
    <2>4. after # None /\ next # None /\ Precedes(next, Urgency(s)) => Precedes(after, Urgency(s))
      BY <1>2, <2>1, PrecedesOrders DEF PageOK
    <2>5. OnList(s)' <=> OnList(s) \/ OnPage(s, after, next)
      <3>1. OnList(s)' <=> s \in Low /\ (next = None \/ ~Precedes(next, Urgency(s)))
        BY <1>1, ShelvesStay DEF OnList
      <3>2. QED BY <2>2, <2>4, <3>1 DEF OnPage, Past, UpToNow
    <2>6. Has(listed \o found.rows, s, OnList(s) \/ OnPage(s, after, next))
      <3>1. OnList(s) \in BOOLEAN /\ OnPage(s, after, next) \in BOOLEAN
        BY DEF OnList, OnPage
      <3>2. Has(listed, s, OnList(s)) /\ Has(found.rows, s, OnPage(s, after, next))
        BY <1>2 DEF ListingInv, PageOK
      <3> HIDE DEF next
      <3>3. QED BY <1>2, <2>3, <3>1, <3>2, JoinedHas
    <2>7. QED BY <1>1, <2>5, <2>6 DEF Has, Once, Never
  <1>4. after' # None => \E i \in DOMAIN listed' : listed'[i].free = after'[2]
    <2> SUFFICES ASSUME next # None PROVE \E i \in DOMAIN listed' : listed'[i].free = next[2]
      BY <1>1
    <2>1. PICK i \in DOMAIN found.rows : found.rows[i].free = next[2]
      BY <1>2 DEF PageOK
    <2>2. /\ Len(listed) + i \in DOMAIN (listed \o found.rows)
          /\ (listed \o found.rows)[Len(listed) + i] = found.rows[i]
      BY <1>2, JoinedRows
    <2>3. QED BY <1>1, <2>1, <2>2
  <1>5. listed' \in Seq(ShelfRows)
    BY <1>1, <1>2, JoinedRows
  <1>6. reader' # "items" /\ reader' # "refused"
    BY <1>1
  <1>7. untouched' = untouched /\ after' \in Keys \cup {None}
    BY <1>1, <1>2, ShelvesStay
  <1>8. QED BY <1>1, <1>3, <1>4, <1>5, <1>6, <1>7, ShelvesStay DEF ListingInv

LEMMA PageLostKeepsListing ==
  ASSUME ListingInv, PageLost
  PROVE  ListingInv'
  <1>1. /\ UNCHANGED shelfVars /\ reader = "items" /\ reader' = "ready"
        /\ after' = after /\ listed' = listed
    BY DEF PageLost
  <1>2. ASSUME NEW s \in untouched PROVE Has(listed, s, OnList(s))'
    <2>1. OnList(s)' <=> OnList(s)
      BY <1>1, ShelvesStay DEF OnList
    <2>2. QED BY <1>1, <2>1 DEF ListingInv, Has, Once, Never
  <1>3. QED BY <1>1, <1>2, ShelvesStay DEF ListingInv

LEMMA ListingInvariant == ReplenishmentSpec => []ListingInv
  <1>1. ASSUME ReplenishmentInit PROVE ListingInv
    <2>1. ShelvesOK /\ untouched \subseteq Shelves
      BY <1>1, ReplenishmentAssumption DEF ReplenishmentInit, ShelvesOK
    <2>2. /\ reader = "ready" /\ after = None /\ listed = <<>>
      BY <1>1 DEF ReplenishmentInit
    <2>3. listed \in Seq(ShelfRows) /\ DOMAIN listed = {}
      BY <2>2
    <2>4. \A s \in untouched : Has(listed, s, OnList(s))
      BY <2>2, <2>3 DEF Has, Never, OnList
    <2>5. QED BY <2>1, <2>2, <2>3, <2>4 DEF ListingInv
  <1>2. ASSUME ListingInv, [ReplenishmentNext]_<<shelfVars, readerVars>> PROVE ListingInv'
    <2>1. CASE \E s \in Shelves, n \in Free : Change(s, n)
      BY <1>2, <2>1, ChangeKeepsListing
    <2>2. CASE \E s \in Shelves, p \in PolicyInputs : UpdateReplenishmentPolicy(s, p)
      BY <1>2, <2>2, PolicyKeepsListing
    <2>3. CASE ReadItems
      BY <1>2, <2>3, ReadItemsKeepsListing
    <2>4. CASE ReadDonors
      BY <1>2, <2>4, ReadDonorsKeepsListing
    <2>5. CASE PageLost
      BY <1>2, <2>5, PageLostKeepsListing
    <2>6. CASE UNCHANGED <<shelfVars, readerVars>>
      <3>1. ShelvesOK' /\ untouched' = untouched /\ UNCHANGED readerVars
            /\ free' = free /\ policy' = policy
        BY <1>2, <2>6, ShelvesStay DEF shelfVars
      <3>2. QED BY <1>2, <3>1, ShelvesChange
    <2>7. QED BY <1>2, <2>1, <2>2, <2>3, <2>4, <2>5, <2>6 DEF ReplenishmentNext
  <1>3. QED BY <1>1, <1>2, PTL DEF ReplenishmentSpec

(* Every low level that does not change is listed once, whatever the       *)
(* others do between the pages and however often a page is lost, for any   *)
(* number of levels, any stock and any length of a page.                   *)
THEOREM EveryLowIsListed == ReplenishmentSpec => []ListsEveryLow
  <1>1. ASSUME ListingInv PROVE ListsEveryLow
    <2> SUFFICES ASSUME \/ reader = "done"
                        \/ reader = "refused" /\ \A i \in DOMAIN listed : listed[i].free >= 0,
                        NEW s \in untouched
                 PROVE  Cardinality({i \in DOMAIN listed : listed[i].shelf = s}) =
                           IF s \in Low THEN 1 ELSE 0
      BY DEF ListsEveryLow
    <2>1. reader = "done"
      <3>1. ASSUME reader = "refused", \A i \in DOMAIN listed : listed[i].free >= 0 PROVE FALSE
        <4>1. after # None /\ after[2] < 0 /\ after[2] \in Int
          BY <1>1, <3>1 DEF ListingInv, Keys
        <4>2. PICK i \in DOMAIN listed : listed[i].free = after[2]
          BY <1>1, <4>1 DEF ListingInv
        <4>3. QED BY <3>1, <4>1, <4>2
      <3>2. QED BY <3>1
    <2>2. Has(listed, s, s \in Low)
      BY <1>1, <2>1 DEF ListingInv, OnList, Has
    <2>3. CASE s \in Low
      <3>1. PICK i \in DOMAIN listed :
               listed[i].shelf = s /\ \A j \in DOMAIN listed : listed[j].shelf = s => j = i
        BY <2>2, <2>3 DEF Has, Once
      <3>2. {j \in DOMAIN listed : listed[j].shelf = s} = {i}
        BY <3>1
      <3>3. QED BY <2>3, <3>2, FS_Singleton
    <2>4. CASE s \notin Low
      <3>1. {i \in DOMAIN listed : listed[i].shelf = s} = {}
        BY <2>2, <2>4 DEF Has, Never
      <3>2. QED BY <2>4, <3>1, FS_EmptySet
    <2>5. QED BY <2>3, <2>4
  <1>2. QED BY <1>1, ListingInvariant, PTL

-----------------------------------------------------------------------------
(* The parts run side by side and share no variable: what is shown of each *)
(* alone holds in the composition.                                         *)
LEMMA PartsRunAlone == ListedSpec => TransferSpec /\ ReplenishmentSpec /\ PagedSpec
  <1>1. ListedInit => TransferInit /\ ReplenishmentInit /\ PagedInit
    BY DEF ListedInit, Enough, SomeManaged, Unread
  <1>2. [ListedNext]_<<vars, shelfVars, readerVars, pagedVars>> =>
           /\ [TransferNext]_vars /\ [ReplenishmentNext]_<<shelfVars, readerVars>>
           /\ [PagedNext]_pagedVars
    BY DEF ListedNext
  <1>3. QED BY <1>1, <1>2, PTL DEF ListedSpec, TransferSpec, ReplenishmentSpec, PagedSpec

(* The composition keeps the types of both, of the rows on the screen and  *)
(* of the pages under way too.                                             *)
THEOREM ListedTyping == ListedSpec => []ListedTypeOK
  <1>1. TransferTypeOK /\ PagedTypeOK => ListedTypeOK
    BY DEF ListedTypeOK
  <1>2. QED BY <1>1, PartsRunAlone, TransferTyping, PagedTyping, PTL
=============================================================================
