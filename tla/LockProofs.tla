----------------------------- MODULE LockProofs -----------------------------
(***************************************************************************)
(* Theorems about the row locks, for any rows, any ids and any number of   *)
(* transactions.                                                           *)
(*                                                                         *)
(* A transaction's next request has a place, a natural number.  Where the  *)
(* place of a lock depends on its row only (Global), a transaction that    *)
(* waits for another stands at a lower place: the other holds the row and  *)
(* is beyond it.  Places are bounded, so that no set of transactions can   *)
(* have, for each of its members, another one further on.                  *)
(***************************************************************************)
EXTENDS LockOrder, TLAPS, WellFoundedInduction

(* The stage at which ordered transactions lock a row, and its place.      *)
Stage(r) == IF r \in Levels THEN 0 ELSE IF r \in Orders THEN 1
            ELSE IF r \in Products THEN 2 ELSE IF r \in Warehouses THEN 3 ELSE 4
GlobalPlace(r) == 2 * (Stage(r) * Width + Rank[r])

(* The requests of a transaction that are bound to the global order.       *)
Bound(k, q) == k \in OrderedKinds \/ (k # "create_transfer" /\ q.row \in Levels)

WellPlaced(k, requests) ==
    /\ requests \subseteq Requests
    /\ \A p \in requests : Bound(k, p) =>
          /\ p.at = GlobalPlace(p.row)
          /\ \A q \in requests : q.row = p.row => q.mode = p.mode

LockInv ==
    /\ LockTypeOK
    /\ \A t \in Transactions : WellPlaced(kind[t], todo[t] \cup held[t])
    /\ \A t \in Transactions : todo[t] \cap held[t] = {}
    /\ \A t \in Transactions : kind[t] = "none" => todo[t] = {} /\ held[t] = {}

-----------------------------------------------------------------------------
(* A set of natural numbers below a bound, none of them the largest, is    *)
(* empty: f is the place of each member of S.                              *)
LEMMA NoEndlessRise ==
    ASSUME NEW S, NEW B \in Nat, NEW f \in [S -> 0..B],
           \A t \in S : \E u \in S : f[t] < f[u]
    PROVE  S = {}
<1> SUFFICES ASSUME S # {} PROVE FALSE
  OBVIOUS
<1> DEFINE T == {B - f[t] : t \in S}
<1>1. T \subseteq Nat /\ T # {}
  OBVIOUS
<1>2. PICK x \in T : \A y \in T : ~(<<y, x>> \in OpToRel(<, Nat))
  <2> HIDE DEF T
  <2> QED
    BY <1>1, WFMin, NatLessThanWellFounded
<1>3. \A y \in T : ~(y < x)
  BY <1>1, <1>2 DEF OpToRel
<1>4. PICK t \in S : x = B - f[t]
  OBVIOUS
<1>5. PICK u \in S : f[t] < f[u]
  OBVIOUS
<1>6. f[t] \in 0..B /\ f[u] \in 0..B /\ B - f[u] \in T
  OBVIOUS
<1>7. ~(B - f[u] < B - f[t])
  BY <1>3, <1>4, <1>6
<1> HIDE DEF T
<1> QED
  BY <1>5, <1>6, <1>7

(* Different rows have different places.                                   *)
LEMMA PlacesDiffer ==
    ASSUME NEW r \in Rows, NEW s \in Rows, GlobalPlace(r) = GlobalPlace(s)
    PROVE  r = s
<1>1. /\ Stage(r) \in 0..4 /\ Stage(s) \in 0..4
      /\ Rank[r] \in 0..(Width - 1) /\ Rank[s] \in 0..(Width - 1) /\ Width \in Nat
  BY LockAssumption DEF Stage
<1>2. Stage(r) * Width + Rank[r] = Stage(s) * Width + Rank[s]
  <2>1. Stage(r) * Width \in Nat /\ Stage(s) * Width \in Nat
    BY <1>1
  <2>2. \A a, b \in Nat : 2 * a = 2 * b => a = b
    OBVIOUS
  <2>3. /\ Stage(r) * Width + Rank[r] \in Nat /\ Stage(s) * Width + Rank[s] \in Nat
    BY <1>1, <2>1
  <2> QED
    BY <2>2, <2>3 DEF GlobalPlace
<1>3. \A i, j \in 0..4, m, n \in 0..(Width - 1) :
         i * Width + m = j * Width + n => i = j /\ m = n
  <2> SUFFICES ASSUME NEW i \in 0..4, NEW j \in 0..4,
                      NEW m \in 0..(Width - 1), NEW n \in 0..(Width - 1),
                      i * Width + m = j * Width + n
               PROVE  i = j /\ m = n
    OBVIOUS
  <2>1. i \in {0, 1, 2, 3, 4} /\ j \in {0, 1, 2, 3, 4}
    OBVIOUS
  <2>2. CASE i = j
    BY <1>1, <2>2
  <2>3. CASE i < j
    <3>1. /\ 0 * Width = 0 /\ 1 * Width = Width /\ 2 * Width = Width + Width
          /\ 3 * Width = Width + Width + Width /\ 4 * Width = Width + Width + Width + Width
      BY <1>1
    <3> QED
      BY <1>1, <2>1, <2>3, <3>1
  <2>4. CASE j < i
    <3>1. /\ 0 * Width = 0 /\ 1 * Width = Width /\ 2 * Width = Width + Width
          /\ 3 * Width = Width + Width + Width /\ 4 * Width = Width + Width + Width + Width
      BY <1>1
    <3> QED
      BY <1>1, <2>1, <2>4, <3>1
  <2> QED
    BY <2>2, <2>3, <2>4
<1>4. Stage(r) = Stage(s) /\ Rank[r] = Rank[s]
  BY <1>1, <1>2, <1>3
<1>5. PICK rows \in {Levels, Products, Warehouses, Orders, Transfers} : r \in rows /\ s \in rows
  BY <1>4 DEF Stage, Rows
<1> QED
  BY <1>4, <1>5, LockAssumption

(* A sorted group of locks is where its rows belong.                       *)
LEMMA SortedPlaces ==
    ASSUME NEW stage \in 0..3, NEW rows \in SUBSET Rows, NEW mode \in {"update", "key"}
    PROVE  \A q \in Sorted(stage, rows, mode) :
              /\ q \in Requests /\ q.row \in rows /\ q.mode = mode
              /\ q.at = 2 * (stage * Width + Rank[q.row])
<1> SUFFICES ASSUME NEW r \in rows
             PROVE  LET q == Lock(r, mode, 2 * (stage * Width + Rank[r]))
                    IN  /\ q \in Requests /\ q.row \in rows /\ q.mode = mode
                        /\ q.at = 2 * (stage * Width + Rank[q.row])
  BY DEF Sorted
<1>1. Rank[r] \in 0..(Width - 1) /\ Width \in Nat /\ Width > 2
  BY LockAssumption
<1>2. stage * Width \in 0..(3 * Width)
  <2>1. stage \in {0, 1, 2, 3}
    OBVIOUS
  <2>2. 0 * Width = 0 /\ 1 * Width = Width /\ 2 * Width = Width + Width
        /\ 3 * Width = Width + Width + Width
    BY <1>1
  <2> QED
    BY <1>1, <2>1, <2>2
<1>3. 2 * (stage * Width + Rank[r]) \in 0..LastPlace
  BY <1>1, <1>2 DEF LastPlace
<1> QED
  BY <1>3 DEF Lock, Requests

(* The requests of an ordered transaction: update locks on levels and      *)
(* orders, then one mode for products and warehouses.                      *)
Ordered(ls, os, ps, ws, mode) ==
    Sorted(0, ls, "update") \cup Sorted(1, os, "update")
    \cup Sorted(2, ps, mode) \cup Sorted(3, ws, mode)

LEMMA OrderedPlaces ==
    ASSUME NEW k \in OrderedKinds, NEW mode \in {"update", "key"},
           NEW ls \in SUBSET Levels, NEW os \in SUBSET Orders,
           NEW ps \in SUBSET Products, NEW ws \in SUBSET Warehouses,
           NEW requests \in SUBSET Ordered(ls, os, ps, ws, mode)
    PROVE  WellPlaced(k, requests)
<1>1. ASSUME NEW q \in requests
      PROVE  /\ q \in Requests /\ q.at = GlobalPlace(q.row)
             /\ q.mode = IF q.row \in Levels \cup Orders THEN "update" ELSE mode
  <2>1. CASE q \in Sorted(0, ls, "update")
    BY <2>1, SortedPlaces DEF Rows, Stage, GlobalPlace
  <2>2. CASE q \in Sorted(1, os, "update")
    BY <2>2, SortedPlaces, LockAssumption DEF Rows, Stage, GlobalPlace
  <2>3. CASE q \in Sorted(2, ps, mode)
    BY <2>3, SortedPlaces, LockAssumption DEF Rows, Stage, GlobalPlace
  <2>4. CASE q \in Sorted(3, ws, mode)
    BY <2>4, SortedPlaces, LockAssumption DEF Rows, Stage, GlobalPlace
  <2> QED
    BY <2>1, <2>2, <2>3, <2>4 DEF Ordered
<1> QED
  BY <1>1 DEF WellPlaced

(* The other transactions, but for a transfer's creation: levels sorted,   *)
(* and locks of any kind on other rows.                                    *)
LEMMA LevelPlaces ==
    ASSUME NEW k, k \notin OrderedKinds, NEW ls \in SUBSET Levels,
           NEW others \in SUBSET Requests, \A q \in others : q.row \notin Levels
    PROVE  WellPlaced(k, Sorted(0, ls, "update") \cup others)
<1>1. ASSUME NEW q \in Sorted(0, ls, "update")
      PROVE  /\ q \in Requests /\ q.row \in Levels
             /\ q.at = GlobalPlace(q.row) /\ q.mode = "update"
  BY SortedPlaces DEF Rows, Stage, GlobalPlace
<1> QED
  BY <1>1 DEF WellPlaced, Bound

-----------------------------------------------------------------------------
(* A lock is acquired in order and stays apart from those still to come.   *)
LEMMA BeginKeeps ==
    ASSUME LockInv, NEW t \in Transactions, NEW k \in Kinds, NEW requests,
           WellPlaced(k, requests), BeginTx(t, k, requests)
    PROVE  LockInv'
<1>0. requests \in SUBSET Requests
  BY DEF WellPlaced
<1>1. held[t] = {}
  BY DEF BeginTx, LockInv
<1>2. \A u \in Transactions :
         /\ kind'[u] = (IF u = t THEN k ELSE kind[u])
         /\ todo'[u] = (IF u = t THEN requests ELSE todo[u])
         /\ held'[u] = held[u]
  BY DEF BeginTx, LockInv, LockTypeOK
<1>3. LockTypeOK'
  BY <1>0, <1>1, <1>2 DEF BeginTx, LockInv, LockTypeOK
<1>4. ASSUME NEW u \in Transactions
      PROVE  /\ WellPlaced(kind'[u], todo'[u] \cup held'[u])
             /\ todo'[u] \cap held'[u] = {}
             /\ kind'[u] = "none" => todo'[u] = {} /\ held'[u] = {}
  <2>1. CASE u = t
    BY <1>1, <1>2, <2>1 DEF Kinds, OrderedKinds
  <2>2. CASE u # t
    BY <1>2, <2>2 DEF LockInv
  <2> QED
    BY <2>1, <2>2
<1> QED
  BY <1>3, <1>4 DEF LockInv, WellPlaced

LEMMA AcquireKeeps ==
    ASSUME LockInv, NEW t \in Transactions, Acquire(t)
    PROVE  LockInv'
<1>1. PICK q \in FirstOf(todo[t]) :
         /\ \A u \in Transactions \ {t} : \A h \in held[u] : ~Conflict(q, h)
         /\ todo' = [todo EXCEPT ![t] = @ \ {q}]
         /\ held' = [held EXCEPT ![t] = @ \cup {q}]
         /\ UNCHANGED kind
  BY DEF Acquire
<1>2. q \in todo[t] /\ \A p \in todo[t] : q.at <= p.at
  BY DEF FirstOf
<1>3. \A u \in Transactions :
         /\ todo'[u] = (IF u = t THEN todo[u] \ {q} ELSE todo[u])
         /\ held'[u] = (IF u = t THEN held[u] \cup {q} ELSE held[u])
  BY <1>1 DEF LockInv, LockTypeOK
<1>4. LockTypeOK'
  <2>1. /\ todo' \in [Transactions -> SUBSET Requests]
        /\ held' \in [Transactions -> SUBSET Requests]
    BY <1>1, <1>2 DEF LockInv, LockTypeOK
  <2>2. ASSUME NEW u \in Transactions, NEW h \in held'[u], NEW p \in todo'[u]
        PROVE  h.at <= p.at
    <3>1. p \in todo[u]
      BY <1>3, <2>2
    <3>2. CASE h \in held[u]
      BY <3>1, <3>2 DEF LockInv, LockTypeOK
    <3>3. CASE u = t /\ h = q
      BY <1>2, <3>1, <3>3
    <3> QED
      BY <1>3, <2>2, <3>2, <3>3
  <2>3. ASSUME NEW u \in Transactions, NEW v \in Transactions, u # v,
               NEW h \in held'[u], NEW g \in held'[v]
        PROVE  ~Conflict(h, g)
    BY <1>1, <1>3, <2>3 DEF LockInv, LockTypeOK, Conflict
  <2> QED
    BY <1>1, <2>1, <2>2, <2>3 DEF LockInv, LockTypeOK
<1>5. ASSUME NEW u \in Transactions
      PROVE  /\ WellPlaced(kind'[u], todo'[u] \cup held'[u])
             /\ todo'[u] \cap held'[u] = {}
             /\ kind'[u] = "none" => todo'[u] = {} /\ held'[u] = {}
  <2>1. todo'[u] \cup held'[u] = todo[u] \cup held[u]
    BY <1>2, <1>3
  <2>2. WellPlaced(kind'[u], todo'[u] \cup held'[u])
    BY <1>1, <2>1 DEF LockInv
  <2>3. todo'[u] \cap held'[u] = {}
    BY <1>3 DEF LockInv
  <2>4. kind'[u] = "none" => todo'[u] = {} /\ held'[u] = {}
    BY <1>1, <1>2, <1>3 DEF LockInv
  <2> QED
    BY <2>2, <2>3, <2>4
<1> QED
  BY <1>4, <1>5 DEF LockInv, WellPlaced

LEMMA EndKeeps ==
    ASSUME LockInv, NEW t \in Transactions, EndTx(t)
    PROVE  LockInv'
<1>1. \A u \in Transactions :
         /\ kind'[u] = (IF u = t THEN "none" ELSE kind[u])
         /\ todo'[u] = (IF u = t THEN {} ELSE todo[u])
         /\ held'[u] = (IF u = t THEN {} ELSE held[u])
  BY DEF EndTx, LockInv, LockTypeOK
<1>2. LockTypeOK'
  BY <1>1 DEF EndTx, LockInv, LockTypeOK
<1>3. ASSUME NEW u \in Transactions
      PROVE  /\ WellPlaced(kind'[u], todo'[u] \cup held'[u])
             /\ todo'[u] \cap held'[u] = {}
             /\ kind'[u] = "none" => todo'[u] = {} /\ held'[u] = {}
  <2>1. CASE u = t
    BY <1>1, <2>1 DEF WellPlaced
  <2>2. CASE u # t
    BY <1>1, <2>2 DEF LockInv
  <2> QED
    BY <2>1, <2>2
<1> QED
  BY <1>2, <1>3 DEF LockInv, WellPlaced

(* An ordered transaction begins.                                          *)
LEMMA OrderedKeeps ==
    ASSUME LockInv, NEW t \in Transactions,
           NEW k \in OrderedKinds, NEW mode \in {"update", "key"},
           NEW ls \in SUBSET Levels, NEW os \in SUBSET Orders,
           NEW ps \in SUBSET Products, NEW ws \in SUBSET Warehouses,
           NEW requests \in SUBSET Ordered(ls, os, ps, ws, mode),
           BeginTx(t, k, requests)
    PROVE  LockInv'
<1>1. WellPlaced(k, requests)
  BY OrderedPlaces
<1>2. k \in Kinds
  BY DEF Kinds
<1> QED
  BY <1>1, <1>2, BeginKeeps

(* One of the others begins, with sorted levels and further locks.         *)
LEMMA LevelKeeps ==
    ASSUME LockInv, NEW t \in Transactions,
           NEW k \in {"auto_order", "complete", "move", "cancel_transfer"},
           NEW ls \in SUBSET Levels,
           NEW others \in SUBSET Requests, \A q \in others : q.row \notin Levels,
           BeginTx(t, k, Sorted(0, ls, "update") \cup others)
    PROVE  LockInv'
<1>1. k \in Kinds /\ k \notin OrderedKinds
  BY DEF Kinds, OrderedKinds
<1>2. WellPlaced(k, Sorted(0, ls, "update") \cup others)
  BY <1>1, LevelPlaces
<1> QED
  BY <1>1, <1>2, BeginKeeps

(* A lock on a row other than a level, early enough to be a request.       *)
LEMMA OtherRow ==
    ASSUME NEW r \in Products \cup Warehouses \cup Orders \cup Transfers,
           NEW mode \in {"update", "key"}, NEW at \in 0..LastPlace
    PROVE  Lock(r, mode, at) \in Requests /\ Lock(r, mode, at).row \notin Levels
BY LockAssumption DEF Lock, Requests, Rows

(* Every ordered transaction asks for its locks where they belong.         *)
LEMMA OrderedActions ==
    ASSUME LockInv, NEW t \in Transactions,
           \/ \E lines \in SUBSET Levels : CreateOrder(t, lines)
           \/ \E l \in Levels : Reserve(t, l) \/ Adjust(t, l) \/ LockLevel(t, l) \/ CreateLevel(t, l)
           \/ \E r \in Products \cup Warehouses : UpdateCatalogue(t, r)
           \/ \E o \in Orders : LockAggregate(t, o)
    PROVE  LockInv'
<1>0. /\ \A l \in Levels : ProductOf[l] \in Products /\ WarehouseOf[l] \in Warehouses
      /\ \A o \in Orders : LevelsOf[o] \in SUBSET Levels
  BY LockAssumption
<1>k. /\ "create_order" \in OrderedKinds /\ "reserve" \in OrderedKinds
      /\ "adjust" \in OrderedKinds /\ "level" \in OrderedKinds
      /\ "aggregate" \in OrderedKinds /\ "create_level" \in OrderedKinds
      /\ "catalogue" \in OrderedKinds /\ "update" \in {"update", "key"}
  BY DEF OrderedKinds
<1>e. /\ {} \in SUBSET Levels /\ {} \in SUBSET Orders
      /\ {} \in SUBSET Products /\ {} \in SUBSET Warehouses
  OBVIOUS
<1>1. ASSUME NEW lines \in SUBSET Levels, CreateOrder(t, lines)
      PROVE  LockInv'
  <2>1. {ProductOf[l] : l \in lines} \in SUBSET Products
    BY <1>0
  <2>2. BeginTx(t, "create_order", Sorted(0, lines, "update") \cup
                  Sorted(2, {ProductOf[l] : l \in lines}, "update"))
    BY <1>1 DEF CreateOrder
  <2> DEFINE products == {ProductOf[l] : l \in lines}
  <2> HIDE DEF products
  <2>3. Sorted(0, lines, "update") \cup Sorted(2, products, "update")
          \in SUBSET Ordered(lines, {}, products, {}, "update")
    BY DEF Ordered
  <2>4. products \in SUBSET Products
        /\ BeginTx(t, "create_order", Sorted(0, lines, "update") \cup Sorted(2, products, "update"))
    BY <2>1, <2>2 DEF products
  <2> QED
    BY <1>k, <2>3, <2>4, OrderedKeeps
<1>2. ASSUME NEW l \in Levels, Reserve(t, l)
      PROVE  LockInv'
  <2>1. Sorted(0, {l}, "update") \cup Sorted(2, {ProductOf[l]}, "update")
          \cup Sorted(3, {WarehouseOf[l]}, "update")
        \in SUBSET Ordered({l}, {}, {ProductOf[l]}, {WarehouseOf[l]}, "update")
    BY DEF Ordered
  <2>2. {l} \in SUBSET Levels /\ {ProductOf[l]} \in SUBSET Products
        /\ {WarehouseOf[l]} \in SUBSET Warehouses
    BY <1>0
  <2> QED
    BY <1>2, <1>k, <2>1, <2>2, OrderedKeeps DEF Reserve
<1>3. ASSUME NEW l \in Levels, Adjust(t, l)
      PROVE  LockInv'
  <2>1. Sorted(0, {l}, "update") \cup Sorted(2, {ProductOf[l]}, "key")
          \cup Sorted(3, {WarehouseOf[l]}, "key")
        \in SUBSET Ordered({l}, {}, {ProductOf[l]}, {WarehouseOf[l]}, "key")
    BY DEF Ordered
  <2>2. {l} \in SUBSET Levels /\ {ProductOf[l]} \in SUBSET Products
        /\ {WarehouseOf[l]} \in SUBSET Warehouses
    BY <1>0
  <2> QED
    BY <1>3, <1>k, <2>1, <2>2, OrderedKeeps DEF Adjust
<1>4. ASSUME NEW l \in Levels, LockLevel(t, l)
      PROVE  LockInv'
  <2>1. Sorted(0, {l}, "update")
        \in SUBSET Ordered({l}, {}, {}, {}, "update")
    BY DEF Ordered
  <2>2. {l} \in SUBSET Levels
    OBVIOUS
  <2> QED
    BY <1>4, <1>k, <1>e, <2>1, <2>2, OrderedKeeps DEF LockLevel
<1>5. ASSUME NEW l \in Levels, CreateLevel(t, l)
      PROVE  LockInv'
  <2>1. Sorted(2, {ProductOf[l]}, "update") \cup Sorted(3, {WarehouseOf[l]}, "update")
        \in SUBSET Ordered({}, {}, {ProductOf[l]}, {WarehouseOf[l]}, "update")
    BY DEF Ordered
  <2>2. {ProductOf[l]} \in SUBSET Products /\ {WarehouseOf[l]} \in SUBSET Warehouses
    BY <1>0
  <2> QED
    BY <1>5, <1>k, <2>1, <2>2, OrderedKeeps DEF CreateLevel
<1>6. ASSUME NEW r \in Products \cup Warehouses, UpdateCatalogue(t, r)
      PROVE  LockInv'
  <2>1. CASE r \in Products
    <3>1. Sorted(2, {r}, "update")
          \in SUBSET Ordered({}, {}, {r}, {}, "update")
      BY DEF Ordered
    <3>2. {r} \in SUBSET Products /\ BeginTx(t, "catalogue", Sorted(2, {r}, "update"))
      BY <1>6, <2>1 DEF UpdateCatalogue
    <3> QED
      BY <1>k, <1>e, <3>1, <3>2, OrderedKeeps
  <2>2. CASE r \notin Products
    <3>1. Sorted(3, {r}, "update")
          \in SUBSET Ordered({}, {}, {}, {r}, "update")
      BY DEF Ordered
    <3>2. {r} \in SUBSET Warehouses /\ BeginTx(t, "catalogue", Sorted(3, {r}, "update"))
      BY <1>6, <2>2 DEF UpdateCatalogue
    <3> QED
      BY <1>k, <1>e, <3>1, <3>2, OrderedKeeps
  <2> QED
    BY <2>1, <2>2
<1>7. ASSUME NEW o \in Orders, LockAggregate(t, o)
      PROVE  LockInv'
  <2>1. Sorted(0, LevelsOf[o], "update") \cup Sorted(1, {o}, "update")
        \in SUBSET Ordered(LevelsOf[o], {o}, {}, {}, "update")
    BY DEF Ordered
  <2>2. {o} \in SUBSET Orders
    OBVIOUS
  <2> QED
    BY <1>0, <1>7, <1>k, <1>e, <2>1, <2>2, OrderedKeeps DEF LockAggregate
<1> QED
  BY <1>1, <1>2, <1>3, <1>4, <1>5, <1>6, <1>7

(* So do automatic orders, shipments and transfers, on levels.             *)
LEMMA LevelActions ==
    ASSUME LockInv, NEW t \in Transactions,
           \/ \E products \in SUBSET Products : AutoCreate(t, products)
           \/ \E o \in Orders, w \in Warehouses : \E shipped \in SUBSET LevelsOf[o] :
                 Complete(t, o, w, shipped) \/ ReplayComplete(t, o, w, shipped)
           \/ \E x \in Transfers :
                 \/ \E warehouses \in {{From[x], To[x]}, {To[x]}} : Move(t, x, warehouses)
                 \/ CancelTransfer(t, x)
    PROVE  LockInv'
<1>0. /\ \A l \in Levels : ProductOf[l] \in Products /\ WarehouseOf[l] \in Warehouses
      /\ \A o \in Orders : LevelsOf[o] \in SUBSET Levels
      /\ \A x \in Transfers : From[x] \in Warehouses /\ To[x] \in Warehouses
  BY LockAssumption
<1>w. /\ Width \in Nat /\ Width > 2 /\ LastPlace = 16 * Width
      /\ \A r \in Rows : Rank[r] \in 0..(Width - 1)
      /\ \A l \in Levels : Turn[l] \in 0..(Width - 1)
  BY LockAssumption DEF LastPlace
<1>s. /\ \A ps \in SUBSET Products : \A q \in Sorted(2, ps, "update") :
            q \in Requests /\ q.row \notin Levels
      /\ \A o \in Orders : \A q \in Sorted(1, {o}, "update") :
            q \in Requests /\ q.row \notin Levels
  BY SortedPlaces, LockAssumption DEF Rows
<1>k. /\ "auto_order" \in {"auto_order", "complete", "move", "cancel_transfer"}
      /\ "complete" \in {"auto_order", "complete", "move", "cancel_transfer"}
      /\ "move" \in {"auto_order", "complete", "move", "cancel_transfer"}
      /\ "cancel_transfer" \in {"auto_order", "complete", "move", "cancel_transfer"}
  OBVIOUS
<1>m. "update" \in {"update", "key"} /\ "key" \in {"update", "key"}
  OBVIOUS
<1>1. ASSUME NEW products \in SUBSET Products, AutoCreate(t, products)
      PROVE  LockInv'
  <2> DEFINE candidates == {l \in Levels : ProductOf[l] \in products}
             sites  == {Lock(WarehouseOf[l], "update", 2 * Rank[l] + 1) : l \in candidates}
             others == sites \cup Sorted(2, products, "update")
  <2>1. ASSUME NEW l \in candidates
        PROVE  /\ Lock(WarehouseOf[l], "update", 2 * Rank[l] + 1) \in Requests
               /\ Lock(WarehouseOf[l], "update", 2 * Rank[l] + 1).row \notin Levels
    <3>1. 2 * Rank[l] + 1 \in 0..LastPlace
      BY <1>w DEF Rows
    <3> QED
      BY <1>0, <1>m, <3>1, OtherRow
  <2>2. \A q \in others : q \in Requests /\ q.row \notin Levels
    BY <1>s, <2>1
  <2>3. BeginTx(t, "auto_order", Sorted(0, candidates, "update") \cup others)
    <3>1. Sorted(0, candidates, "update") \cup others =
            Sorted(0, candidates, "update") \cup sites \cup Sorted(2, products, "update")
      OBVIOUS
    <3> QED
      BY <1>1, <3>1 DEF AutoCreate
  <2>4. candidates \in SUBSET Levels /\ others \in SUBSET Requests
    BY <2>2
  <2> HIDE DEF candidates, others
  <2> QED
    BY <1>k, <2>2, <2>3, <2>4, LevelKeeps
<1>2. ASSUME NEW o \in Orders, NEW w \in Warehouses, NEW shipped \in SUBSET LevelsOf[o],
             Complete(t, o, w, shipped)
      PROVE  LockInv'
  <2> DEFINE site   == Lock(w, "key", 4 * Width)
             moved  == {Lock(ProductOf[l], "key", 6 * Width + Turn[l]) : l \in shipped}
             others == Sorted(1, {o}, "update") \cup {site} \cup moved
  <2>0. shipped \in SUBSET Levels
    BY <1>0
  <2>1. site \in Requests /\ site.row \notin Levels
    <3>1. 4 * Width \in 0..LastPlace
      BY <1>w
    <3> QED
      BY <1>m, <3>1, OtherRow
  <2>2. ASSUME NEW l \in shipped
        PROVE  /\ Lock(ProductOf[l], "key", 6 * Width + Turn[l]) \in Requests
               /\ Lock(ProductOf[l], "key", 6 * Width + Turn[l]).row \notin Levels
    <3>1. 6 * Width + Turn[l] \in 0..LastPlace
      BY <1>w, <2>0
    <3> QED
      BY <1>0, <1>m, <2>0, <3>1, OtherRow
  <2>3. \A q \in others : q \in Requests /\ q.row \notin Levels
    BY <1>s, <2>1, <2>2
  <2>4. BeginTx(t, "complete", Sorted(0, shipped, "update") \cup others)
    <3>1. Sorted(0, shipped, "update") \cup others =
            Sorted(0, shipped, "update") \cup Sorted(1, {o}, "update") \cup {site} \cup moved
      OBVIOUS
    <3> QED
      BY <1>2, <3>1 DEF Complete
  <2>5. others \in SUBSET Requests
    BY <2>3
  <2> HIDE DEF others
  <2> QED
    BY <1>k, <2>0, <2>3, <2>4, <2>5, LevelKeeps
<1>5. ASSUME NEW o \in Orders, NEW w \in Warehouses, NEW shipped \in SUBSET LevelsOf[o],
             ReplayComplete(t, o, w, shipped)
      PROVE  LockInv'
  <2> DEFINE site   == Lock(w, "update", 4 * Width)
             others == Sorted(1, {o}, "update") \cup {site}
  <2>0. shipped \in SUBSET Levels
    BY <1>0
  <2>1. site \in Requests /\ site.row \notin Levels
    <3>1. 4 * Width \in 0..LastPlace
      BY <1>w
    <3> QED
      BY <1>m, <3>1, OtherRow
  <2>2. \A q \in others : q \in Requests /\ q.row \notin Levels
    BY <1>s, <2>1
  <2>3. BeginTx(t, "complete", Sorted(0, shipped, "update") \cup others)
    <3>1. Sorted(0, shipped, "update") \cup others =
            Sorted(0, shipped, "update") \cup Sorted(1, {o}, "update") \cup {site}
      OBVIOUS
    <3> QED
      BY <1>5, <3>1 DEF ReplayComplete
  <2>4. others \in SUBSET Requests
    BY <2>2
  <2> HIDE DEF others
  <2> QED
    BY <1>k, <2>0, <2>2, <2>3, <2>4, LevelKeeps
<1>t. ASSUME NEW x \in Transfers
      PROVE  \A q \in TransferRows(x) : q \in Requests /\ q.row \notin Levels
  <2>1. /\ 2 * Width \in 0..LastPlace /\ 2 * Width + 1 \in 0..LastPlace
        /\ 2 * Width + 2 \in 0..LastPlace
    BY <1>w
  <2> QED
    BY <1>0, <1>m, <2>1, OtherRow DEF TransferRows
<1>3. ASSUME NEW x \in Transfers, NEW warehouses, Move(t, x, warehouses)
      PROVE  LockInv'
  <2> DEFINE levels == UNION {LevelsIn(w, ItemsOf[x]) : w \in warehouses}
             moved  == {Lock(ProductOf[l], "key", 5 * Width + Turn[l]) : l \in LevelsIn(From[x], ItemsOf[x])}
             others == TransferRows(x) \cup moved
  <2>1. levels \in SUBSET Levels /\ LevelsIn(From[x], ItemsOf[x]) \in SUBSET Levels
    BY DEF LevelsIn
  <2>2. ASSUME NEW l \in LevelsIn(From[x], ItemsOf[x])
        PROVE  /\ Lock(ProductOf[l], "key", 5 * Width + Turn[l]) \in Requests
               /\ Lock(ProductOf[l], "key", 5 * Width + Turn[l]).row \notin Levels
    <3>1. 5 * Width + Turn[l] \in 0..LastPlace
      BY <1>w, <2>1
    <3> QED
      BY <1>0, <1>m, <2>1, <3>1, OtherRow
  <2>3. \A q \in others : q \in Requests /\ q.row \notin Levels
    BY <1>t, <2>2
  <2>4. BeginTx(t, "move", Sorted(0, levels, "update") \cup others)
    <3>1. Sorted(0, levels, "update") \cup others =
            Sorted(0, levels, "update") \cup TransferRows(x) \cup moved
      OBVIOUS
    <3> QED
      BY <1>3, <3>1 DEF Move
  <2>5. others \in SUBSET Requests
    BY <2>3
  <2> HIDE DEF levels, others
  <2> QED
    BY <1>k, <2>1, <2>3, <2>4, <2>5, LevelKeeps
<1>4. ASSUME NEW x \in Transfers, CancelTransfer(t, x)
      PROVE  LockInv'
  <2>1. Sorted(0, {}, "update") \cup TransferRows(x) = TransferRows(x)
    BY DEF Sorted
  <2>2. BeginTx(t, "cancel_transfer", Sorted(0, {}, "update") \cup TransferRows(x))
    BY <1>4, <2>1 DEF CancelTransfer
  <2>3. TransferRows(x) \in SUBSET Requests /\ {} \in SUBSET Levels
    BY <1>t
  <2> QED
    BY <1>k, <1>t, <2>2, <2>3, LevelKeeps
<1> QED
  BY <1>1, <1>2, <1>3, <1>4, <1>5

(* A transfer's creation asks for requests at all, in no global order.     *)
LEMMA CreationKeeps ==
    ASSUME LockInv, NEW t \in Transactions, NEW x \in Transfers, CreateTransfer(t, x)
    PROVE  LockInv'
<1>w. /\ Width \in Nat /\ Width > 2 /\ LastPlace = 16 * Width
      /\ \A r \in Rows : Rank[r] \in 0..(Width - 1)
  BY LockAssumption DEF LastPlace
<1>0. /\ From[x] \in Warehouses /\ To[x] \in Warehouses /\ ItemsOf[x] \in SUBSET Products
      /\ \A l \in Levels : ProductOf[l] \in Products
      /\ "update" \in {"update", "key"} /\ "key" \in {"update", "key"}
  BY LockAssumption
<1> DEFINE at(p) == 4 * Width + 3 * Rank[p]
<1>1. \A p \in Products : /\ at(p) \in 0..LastPlace /\ at(p) + 1 \in 0..LastPlace
                          /\ at(p) + 2 \in 0..LastPlace
  BY <1>w DEF Rows
<1> HIDE DEF at
<1>2. {Lock(From[x], "key", 0), Lock(To[x], "key", 1)} \subseteq Requests
  BY <1>0, <1>w, OtherRow
<1>3. Sorted(1, {From[x], To[x]}, "update") \subseteq Requests
  BY <1>0, SortedPlaces DEF Rows
<1>4. {Lock(p, "update", at(p)) : p \in ItemsOf[x]} \subseteq Requests
  BY <1>0, <1>1, OtherRow
<1>5. /\ {Lock(l, "update", at(ProductOf[l]) + 1) : l \in LevelsIn(From[x], ItemsOf[x])}
            \subseteq Requests
      /\ {Lock(l, "update", at(ProductOf[l]) + 2) : l \in LevelsIn(To[x], ItemsOf[x])}
            \subseteq Requests
  BY <1>0, <1>1 DEF LevelsIn, Lock, Requests, Rows
<1> USE DEF at
<1>6. PICK requests \in SUBSET Requests : BeginTx(t, "create_transfer", requests)
  BY <1>2, <1>3, <1>4, <1>5 DEF CreateTransfer
<1>7. "create_transfer" \in Kinds /\ "create_transfer" \notin OrderedKinds
  BY DEF Kinds, OrderedKinds
<1>8. WellPlaced("create_transfer", requests)
  BY <1>7 DEF WellPlaced, Bound
<1> QED
  BY <1>6, <1>7, <1>8, BeginKeeps

THEOREM LockInduction == Spec => []LockInv
<1>1. Init => LockInv
  BY DEF Init, LockInv, LockTypeOK, WellPlaced
<1>2. LockInv /\ [Next]_vars => LockInv'
  <2> SUFFICES ASSUME LockInv, [Next]_vars PROVE LockInv'
    OBVIOUS
  <2>1. CASE UNCHANGED vars
    BY <2>1 DEF vars, LockInv, LockTypeOK, WellPlaced
  <2>2. CASE Next
    <3>1. PICK t \in Transactions :
             StockTransactions(t) \/ TransferTransactions(t) \/ Acquire(t) \/ EndTx(t)
      BY <2>2 DEF Next
    <3>2. CASE StockTransactions(t)
      BY <3>2, OrderedActions, LevelActions DEF StockTransactions
    <3>3. CASE TransferTransactions(t)
      BY <3>3, LevelActions, CreationKeeps DEF TransferTransactions
    <3> QED
      BY <3>1, <3>2, <3>3, AcquireKeeps, EndKeeps
  <2> QED
    BY <2>1, <2>2
<1> QED
  BY <1>1, <1>2, PTL DEF Spec

-----------------------------------------------------------------------------
(* The place of a transaction's next request.                              *)
Place(t) == (CHOOSE q \in FirstOf(todo[t]) : TRUE).at

LEMMA PlaceOfFirst ==
    ASSUME LockInv, NEW t \in Transactions, NEW q \in FirstOf(todo[t])
    PROVE  q \in todo[t] /\ Place(t) = q.at /\ Place(t) \in 0..LastPlace
<1>1. todo[t] \subseteq Requests
  BY DEF LockInv, LockTypeOK
<1>2. PICK p \in FirstOf(todo[t]) : Place(t) = p.at
  BY DEF Place
<1>3. /\ p \in todo[t] /\ q \in todo[t] /\ p.at <= q.at /\ q.at <= p.at
      /\ p.at \in 0..LastPlace /\ q.at \in 0..LastPlace
  BY <1>1 DEF FirstOf, Requests
<1>4. LastPlace \in Nat
  BY LockAssumption DEF LastPlace
<1>5. p.at = q.at
  BY <1>3, <1>4
<1> QED
  BY <1>2, <1>3, <1>5

(* Whoever is waited for, and waits as well, stands at a higher place.     *)
LEMMA WaitsUpward ==
    ASSUME LockInv, NEW t \in Transactions, NEW u \in Transactions, NEW v \in Transactions,
           NEW rows \in SUBSET Rows,
           WaitsOn(t, u, rows), WaitsOn(u, v, rows),
           \A w \in {t, u} : \A r \in rows :
               kind[w] \in OrderedKinds \/ (kind[w] # "create_transfer" /\ r \in Levels)
    PROVE  Place(t) < Place(u)
<1>1. PICK q \in FirstOf(todo[t]), h \in held[u] : q.row \in rows /\ Conflict(q, h)
  BY DEF WaitsOn
<1>2. PICK p \in FirstOf(todo[u]), g \in held[v] : p.row \in rows
  BY DEF WaitsOn
<1>3. q \in todo[t] /\ Place(t) = q.at /\ p \in todo[u] /\ Place(u) = p.at
  BY PlaceOfFirst
<1>4. h.row = q.row
  BY <1>1 DEF Conflict
<1>5. Bound(kind[t], q) /\ Bound(kind[u], h) /\ Bound(kind[u], p)
  BY <1>1, <1>2, <1>4 DEF Bound
<1>6. /\ q.at = GlobalPlace(q.row) /\ h.at = GlobalPlace(h.row) /\ p.at = GlobalPlace(p.row)
      /\ p.row = h.row => p.mode = h.mode
  BY <1>3, <1>5 DEF LockInv, WellPlaced
<1>7. h \in Requests /\ p \in Requests /\ h.at <= p.at
  BY <1>3 DEF LockInv, LockTypeOK
<1>8. h.at # p.at
  <2>1. SUFFICES ASSUME h.at = p.at PROVE FALSE
    OBVIOUS
  <2>2. h.row \in Rows /\ p.row \in Rows
    BY <1>7 DEF Requests
  <2>3. h.row = p.row
    BY <1>6, <2>1, <2>2, PlacesDiffer
  <2>4. h = p
    BY <1>6, <1>7, <2>1, <2>3 DEF Requests
  <2> QED
    BY <1>3, <2>4 DEF LockInv
<1>9. h.at \in Nat /\ p.at \in Nat
  BY <1>7, LockAssumption DEF Requests, LastPlace
<1> QED
  BY <1>3, <1>4, <1>6, <1>7, <1>8, <1>9

(* Where every wait goes upward, some transaction waits for no other.      *)
LEMMA UpwardNoCircle ==
    ASSUME LockInv, NEW transactions \in SUBSET Transactions, NEW rows \in SUBSET Rows,
           \A t \in transactions : \A r \in rows :
               kind[t] \in OrderedKinds \/ (kind[t] # "create_transfer" /\ r \in Levels)
    PROVE  NoCircle(transactions, rows)
<1> SUFFICES ASSUME NEW S \in SUBSET transactions,
                    \A t \in S : \E u \in S : WaitsOn(t, u, rows)
             PROVE  S = {}
  BY DEF NoCircle
<1> DEFINE f == [t \in S |-> Place(t)]
<1>1. ASSUME NEW t \in S
      PROVE  Place(t) \in 0..LastPlace /\ \E u \in S : Place(t) < Place(u)
  <2>1. PICK u \in S : WaitsOn(t, u, rows)
    OBVIOUS
  <2>2. PICK v \in S : WaitsOn(u, v, rows)
    OBVIOUS
  <2>3. Place(t) < Place(u)
    BY <2>1, <2>2, WaitsUpward
  <2>4. PICK q : q \in FirstOf(todo[t])
    BY <2>1 DEF WaitsOn
  <2>5. Place(t) \in 0..LastPlace
    BY <2>4, PlaceOfFirst
  <2> QED
    BY <2>3, <2>5
<1>2. f \in [S -> 0..LastPlace] /\ \A t \in S : \E u \in S : f[t] < f[u]
  BY <1>1
<1>3. LastPlace \in Nat
  BY LockAssumption DEF LastPlace
<1> HIDE DEF f
<1> QED
  BY <1>2, <1>3, NoEndlessRise

(* Locks are asked for in a transaction's own order and exclude each other *)
(* (PostgreSQL's row locks, as Acquire takes them).                        *)
THEOREM LockTyping == Spec => []LockTypeOK
<1>1. LockInv => LockTypeOK
  BY DEF LockInv
<1> QED
  BY <1>1, LockInduction, PTL

(* Manual orders, reservations, adjustments, payments, cancellations and   *)
(* catalogue updates never deadlock with each other, on any rows.          *)
THEOREM OrderedTransactionsNeverDeadlock == Spec => []OrderedNeverDeadlock
<1>1. LockInv => OrderedNeverDeadlock
  <2> SUFFICES ASSUME LockInv PROVE OrderedNeverDeadlock
    OBVIOUS
  <2> DEFINE ordered == {t \in Transactions : kind[t] \in OrderedKinds}
  <2>1. /\ ordered \in SUBSET Transactions /\ Rows \in SUBSET Rows
        /\ \A t \in ordered : kind[t] \in OrderedKinds
    OBVIOUS
  <2> HIDE DEF ordered
  <2>2. NoCircle(ordered, Rows)
    BY <2>1, UpwardNoCircle
  <2> QED
    BY <2>2 DEF ordered, OrderedNeverDeadlock
<1> QED
  BY <1>1, LockInduction, PTL

(* Apart from a transfer's creation no transactions deadlock on levels.    *)
THEOREM LevelTransactionsNeverDeadlock == Spec => []LevelsNeverDeadlock
<1>1. LockInv => LevelsNeverDeadlock
  <2> SUFFICES ASSUME LockInv PROVE LevelsNeverDeadlock
    OBVIOUS
  <2> DEFINE others == {t \in Transactions : kind[t] # "create_transfer"}
  <2>1. /\ others \in SUBSET Transactions /\ Levels \in SUBSET Rows
        /\ \A t \in others : kind[t] # "create_transfer"
    BY DEF Rows
  <2> HIDE DEF others
  <2>2. NoCircle(others, Levels)
    BY <2>1, UpwardNoCircle
  <2> QED
    BY <2>2 DEF others, LevelsNeverDeadlock
<1> QED
  BY <1>1, LockInduction, PTL
=============================================================================
