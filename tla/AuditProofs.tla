---------------------------- MODULE AuditProofs ----------------------------
(***************************************************************************)
(* The audit trail tells all, for any number of transactions, levels,      *)
(* clerks and values, and whatever ids the movements get.                  *)
(*                                                                         *)
(* TrailTellsAll says nothing of movements, through which the code finds   *)
(* the source of an event.  What is added to it: a movement is that of one *)
(* committed correction and has its time, and an event is of the type of   *)
(* its change.  So a correction that finds another movement than its own   *)
(* finds that of an equal one that began no earlier and has committed.     *)
(***************************************************************************)
EXTENDS AuditTrail, FiniteSetTheorems, NaturalsInduction, TLAPS

Movement == [id: MovementIds, created: Nat, job: Jobs]

WriterStates ==
    [at: {"unused", "ended"}] \cup [at: {"begun"}, job: Jobs, start: Nat]
      \cup [at: {"committed"}, job: Jobs, start: Nat, movement: Nat, turn: Nat]

AuditTypeOK ==
    /\ tick \in Nat
    /\ movements \subseteq Movement /\ IsFiniteSet(movements)
    /\ writer \in [Writers -> WriterStates]

(* Turns are counted.                                                      *)
TurnsOK == \A w \in Committed : writer[w].turn <= Cardinality(Committed)

OneMovementAnId(all) == \A m, n \in all : m.id = n.id => m = n

(* Corrections and movements belong together.                              *)
MovementsOK ==
    /\ OneMovementAnId(movements)
    /\ \A m \in movements : \E w \in Committed :
          /\ writer[w].job = m.job /\ m.job.op = "adjust"
          /\ writer[w].start = m.created /\ writer[w].movement = m.id
    /\ \A w \in Committed : writer[w].job.op = "adjust" =>
          \E m \in movements : m.id = writer[w].movement

EventType(job) ==
    IF job.op = "adjust" THEN "inventory.adjusted" ELSE "replenishment.policy_updated"

(* Event e is that of the committed change w.                              *)
IsOf(e, w) ==
    e.source = Source(w) /\ e.job = writer[w].job /\ e.type = EventType(writer[w].job)

TrailOK == \A e \in trail : \E w \in Committed : IsOf(e, w)

(* What makes up for the event of w, if it has none.                       *)
Precedes(v, w) ==
    /\ writer[v].job.op = writer[w].job.op /\ writer[v].job.level = writer[w].job.level
    /\ IF writer[w].job.op = "adjust"
       THEN writer[v].job = writer[w].job /\ Overtook(v, w)
       ELSE writer[v].turn < writer[w].turn

Told(w) == Recorded(w) \/ \E v \in Committed \ {w} : Precedes(v, w)

AuditInv ==
    /\ AuditTypeOK /\ TurnsOK /\ MovementsOK /\ TrailOK
    /\ \A w \in Committed : Told(w)

-----------------------------------------------------------------------------
(* The newest movement.                                                    *)
LEMMA NewerOrders ==
    ASSUME NEW k \in Movement, NEW m \in Movement, NEW n \in Movement
    PROVE  /\ Newer(k, m) /\ Newer(m, n) => Newer(k, n)
           /\ m.id # n.id => Newer(m, n) \/ Newer(n, m)
<1>1. /\ k.id \in Nat /\ m.id \in Nat /\ n.id \in Nat
      /\ k.created \in Nat /\ m.created \in Nat /\ n.created \in Nat
  BY AuditAssumption DEF Movement
<1> QED
  BY <1>1 DEF Newer

Newest(m, all) == m \in all /\ \A n \in all \ {m} : Newer(m, n)

(* A set without a newest movement that has the fewest members has none    *)
(* less one.                                                               *)
LEMMA SomeNewest ==
    ASSUME NEW all, all \subseteq Movement, IsFiniteSet(all), all # {}, OneMovementAnId(all)
    PROVE  \E m \in all : Newest(m, all)
<1> DEFINE Bad == {U \in SUBSET all : U # {} /\ ~\E m \in U : Newest(m, U)}
           T   == {Cardinality(U) : U \in Bad}
<1>1. ASSUME NEW U \in SUBSET all PROVE IsFiniteSet(U) /\ Cardinality(U) \in Nat
  BY FS_Subset, FS_CardinalityType
<1> SUFFICES ASSUME Bad # {} PROVE FALSE
  OBVIOUS
<1>2. T \subseteq Nat /\ T # {}
  BY <1>1
<1>3. PICK n \in T : \A m \in T : ~(<<m, n>> \in OpToRel(<, Nat))
  <2> HIDE DEF T
  <2> QED
    BY <1>2, WFMin, NatLessThanWellFounded
<1>4. \A m \in T : ~(m < n)
  BY <1>2, <1>3 DEF OpToRel
<1>5. PICK U \in Bad : n = Cardinality(U)
  OBVIOUS
<1>6. PICK x \in U : TRUE
  BY <1>5
<1>7. U \ {x} \in SUBSET all /\ Cardinality(U \ {x}) = n - 1
  BY <1>1, <1>5, <1>6, FS_RemoveElement
<1>8. U \ {x} \notin Bad
  <2>1. n \in Nat /\ n - 1 \in Nat
    BY <1>1, <1>2, <1>7
  <2>2. n - 1 \notin T
    <3> HIDE DEF T
    <3> QED
      BY <2>1, <1>4
  <2> QED
    BY <2>2, <1>7
<1>9. ~Newest(x, U)
  BY <1>5, <1>6
<1>10. PICK y \in U \ {x} : Newest(y, U \ {x})
  <2>1. U \ {x} # {}
    BY <1>6, <1>9 DEF Newest
  <2> QED
    BY <1>7, <1>8, <2>1
<1>11. x \in Movement /\ y \in Movement /\ U \subseteq Movement /\ x.id # y.id
  BY <1>5, <1>6, <1>10 DEF OneMovementAnId
<1>12. CASE Newer(y, x)
  <2>1. Newest(y, U)
    BY <1>10, <1>12 DEF Newest
  <2> QED
    BY <1>5, <1>10, <2>1
<1>13. CASE Newer(x, y)
  <2>1. ASSUME NEW z \in U \ {x} PROVE Newer(x, z)
    <3>1. z = y \/ Newer(y, z)
      BY <1>10 DEF Newest
    <3> QED
      BY <1>11, <1>13, <3>1, NewerOrders
  <2>2. Newest(x, U)
    BY <1>6, <2>1 DEF Newest
  <2> QED
    BY <1>9, <2>2
<1> QED
  BY <1>11, <1>12, <1>13, NewerOrders

(* The look-up after an insert finds the newest of the equal ones.         *)
LEMMA FoundIsNewest ==
    ASSUME NEW all, all \subseteq Movement, IsFiniteSet(all), OneMovementAnId(all),
           NEW m \in all
    PROVE  LET f == Found(all, m.job)
           IN  f \in all /\ f.job = m.job /\ (f = m \/ Newer(f, m))
<1> DEFINE same == {n \in all : n.job = m.job}
<1>1. same \in SUBSET all /\ m \in same
  OBVIOUS
<1>2. /\ same \subseteq Movement /\ IsFiniteSet(same) /\ same # {}
      /\ OneMovementAnId(same)
  BY <1>1, FS_Subset DEF OneMovementAnId
<1> HIDE DEF same
<1>3. \E n \in same : Newest(n, same)
  BY <1>2, SomeNewest
<1>4. \E n \in same : \A k \in same \ {n} : Newer(n, k)
  BY <1>3 DEF Newest
<1> DEFINE f == CHOOSE n \in same : \A k \in same \ {n} : Newer(n, k)
<1>5. f \in same /\ \A k \in same \ {f} : Newer(f, k)
  BY <1>4
<1>6. Found(all, m.job) = f
  BY DEF Found, same
<1> HIDE DEF f
<1> QED
  BY <1>1, <1>5, <1>6 DEF same

-----------------------------------------------------------------------------
(* Steps.                                                                  *)
LEMMA CommittedFinite ==
    IsFiniteSet(Committed) /\ Cardinality(Committed) \in Nat
<1>1. Committed \in SUBSET Writers
  BY DEF Committed
<1> QED
  BY <1>1, AuditAssumption, FS_Subset, FS_CardinalityType

LEMMA WriterShapes ==
    ASSUME NEW r \in WriterStates
    PROVE  /\ r.at = "begun" => r \in [at: {"begun"}, job: Jobs, start: Nat]
           /\ r.at = "committed" =>
                 r \in [at: {"committed"}, job: Jobs, start: Nat, movement: Nat, turn: Nat]
BY DEF WriterStates

(* Who has not committed does not matter to who has.                       *)
LEMMA OthersStay ==
    ASSUME AuditInv, NEW w \in Writers, writer[w].at # "committed",
           NEW r \in WriterStates, r.at # "committed", writer' = [writer EXCEPT ![w] = r],
           UNCHANGED <<movements, trail>>, tick' \in Nat
    PROVE  AuditInv'
<1>1. writer' \in [Writers -> WriterStates] /\ AuditTypeOK'
  BY DEF AuditInv, AuditTypeOK
<1>2. Committed' = Committed /\ \A v \in Committed : writer'[v] = writer[v]
  BY DEF AuditInv, AuditTypeOK, Committed
<1>3. TurnsOK' /\ MovementsOK'
  BY <1>2 DEF AuditInv, TurnsOK, MovementsOK
<1>4. \A v \in Committed : Source(v)' = Source(v)
  BY <1>2 DEF Source
<1>5. TrailOK'
  BY <1>2, <1>4 DEF AuditInv, TrailOK, IsOf
<1>6. \A v \in Committed : Told(v)' <=> Told(v)
  BY <1>2, <1>4 DEF Told, Recorded, Precedes, Overtook
<1> QED
  BY <1>1, <1>2, <1>3, <1>5, <1>6 DEF AuditInv

(* A commit adds one to those that have, and takes the last turn.          *)
LEMMA CommitFacts ==
    ASSUME AuditInv, NEW w \in Writers, writer[w].at = "begun", NEW id \in Nat,
           Commit(w, writer[w].job, id)
    PROVE  /\ writer' \in [Writers -> WriterStates]
           /\ w \notin Committed /\ Committed' = Committed \cup {w}
           /\ \A v \in Committed : /\ writer'[v] = writer[v]
                                   /\ writer'[v].turn < writer'[w].turn
           /\ writer[w].job \in Jobs /\ writer[w].start \in Nat
           /\ writer'[w].job = writer[w].job /\ writer'[w].start = writer[w].start
           /\ writer'[w].movement = id
           /\ TurnsOK'
<1>1. writer[w] \in [at: {"begun"}, job: Jobs, start: Nat]
  BY WriterShapes DEF AuditInv, AuditTypeOK
<1>2. writer[w].job \in Jobs /\ writer[w].start \in Nat
  BY <1>1
<1>3. Cardinality(Committed) \in Nat /\ IsFiniteSet(Committed)
  BY CommittedFinite
<1> DEFINE r == [at |-> "committed", job |-> writer[w].job, start |-> writer[w].start,
                 movement |-> id, turn |-> Cardinality(Committed) + 1]
<1>4. r \in WriterStates
  BY <1>2, <1>3 DEF WriterStates
<1>5. writer' = [writer EXCEPT ![w] = r]
  BY DEF Commit
<1>6. /\ r.at = "committed" /\ r.job = writer[w].job /\ r.start = writer[w].start
      /\ r.movement = id /\ r.turn = Cardinality(Committed) + 1
  OBVIOUS
<1> HIDE DEF r
<1>7. /\ writer' \in [Writers -> WriterStates]
      /\ writer'[w] = r /\ \A v \in Writers \ {w} : writer'[v] = writer[v]
  BY <1>4, <1>5 DEF AuditInv, AuditTypeOK
<1>8. w \notin Committed /\ Committed' = Committed \cup {w}
  BY <1>6, <1>7 DEF Committed
<1>9. ASSUME NEW v \in Committed
      PROVE  /\ writer'[v] = writer[v] /\ writer[v].turn \in Nat
             /\ writer[v].turn <= Cardinality(Committed)
  <2>1. v \in Writers /\ v # w /\ writer[v].at = "committed"
    BY <1>8 DEF Committed
  <2>2. writer[v] \in [at: {"committed"}, job: Jobs, start: Nat, movement: Nat, turn: Nat]
    BY <2>1, WriterShapes DEF AuditInv, AuditTypeOK
  <2> QED
    BY <1>7, <2>1, <2>2 DEF AuditInv, TurnsOK
<1>10. Cardinality(Committed') = Cardinality(Committed) + 1
  BY <1>3, <1>8, FS_AddElement
<1>11. TurnsOK'
  BY <1>3, <1>6, <1>7, <1>8, <1>9, <1>10 DEF TurnsOK
<1> QED
  BY <1>2, <1>3, <1>6, <1>7, <1>8, <1>9, <1>11

(* What was told stays told.                                               *)
LEMMA ToldStays ==
    ASSUME NEW v \in Committed, Told(v), Committed \subseteq Committed',
           \A u \in Committed : writer'[u] = writer[u], trail \subseteq trail'
    PROVE  Told(v)'
<1>1. Source(v)' = Source(v)
  BY DEF Source
<1>2. Recorded(v) => Recorded(v)'
  BY <1>1 DEF Recorded
<1>3. \A u \in Committed : Precedes(u, v) => Precedes(u, v)'
  BY DEF Precedes, Overtook
<1> QED
  BY <1>2, <1>3 DEF Told

(* An event of a committed change, or of the one that commits now.         *)
LEMMA TrailStays ==
    ASSUME TrailOK, Committed \subseteq Committed',
           \A u \in Committed : writer'[u] = writer[u],
           \A e \in trail' : e \in trail \/ \E w \in Committed' : IsOf(e, w)'
    PROVE  TrailOK'
<1>1. \A v \in Committed, e \in trail : IsOf(e, v) => IsOf(e, v)'
  BY DEF IsOf, Source
<1> QED
  BY <1>1 DEF TrailOK

LEMMA AdjustmentTold ==
    ASSUME AuditInv, NEW w \in Writers, RecordAdjustment(w)
    PROVE  AuditInv'
<1> DEFINE job == writer[w].job
<1>1. writer[w].at = "begun" /\ job.op = "adjust" /\ tick' = tick
  BY DEF RecordAdjustment
<1>2. PICK id \in MovementIds \ {m.id : m \in movements} :
         /\ movements' = movements \cup
               {[id |-> id, created |-> writer[w].start, job |-> job]}
         /\ AppendEvent("inventory.adjusted", Found(movements', job).id, job)
         /\ Commit(w, job, id)
  BY DEF RecordAdjustment
<1>3. id \in Nat
  BY AuditAssumption
<1>4. /\ writer' \in [Writers -> WriterStates]
      /\ w \notin Committed /\ Committed' = Committed \cup {w}
      /\ \A v \in Committed : writer'[v] = writer[v] /\ writer'[v].turn < writer'[w].turn
      /\ job \in Jobs /\ writer[w].start \in Nat
      /\ writer'[w].job = job /\ writer'[w].start = writer[w].start
      /\ writer'[w].movement = id
      /\ TurnsOK'
  BY <1>1, <1>2, <1>3, CommitFacts
<1> DEFINE new == [id |-> id, created |-> writer[w].start, job |-> job]
<1>5. /\ new \in Movement /\ new.id = id /\ new.created = writer[w].start /\ new.job = job
      /\ movements' = movements \cup {new}
  BY <1>2, <1>4 DEF Movement
<1> HIDE DEF new
<1>6. /\ movements' \subseteq Movement /\ IsFiniteSet(movements')
      /\ OneMovementAnId(movements')
  <2>1. IsFiniteSet(movements')
    BY <1>5, FS_AddElement DEF AuditInv, AuditTypeOK
  <2>2. \A m \in movements : m.id # id
    BY <1>2
  <2> QED
    BY <1>5, <2>1, <2>2 DEF AuditInv, AuditTypeOK, MovementsOK, OneMovementAnId
<1>7. AuditTypeOK'
  BY <1>1, <1>4, <1>6 DEF AuditInv, AuditTypeOK
<1>8. MovementsOK'
  <2>1. ASSUME NEW m \in movements'
        PROVE  \E v \in Committed' :
                  /\ writer'[v].job = m.job /\ m.job.op = "adjust"
                  /\ writer'[v].start = m.created /\ writer'[v].movement = m.id
    BY <1>1, <1>4, <1>5 DEF AuditInv, MovementsOK
  <2>2. ASSUME NEW v \in Committed', writer'[v].job.op = "adjust"
        PROVE  \E m \in movements' : m.id = writer'[v].movement
    BY <1>4, <1>5, <2>2 DEF AuditInv, MovementsOK
  <2> QED
    BY <1>6, <2>1, <2>2 DEF MovementsOK
<1> DEFINE f == Found(movements', job)
<1>9. f \in movements' /\ f.job = job /\ (f = new \/ Newer(f, new))
  <2>1. new \in movements'
    BY <1>5
  <2> HIDE DEF f, job
  <2>2. LET g == Found(movements', new.job)
        IN  g \in movements' /\ g.job = new.job /\ (g = new \/ Newer(g, new))
    BY <1>6, <2>1, FoundIsNewest
  <2> QED
    BY <1>5, <2>2 DEF f
<1> HIDE DEF f
<1>10. \/ trail' = trail /\ \E e \in trail : e.type = "inventory.adjusted" /\ e.source = f.id
       \/ trail' = trail \cup {[type |-> "inventory.adjusted", source |-> f.id, job |-> job]}
  BY <1>2 DEF AppendEvent, f
<1>11. CASE f = new
  <2>1. Source(w)' = id
    BY <1>1, <1>4 DEF Source
  <2>2. \A e \in trail : ~(e.type = "inventory.adjusted" /\ e.source = id)
    <3> SUFFICES ASSUME NEW e \in trail, e.type = "inventory.adjusted", e.source = id
                 PROVE  FALSE
      OBVIOUS
    <3>1. PICK v \in Committed : IsOf(e, v)
      BY DEF AuditInv, TrailOK
    <3>2. writer[v].job.op = "adjust" /\ writer[v].movement = id
      BY <3>1 DEF IsOf, EventType, Source
    <3>3. \E m \in movements : m.id = id
      BY <3>2 DEF AuditInv, MovementsOK
    <3> QED
      BY <1>2, <3>3
  <2>3. PICK e : /\ trail' = trail \cup {e}
                 /\ e.type = "inventory.adjusted" /\ e.source = id /\ e.job = job
    <3> DEFINE r == [type |-> "inventory.adjusted", source |-> id, job |-> job]
    <3>1. trail' = trail \cup {r}
      BY <1>5, <1>10, <1>11, <2>2
    <3>2. r.type = "inventory.adjusted" /\ r.source = id /\ r.job = job
      OBVIOUS
    <3> HIDE DEF r
    <3> QED
      BY <3>1, <3>2
  <2>4. Recorded(w)'
    BY <1>4, <2>1, <2>3 DEF Recorded
  <2>5. IsOf(e, w)'
    BY <1>1, <1>4, <2>1, <2>3 DEF IsOf, EventType
  <2>6. TrailOK'
    BY <1>4, <2>3, <2>5, TrailStays DEF AuditInv
  <2>7. \A v \in Committed' : Told(v)'
    <3>1. \A v \in Committed : Told(v)'
      BY <1>4, <2>3, ToldStays DEF AuditInv
    <3> QED
      BY <1>4, <2>4, <3>1 DEF Told
  <2> QED
    BY <1>4, <1>7, <1>8, <2>6, <2>7 DEF AuditInv
<1>12. CASE f # new
  <2>1. f \in movements /\ Newer(f, new) /\ f \in Movement
    BY <1>5, <1>6, <1>9, <1>12
  <2>2. PICK v \in Committed :
           /\ writer[v].job = job /\ writer[v].start = f.created /\ writer[v].movement = f.id
    BY <1>9, <2>1 DEF AuditInv, MovementsOK
  <2>3. f.created >= writer[w].start
    <3>1. f.created \in Nat
      BY <2>1 DEF Movement
    <3> QED
      BY <1>4, <1>5, <2>1, <3>1 DEF Newer
  <2>4. Precedes(v, w)'
    BY <1>4, <2>2, <2>3 DEF Precedes, Overtook
  <2>5. Told(w)'
    BY <1>4, <2>4 DEF Told
  <2>6. Source(v)' = f.id /\ writer'[v].job = job
    BY <1>1, <1>4, <2>2 DEF Source
  <2>7. TrailOK'
    <3>1. ASSUME NEW e \in trail', e \notin trail PROVE IsOf(e, v)'
      <4>1. e.type = "inventory.adjusted" /\ e.source = f.id /\ e.job = job
        BY <1>10, <3>1
      <4> QED
        BY <1>1, <2>6, <4>1 DEF IsOf, EventType
    <3> QED
      BY <1>4, <1>10, <3>1, TrailStays DEF AuditInv
  <2>8. \A u \in Committed' : Told(u)'
    <3>1. \A u \in Committed : Told(u)'
      BY <1>4, <1>10, ToldStays DEF AuditInv
    <3> QED
      BY <1>4, <2>5, <3>1
  <2> QED
    BY <1>4, <1>7, <1>8, <2>7, <2>8 DEF AuditInv
<1> QED
  BY <1>11, <1>12

LEMMA PolicyTold ==
    ASSUME AuditInv, NEW w \in Writers, RecordPolicy(w)
    PROVE  AuditInv'
<1> DEFINE job == writer[w].job
           type == "replenishment.policy_updated"
<1>1. /\ writer[w].at = "begun" /\ job.op = "policy"
      /\ UNCHANGED <<tick, movements>>
      /\ Commit(w, job, 0)
  BY DEF RecordPolicy
<1>2. /\ writer' \in [Writers -> WriterStates]
      /\ w \notin Committed /\ Committed' = Committed \cup {w}
      /\ \A v \in Committed : writer'[v] = writer[v] /\ writer'[v].turn < writer'[w].turn
      /\ writer'[w].job = job
      /\ TurnsOK'
  BY <1>1, CommitFacts
<1>3. AuditTypeOK' /\ MovementsOK'
  BY <1>1, <1>2 DEF AuditInv, AuditTypeOK, MovementsOK
<1>4. Source(w)' = job.level
  BY <1>1, <1>2 DEF Source
<1>5. CASE \E e \in trail : e.type = type /\ e.source = job.level
  <2>1. trail' = trail
    BY <1>5 DEF RecordPolicy, AppendEvent
  <2>2. PICK e \in trail : e.type = type /\ e.source = job.level
    BY <1>5
  <2>3. PICK v \in Committed : IsOf(e, v)
    BY DEF AuditInv, TrailOK
  <2>4. writer[v] \in [at: {"committed"}, job: Jobs, start: Nat, movement: Nat, turn: Nat]
    BY WriterShapes DEF AuditInv, AuditTypeOK, Committed
  <2>5. writer[v].job.op = "policy" /\ writer[v].job.level = job.level
    BY <2>2, <2>3, <2>4 DEF IsOf, EventType, Source, Jobs
  <2>6. Precedes(v, w)'
    BY <1>1, <1>2, <2>5 DEF Precedes
  <2>7. TrailOK'
    BY <1>2, <2>1, TrailStays DEF AuditInv
  <2>8. \A u \in Committed : Told(u)'
    BY <1>2, <2>1, ToldStays DEF AuditInv
  <2>9. Told(w)'
    BY <1>2, <2>6 DEF Told
  <2> QED
    BY <1>2, <1>3, <2>7, <2>8, <2>9 DEF AuditInv
<1>6. CASE ~\E e \in trail : e.type = type /\ e.source = job.level
  <2>1. PICK e : /\ trail' = trail \cup {e}
                 /\ e.type = type /\ e.source = job.level /\ e.job = job
    <3> DEFINE r == [type |-> type, source |-> job.level, job |-> job]
    <3>1. trail' = trail \cup {r}
      BY <1>6 DEF RecordPolicy, AppendEvent
    <3>2. r.type = type /\ r.source = job.level /\ r.job = job
      OBVIOUS
    <3> HIDE DEF r
    <3> QED
      BY <3>1, <3>2
  <2>2. IsOf(e, w)'
    BY <1>1, <1>2, <1>4, <2>1 DEF IsOf, EventType
  <2>3. Recorded(w)'
    BY <1>2, <1>4, <2>1 DEF Recorded
  <2>4. TrailOK'
    BY <1>2, <2>1, <2>2, TrailStays DEF AuditInv
  <2>5. \A u \in Committed : Told(u)'
    BY <1>2, <2>1, ToldStays DEF AuditInv
  <2> QED
    BY <1>2, <1>3, <2>3, <2>4, <2>5 DEF AuditInv, Told
<1> QED
  BY <1>5, <1>6

-----------------------------------------------------------------------------
LEMMA AuditInvariant ==
    AuditSpec => []AuditInv
<1>1. AuditInit => AuditInv
  <2> SUFFICES ASSUME AuditInit PROVE AuditInv
    OBVIOUS
  <2>1. Committed = {}
    BY DEF AuditInit, Committed
  <2>2. AuditTypeOK
    BY FS_EmptySet DEF AuditInit, AuditTypeOK, WriterStates
  <2> QED
    BY <2>1, <2>2 DEF AuditInit, AuditInv, TurnsOK, MovementsOK, OneMovementAnId, TrailOK
<1>2. AuditInv /\ [AuditNext]_auditVars => AuditInv'
  <2> SUFFICES ASSUME AuditInv, [AuditNext]_auditVars PROVE AuditInv'
    OBVIOUS
  <2>1. ASSUME NEW w \in Writers, NEW job \in Jobs, Begin(w, job) PROVE AuditInv'
    <3>1. tick' \in Nat
      BY <2>1 DEF Begin, AuditInv, AuditTypeOK
    <3>2. [at |-> "begun", job |-> job, start |-> tick'] \in WriterStates
      BY <3>1 DEF WriterStates
    <3> QED
      BY <2>1, <3>1, <3>2, OthersStay DEF Begin
  <2>2. ASSUME NEW w \in Writers, RollBack(w) PROVE AuditInv'
    <3>1. [at |-> "ended"] \in WriterStates
      BY DEF WriterStates
    <3> QED
      BY <2>2, <3>1, OthersStay DEF RollBack, AuditInv, AuditTypeOK
  <2>3. CASE UNCHANGED auditVars
    BY <2>3 DEF auditVars, AuditInv, AuditTypeOK, TurnsOK, MovementsOK, TrailOK, Told, IsOf,
                Source, Recorded, Precedes, Overtook, Committed
  <2> QED
    BY <2>1, <2>2, <2>3, AdjustmentTold, PolicyTold DEF AuditNext
<1> QED
  BY <1>1, <1>2, PTL DEF AuditSpec

(* "Append-only audit events make those decisions inspectable afterwards"  *)
(* (docs/portfolio.md:38): whatever the order of begins and commits and    *)
(* whatever ids the movements get, a committed correction has its event or *)
(* an equal one has overtaken it, and there are no other events            *)
(* (Repository.adjust, UpdateReplenishmentPolicy, AppendEvent).            *)
THEOREM TrailComplete ==
    AuditSpec => []TrailTellsAll
<1>1. AuditInv => TrailTellsAll
  BY DEF AuditInv, Told, Precedes, TrailOK, IsOf, TrailTellsAll
<1> QED
  BY <1>1, AuditInvariant, PTL
=============================================================================
