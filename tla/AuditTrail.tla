----------------------------- MODULE AuditTrail -----------------------------
(***************************************************************************)
(* The audit events that corrections of stock and changes of policies      *)
(* append in their own transactions.  An event is stored unless there is   *)
(* one of its type and source already.  The source of a correction is its  *)
(* movement, which the code looks up again by what it says, the newest     *)
(* first; that of a policy is the level.  All other writers of the trail   *)
(* use the id of what they have just created, or of a row that takes their *)
(* step only once, so that their events cannot collide.                    *)
(*                                                                         *)
(* created_at is NOW(), when the transaction began, before it queued for   *)
(* the level.  From the lock of the level to the commit a transaction is   *)
(* alone with it, so that this is one step.                                *)
(***************************************************************************)
EXTENDS Naturals, FiniteSets

CONSTANTS
    Writers,        \* transactions
    Audited,        \* levels
    Clerks,         \* who corrects stock: a user, or nobody (actor "system")
    Values,         \* by how much, or to what policy
    MovementIds,    \* ids in their order; which one a movement gets is chance
    LastTick        \* bound on the clock

ASSUME AuditAssumption ==
    IsFiniteSet(Writers) /\ MovementIds \subseteq Nat /\ LastTick \in Nat

VARIABLES
    tick,         \* the database clock
    movements,    \* the adjustments in inventory_movements
    trail,        \* audit_events
    writer        \* how far each transaction is

auditVars == <<tick, movements, trail, writer>>

Jobs == [op: {"adjust"}, level: Audited, value: Values, clerk: Clerks]
          \cup [op: {"policy"}, level: Audited, value: Values]

Committed == {w \in Writers : writer[w].at = "committed"}

AuditInit ==
    /\ tick = 0
    /\ movements = {} /\ trail = {}
    /\ writer = [w \in Writers |-> [at |-> "unused"]]

(* BEGIN fixes NOW(); two transactions may begin at the same time.         *)
Begin(w, job) ==
    /\ writer[w].at = "unused"
    /\ tick' \in {tick, tick + 1} /\ tick' <= LastTick
    /\ writer' = [writer EXCEPT ![w] = [at |-> "begun", job |-> job, start |-> tick']]
    /\ UNCHANGED <<movements, trail>>

(* AppendEvent: ON CONFLICT DO NOTHING.                                    *)
AppendEvent(type, source, job) ==
    trail' = IF \E e \in trail : e.type = type /\ e.source = source
             THEN trail ELSE trail \cup {[type |-> type, source |-> source, job |-> job]}

(* A commit, in its turn; for a correction with its movement.              *)
Commit(w, job, id) ==
    writer' = [writer EXCEPT ![w] =
        [at |-> "committed", job |-> job, start |-> writer[w].start,
         movement |-> id, turn |-> Cardinality(Committed) + 1]]

NewerById(m, n) == m.id > n.id

Newer(m, n) == m.created > n.created \/ (m.created = n.created /\ m.id > n.id)

(* The movement that is looked up after the insert.                        *)
Found(all, job) ==
    LET same == {m \in all : m.job = job}
    IN  CHOOSE m \in same : \A n \in same \ {m} : Newer(m, n)

(* Repository.adjust: the movement, the event and the commit.              *)
RecordAdjustment(w) ==
    LET job == writer[w].job
    IN  /\ writer[w].at = "begun" /\ job.op = "adjust"
        /\ \E id \in MovementIds \ {m.id : m \in movements} :
              /\ movements' = movements \cup
                    {[id |-> id, created |-> writer[w].start, job |-> job]}
              /\ AppendEvent("inventory.adjusted", Found(movements', job).id, job)
              /\ Commit(w, job, id)
        /\ UNCHANGED tick

(* Repository.UpdateReplenishmentPolicy                                    *)
RecordPolicy(w) ==
    LET job == writer[w].job
    IN  /\ writer[w].at = "begun" /\ job.op = "policy"
        /\ AppendEvent("replenishment.policy_updated", job.level, job)
        /\ Commit(w, job, 0)
        /\ UNCHANGED <<tick, movements>>

(* Refused for lack of stock, failed or cut off: all is rolled back.       *)
RollBack(w) ==
    /\ writer[w].at = "begun"
    /\ writer' = [writer EXCEPT ![w] = [at |-> "ended"]]
    /\ UNCHANGED <<tick, movements, trail>>

AuditNext ==
    \E w \in Writers :
       \/ \E job \in Jobs : Begin(w, job)
       \/ RecordAdjustment(w) \/ RecordPolicy(w) \/ RollBack(w)

AuditSpec == AuditInit /\ [][AuditNext]_auditVars
-----------------------------------------------------------------------------
Source(w) == IF writer[w].job.op = "adjust" THEN writer[w].movement ELSE writer[w].job.level

Recorded(w) ==
    \E e \in trail : e.source = Source(w) /\ e.job = writer[w].job

(* v began no earlier than w did, and yet committed before it.             *)
Overtook(v, w) == writer[v].start >= writer[w].start /\ writer[v].turn < writer[w].turn

(* "Append-only audit events make those decisions inspectable afterwards"  *)
(* (docs/portfolio.md:38): each committed correction has an event that     *)
(* names its movement and says what it did, each first policy its own, and *)
(* there are no others.  What is lost is only a correction that an equal   *)
(* one of the same clerk overtook in the queue for the level, and policies *)
(* after the first; for those the code keeps no event.                     *)
TrailTellsAll ==
    /\ \A w \in Committed :
          \/ Recorded(w)
          \/ \E v \in Committed \ {w} :
                /\ writer[v].job.op = writer[w].job.op /\ writer[v].job.level = writer[w].job.level
                /\ IF writer[w].job.op = "adjust"
                   THEN writer[v].job = writer[w].job /\ Overtook(v, w)
                   ELSE writer[v].turn < writer[w].turn
    /\ \A e \in trail : \E w \in Committed : e.source = Source(w) /\ e.job = writer[w].job
=============================================================================
