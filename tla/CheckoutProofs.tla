--------------------------- MODULE CheckoutProofs --------------------------
(***************************************************************************)
(* Proofs about module Checkout, for any number of orders, payments,       *)
(* workers, levels and crashes, and for every bound and timeout.           *)
(*                                                                         *)
(* The argument has two halves.  That of the money follows what a worker   *)
(* or an event knows about an intent: an intent that is paid or cancelled  *)
(* stays so, hence a late answer that says so is still true.  That of the  *)
(* stock follows the payment rows: while a provider payment is pending its *)
(* order is, and all it promised is held.                                  *)
(***************************************************************************)
EXTENDS Checkout, StockProofs

-----------------------------------------------------------------------------
(* Typing.                                                                 *)

LEMMA RowTypes ==
  ASSUME CheckoutTypeOK, NEW p \in Payments
  PROVE  pay[p] \in Row /\ Attended(pay[p]) \in Row /\ Prepared(p) \in Row
<1>1. pay[p] \in Row
  BY DEF CheckoutTypeOK
<1>2. Attended(pay[p]) \in Row
  BY <1>1 DEF Attended, Row, Reasons
<1>3. Prepared(p) \in Row
  BY <1>1 DEF Prepared, Row, Reasons
<1> QED
  BY <1>1, <1>2, <1>3

LEMMA NewRowType ==
  ASSUME NEW state \in PaymentStatuses, NEW provider \in BOOLEAN, NEW at \in 0..MaxTime
  PROVE  NewRow(state, provider, at) \in Row
BY CheckoutAssumption DEF NewRow, Row, Reasons

LEMMA BlankRowType ==
  ASSUME NEW state \in PaymentStatuses
  PROVE  NewRow(state, FALSE, 0) \in Row
<1>1. 0 \in 0..MaxTime
  BY StockAssumption
<1> QED
  BY <1>1, NewRowType

LEMMA RowUpdates ==
  ASSUME NEW r \in Row
  PROVE  /\ \A x \in PaymentStatuses : [r EXCEPT !.status = x] \in Row
         /\ \A x \in Reasons : [r EXCEPT !.cancel = TRUE, !.reason = x] \in Row
         /\ [r EXCEPT !.bound = TRUE] \in Row
         /\ r.attempts < MaxReconcile => [r EXCEPT !.attempts = r.attempts + 1] \in Row
         /\ r.reason \in Reasons /\ r.attempts \in 0..MaxReconcile
<1>1. \A x \in PaymentStatuses : [r EXCEPT !.status = x] \in Row
  BY DEF Row
<1>2. ASSUME NEW x \in Reasons PROVE [r EXCEPT !.cancel = TRUE, !.reason = x] \in Row
  <2>1. [r EXCEPT !.cancel = TRUE] \in Row
    BY DEF Row
  <2>2. [[r EXCEPT !.cancel = TRUE] EXCEPT !.reason = x] \in Row
    BY <2>1, <1>2 DEF Row
  <2> QED
    BY <2>2
<1>3. [r EXCEPT !.bound = TRUE] \in Row
  BY DEF Row
<1>4. r.reason \in Reasons /\ r.attempts \in 0..MaxReconcile
  BY DEF Row
<1>5. ASSUME r.attempts < MaxReconcile PROVE [r EXCEPT !.attempts = r.attempts + 1] \in Row
  <2>1. r.attempts + 1 \in 0..MaxReconcile
    BY <1>4, <1>5, CheckoutAssumption
  <2> QED
    BY <2>1 DEF Row
<1> QED
  BY <1>1, <1>2, <1>3, <1>4, <1>5

(* A worker that is busy is so with a payment.                             *)
LEMMA WorkerTypes ==
  ASSUME CheckoutTypeOK, NEW w \in Workers
  PROVE  /\ worker[w] = Idle => worker[w].at = "idle"
         /\ worker[w] # Idle => /\ worker[w].at \in Stages \ {"idle"}
                                /\ worker[w].pay \in Payments
                                /\ worker[w].told \in Intents
         /\ worker[w].at # "idle" => worker[w] # Idle
         /\ \A stage \in Stages \ {"idle"} : worker[w] # Idle =>
               [worker[w] EXCEPT !.at = stage] =
                  [at |-> stage, pay |-> worker[w].pay, told |-> worker[w].told]
<1>1. worker[w] \in {Idle} \cup [at: Stages \ {"idle"}, pay: Payments, told: Intents]
  BY DEF CheckoutTypeOK
<1>2. CASE worker[w] = Idle
  BY <1>2 DEF Idle
<1>3. CASE worker[w] \in [at: Stages \ {"idle"}, pay: Payments, told: Intents]
  BY <1>3 DEF Idle
<1> QED
  BY <1>1, <1>2, <1>3

LEMMA AtTypes ==
  ASSUME NEW stage \in Stages \ {"idle"}, NEW p \in Payments, NEW told \in Intents
  PROVE  At(stage, p, told) \in [at: Stages \ {"idle"}, pay: Payments, told: Intents]
BY DEF At

LEMMA CheckoutTypeInit ==
  CheckoutInit => CheckoutTypeOK
<1>1. NoRow \in Row
  BY BlankRowType DEF NoRow, PaymentStatuses
<1>2. 0 \in 0..MaxCrashes /\ "none" \in Intents /\ "none" \in Outcomes
  BY CheckoutAssumption DEF Intents, Outcomes
<1> QED
  BY <1>1, <1>2, TypeInit DEF CheckoutInit, CheckoutTypeOK

LEMMA CloseOrderType ==
  ASSUME StockTypeOK, NEW o \in Orders, NEW started, CloseOrder(o, started)
  PROVE  StockTypeOK'
BY DEF CloseOrder, StockTypeOK, GivenUp, Statuses, OrderStatuses

LEMMA CheckoutTypeOpening ==
  CheckoutTypeOK /\ Opening => CheckoutTypeOK'
<1> USE CheckoutAssumption, StockAssumption
<1>1. ASSUME CheckoutTypeOK, NEW p \in Payments, CreateProvider(p)
      PROVE  CheckoutTypeOK'
  <2>1. PaymentFor[p] \in Orders /\ HoldForPayment(PaymentFor[p])
    BY <1>1 DEF CreateProvider
  <2>2. StockTypeOK'
    BY <1>1, <2>1, TypePayment DEF CheckoutTypeOK, PaymentStep
  <2>3. NewRow("pending", TRUE, now) \in Row
    BY <1>1, NewRowType DEF CheckoutTypeOK, StockTypeOK, PaymentStatuses
  <2> QED
    BY <1>1, <2>2, <2>3 DEF CreateProvider, CheckoutTypeOK
<1>2. ASSUME CheckoutTypeOK, NEW p \in Payments, CreateDirect(p)
      PROVE  CheckoutTypeOK'
  <2>1. NewRow("pending", FALSE, 0) \in Row
    BY BlankRowType DEF PaymentStatuses
  <2> QED
    BY <1>2, <2>1 DEF CreateDirect, CheckoutTypeOK, StockTypeOK, stockVars
<1>3. ASSUME CheckoutTypeOK, NEW o \in Orders, NEW started \in StartTimes, Cancel(o, started)
      PROVE  CheckoutTypeOK'
  <2>1. StockTypeOK'
    BY <1>3, CloseOrderType DEF Cancel, CheckoutTypeOK, StockTypeOK, stockVars
  <2>2. \A p \in Payments : /\ pay[p] \in Row
                            /\ [pay[p] EXCEPT !.cancel = TRUE, !.reason = "customer"] \in Row
                            /\ [pay[p] EXCEPT !.status = "cancelled"] \in Row
    BY <1>3, RowTypes, RowUpdates DEF Reasons, PaymentStatuses
  <2>3. pay' \in [Payments -> Row]
    BY <1>3, <2>2 DEF Cancel
  <2>4. cancelRequested' \in [Orders -> BOOLEAN]
    BY <1>3 DEF Cancel, CheckoutTypeOK
  <2> QED
    BY <1>3, <2>1, <2>3, <2>4 DEF Cancel, CheckoutTypeOK
<1> QED
  BY <1>1, <1>2, <1>3 DEF Opening

LEMMA CheckoutTypeWorker ==
  CheckoutTypeOK /\ WorkerStep => CheckoutTypeOK'
<1> SUFFICES ASSUME CheckoutTypeOK, NEW w \in Workers,
                    (\E p \in Payments : Begin(w, p)) \/ Advance(w) \/ Crash(w)
             PROVE  CheckoutTypeOK'
  BY DEF WorkerStep
<1> DEFINE Busy == [at: Stages \ {"idle"}, pay: Payments, told: Intents]
           p == worker[w].pay
<1> USE CheckoutAssumption
<1>1. StockTypeOK /\ pay \in [Payments -> Row]
      /\ cancelRequested \in [Orders -> BOOLEAN]
      /\ event \in [Payments \X EventTypes -> Outcomes]
      /\ intent \in [Payments -> Intents]
      /\ worker \in [Workers -> {Idle} \cup Busy]
      /\ crashes \in 0..MaxCrashes
  BY DEF CheckoutTypeOK
<1>2. worker[w].at # "idle" =>
         /\ worker[w] \in Busy /\ p \in Payments /\ worker[w].told \in Intents
         /\ pay[p] \in Row /\ Attended(pay[p]) \in Row /\ Prepared(p) \in Row
  BY <1>1, WorkerTypes, RowTypes DEF Idle
<1>3. \A s \in Stages \ {"idle"}, q \in Payments, i \in Intents : At(s, q, i) \in Busy
  BY AtTypes
<1>4. {"none", "open", "canceled"} \subseteq Intents
  BY DEF Intents
<1>5. ASSUME UNCHANGED <<stockVars, cancelRequested>>, pay' \in [Payments -> Row],
             event' \in [Payments \X EventTypes -> Outcomes], intent' \in [Payments -> Intents],
             worker' \in [Workers -> {Idle} \cup Busy], crashes' \in 0..MaxCrashes
      PROVE  CheckoutTypeOK'
  BY <1>1, <1>5 DEF CheckoutTypeOK, StockTypeOK, stockVars
<1>6. CASE \E q \in Payments : Begin(w, q)
  <2>1. PICK q \in Payments : Begin(w, q)
    BY <1>6
  <2>2. pay' \in [Payments -> Row]
    BY <1>1, <2>1, RowTypes DEF Begin
  <2>3. \E next \in {At("attention", q, "none"), At("request", q, "open"), At("request", q, "none")} :
           worker' = [worker EXCEPT ![w] = next]
    BY <2>1 DEF Begin
  <2>4. worker' \in [Workers -> {Idle} \cup Busy]
    BY <1>1, <1>3, <1>4, <2>3 DEF Stages
  <2> QED
    BY <1>1, <1>5, <2>1, <2>2, <2>4 DEF Begin
<1>7. CASE MarkAttention(w)
  BY <1>1, <1>2, <1>5, <1>7 DEF MarkAttention
<1>8. CASE Request(w)
  <2>1. p \in Payments
    BY <1>2, <1>8 DEF Request
  <2>2. intent' \in [Payments -> Intents]
    BY <1>1, <1>4, <1>8 DEF Request
  <2>3. \E i \in Intents : worker' = [worker EXCEPT ![w] = At("bind", p, i)]
                           \/ worker' = [worker EXCEPT ![w] = At("schedule", p, "none")]
    BY <1>1, <1>4, <1>8, <2>1 DEF Request
  <2>4. worker' \in [Workers -> {Idle} \cup Busy]
    BY <1>1, <1>3, <1>4, <2>1, <2>3 DEF Stages
  <2> QED
    BY <1>1, <1>5, <1>8, <2>2, <2>4 DEF Request
<1>9. CASE Bind(w)
  <2>1. p \in Payments /\ [pay[p] EXCEPT !.bound = TRUE] \in Row
    BY <1>2, <1>9 DEF Bind, Row
  <2>2. pay' \in [Payments -> Row]
    BY <1>1, <1>2, <1>9, <2>1 DEF Bind
  <2>3. [worker[w] EXCEPT !.at = "recheck"] \in Busy
    BY <1>2, <1>9 DEF Bind, Stages
  <2>4. worker' \in [Workers -> {Idle} \cup Busy]
    BY <1>1, <1>9, <2>3 DEF Bind
  <2> QED
    BY <1>1, <1>5, <1>9, <2>2, <2>4 DEF Bind
<1>10. CASE Recheck(w)
  <2>1. pay' \in [Payments -> Row]
    BY <1>1, <1>2, <1>10 DEF Recheck
  <2>2. \E next \in {Idle, At("confirm", p, "none"), At("cancel", p, "none"),
                     At("schedule", p, "none")} :
           worker' = [worker EXCEPT ![w] = next]
    BY <1>10 DEF Recheck
  <2>3. worker' \in [Workers -> {Idle} \cup Busy]
    BY <1>1, <1>2, <1>3, <1>4, <1>10, <2>2 DEF Recheck, Stages
  <2> QED
    BY <1>1, <1>5, <1>10, <2>1, <2>3 DEF Recheck
<1>11. CASE CancelIntent(w)
  <2>1. intent' \in [Payments -> Intents] /\ event' \in [Payments \X EventTypes -> Outcomes]
    BY <1>1, <1>4, <1>11 DEF CancelIntent, Emit, Outcomes
  <2>2. \E next \in {At("confirm", p, "none"), At("schedule", p, "none")} :
           worker' = [worker EXCEPT ![w] = next]
    BY <1>11 DEF CancelIntent
  <2>3. worker' \in [Workers -> {Idle} \cup Busy]
    BY <1>1, <1>2, <1>3, <1>4, <1>11, <2>2 DEF CancelIntent, Stages
  <2> QED
    BY <1>1, <1>5, <1>11, <2>1, <2>3 DEF CancelIntent
<1>12. CASE ConfirmCancelled(w)
  <2>1. p \in Payments /\ PaymentFor[p] \in Orders
        /\ [pay[p] EXCEPT !.status = "failed"] \in Row
        /\ [pay[p] EXCEPT !.status = "cancelled"] \in Row
    BY <1>2, <1>12 DEF ConfirmCancelled, Row, PaymentStatuses
  <2>2. pay' \in [Payments -> Row]
    BY <1>1, <1>2, <1>12, <2>1 DEF ConfirmCancelled
  <2>3. StockTypeOK'
    <3>1. CASE UNCHANGED stockVars
      BY <1>1, <3>1 DEF StockTypeOK, stockVars
    <3>2. CASE ~UNCHANGED stockVars
      <4>1. /\ UNCHANGED <<now, onHand, qty, expiry>>
            /\ \/ order' = order
               \/ order' = [order EXCEPT ![PaymentFor[p]] = "cancelled"]
        BY <1>12, <3>2 DEF ConfirmCancelled
      <4>2. order' \in [Orders -> OrderStatuses]
        BY <1>1, <2>1, <4>1 DEF StockTypeOK, OrderStatuses
      <4>3. status' \in [Holds -> Statuses]
        BY <1>1, <1>12, <3>2 DEF ConfirmCancelled, StockTypeOK, GivenUp, Statuses
      <4> QED
        BY <1>1, <4>1, <4>2, <4>3 DEF StockTypeOK
    <3> QED
      BY <3>1, <3>2
  <2>4. worker' \in [Workers -> {Idle} \cup Busy]
    BY <1>1, <1>12 DEF ConfirmCancelled
  <2> QED
    BY <1>1, <1>12, <2>2, <2>3, <2>4 DEF ConfirmCancelled, CheckoutTypeOK
<1>13. CASE Schedule(w)
  <2>1. p \in Payments /\ pay[p] \in Row /\ Attended(pay[p]) \in Row
    BY <1>2, <1>13 DEF Schedule
  <2>2. Rescheduled(pay[p]) \in Row
    <3>1. pay[p].attempts \in 0..MaxReconcile
      BY <2>1, RowUpdates
    <3>2. ~(pay[p].attempts >= MaxReconcile) => pay[p].attempts < MaxReconcile
      BY <3>1
    <3> QED
      BY <2>1, <3>2, RowUpdates DEF Rescheduled
  <2>3. pay' \in [Payments -> Row]
    BY <1>1, <1>13, <2>1, <2>2 DEF Schedule
  <2> QED
    BY <1>1, <1>5, <1>13, <2>3 DEF Schedule
<1>14. CASE Crash(w)
  BY <1>1, <1>5, <1>14 DEF Crash
<1> QED
  BY <1>6, <1>7, <1>8, <1>9, <1>10, <1>11, <1>12, <1>13, <1>14 DEF Advance

LEMMA CheckoutTypeEvent ==
  CheckoutTypeOK /\ EventStep => CheckoutTypeOK'
<1> SUFFICES ASSUME CheckoutTypeOK, NEW e \in Payments \X EventTypes,
                    AcceptEvent(e) \/ ExpireEvent(e) \/ ProcessEvent(e)
             PROVE  CheckoutTypeOK'
  BY DEF EventStep
<1> USE CheckoutAssumption
<1>1. e[1] \in Payments /\ PaymentFor[e[1]] \in Orders
  OBVIOUS
<1>2. CASE AcceptEvent(e) \/ ExpireEvent(e)
  BY <1>2 DEF AcceptEvent, ExpireEvent, CheckoutTypeOK, StockTypeOK, stockVars, Outcomes
<1>3. CASE ProcessEvent(e)
  <2> DEFINE q == e[1]
  <2>1. /\ pay \in [Payments -> Row] /\ pay[q] \in Row /\ Attended(pay[q]) \in Row
        /\ [pay[q] EXCEPT !.status = "succeeded"] \in Row
        /\ \A r \in Reasons : [pay[q] EXCEPT !.cancel = TRUE, !.reason = r] \in Row
    BY <1>1, RowTypes, RowUpdates DEF PaymentStatuses, CheckoutTypeOK
  <2>2. pay[q].reason \in Reasons /\ {"failure", "customer"} \subseteq Reasons
    BY <2>1 DEF Row, Reasons
  <2>3. /\ event' \in [Payments \X EventTypes -> Outcomes]
        /\ UNCHANGED <<cancelRequested, intent, worker, crashes>>
    BY <1>3 DEF ProcessEvent, Finish, Quarantine, CheckoutTypeOK, Outcomes
  <2>4. pay' \in [Payments -> Row]
    <3>1. \/ pay' = pay
          \/ pay' = [pay EXCEPT ![q] = Attended(@)]
          \/ pay' = [pay EXCEPT ![q].status = "succeeded"]
          \/ \E r \in Reasons :
                pay' = [pay EXCEPT ![q] = [pay[q] EXCEPT !.cancel = TRUE, !.reason = r]]
      BY <1>3, <2>2 DEF ProcessEvent, Quarantine
    <3> QED
      BY <1>1, <2>1, <3>1
  <2>5. UNCHANGED stockVars \/ CommitPayment(PaymentFor[e[1]])
    BY <1>3 DEF ProcessEvent, Quarantine
  <2>6. StockTypeOK'
    BY <1>1, <2>5, TypePayment DEF CheckoutTypeOK, StockTypeOK, stockVars, PaymentStep
  <2> QED
    BY <2>3, <2>4, <2>6 DEF CheckoutTypeOK
<1> QED
  BY <1>2, <1>3

LEMMA CheckoutTypeStep ==
  CheckoutTypeOK /\ [CheckoutNext]_vars => CheckoutTypeOK'
<1> SUFFICES ASSUME CheckoutTypeOK, [CheckoutNext]_vars PROVE CheckoutTypeOK'
  OBVIOUS
<1>1. CASE Provider
  BY <1>1 DEF Provider, CustomerPays, CustomerFails, ConsoleCancels, Emit,
              CheckoutTypeOK, StockTypeOK, stockVars, Intents, Outcomes
<1>2. CASE Elsewhere
  <2>1. StockTypeOK'
    BY <1>2, TypeStep DEF Elsewhere, StockNext, CheckoutTypeOK
  <2> QED
    BY <1>2, <2>1 DEF Elsewhere, CheckoutTypeOK, checkoutVars
<1>3. CASE UNCHANGED vars
  BY <1>3 DEF CheckoutTypeOK, StockTypeOK, vars, stockVars, checkoutVars
<1> QED
  BY <1>1, <1>2, <1>3, CheckoutTypeOpening, CheckoutTypeWorker, CheckoutTypeEvent
  DEF CheckoutNext

-----------------------------------------------------------------------------
(* What a step does to the payment rows.  Most leave the state of every    *)
(* payment alone; the others open, cancel, end or settle one.              *)

RowsKept ==
  \A p \in Payments : /\ pay'[p].status = pay[p].status
                      /\ pay'[p].provider = pay[p].provider

CancelsHere(o, started) ==
  /\ order[o] = "pending"
  /\ \A p \in PaymentsOf(o) : pay[p].status # "succeeded" /\ ~pay[p].provider
  /\ pay' = [p \in Payments |-> IF p \in {q \in PaymentsOf(o) : pay[q].status = "pending"}
                                THEN [pay[p] EXCEPT !.status = "cancelled"] ELSE pay[p]]
  /\ CloseOrder(o, started)
  /\ UNCHANGED <<cancelRequested, event, intent, worker, crashes>>

Ends(w) ==
  LET p == worker[w].pay
      o == PaymentFor[p]
      failed == pay[p].reason = "failure"
  IN  /\ worker[w].at = "confirm" /\ Live(pay[p])
      /\ pay' = [pay EXCEPT ![p].status = IF failed THEN "failed" ELSE "cancelled"]
      /\ status' = [k \in Holds |->
            IF k \notin HoldsOf(o) \/ status[k] # "payment_held" THEN status[k]
            ELSE IF failed /\ expiry[k] > now THEN "active" ELSE GivenUp(k, now)]
      /\ order' = IF failed \/ order[o] # "pending" THEN order
                  ELSE [order EXCEPT ![o] = "cancelled"]
      /\ worker' = [worker EXCEPT ![w] = Idle]
      /\ UNCHANGED <<now, onHand, qty, expiry, cancelRequested, event, intent, crashes>>

Pays(p) ==
  /\ event[<<p, "succeeded">>] = "pending" /\ Live(pay[p])
  /\ pay' = [pay EXCEPT ![p].status = "succeeded"]
  /\ CommitPayment(PaymentFor[p])
  /\ event' = [event EXCEPT ![<<p, "succeeded">>] = "processed"]
  /\ UNCHANGED <<cancelRequested, intent, worker, crashes>>

LEMMA SameState ==
  ASSUME CheckoutTypeOK, NEW p \in Payments
  PROVE  /\ Attended(pay[p]).status = pay[p].status
         /\ Attended(pay[p]).provider = pay[p].provider
         /\ Prepared(p).status = pay[p].status
         /\ Prepared(p).provider = pay[p].provider
         /\ Rescheduled(pay[p]).status = pay[p].status
         /\ Rescheduled(pay[p]).provider = pay[p].provider
         /\ [pay[p] EXCEPT !.bound = TRUE].status = pay[p].status
         /\ [pay[p] EXCEPT !.bound = TRUE].provider = pay[p].provider
         /\ \A r : /\ [pay[p] EXCEPT !.cancel = TRUE, !.reason = r].status = pay[p].status
                   /\ [pay[p] EXCEPT !.cancel = TRUE, !.reason = r].provider = pay[p].provider
<1>1. pay[p] \in Row
  BY RowTypes
<1> QED
  BY <1>1 DEF Attended, Prepared, Rescheduled, Row

(* A payment row is replaced by one in the same state.                     *)
LEMMA OneRowKept ==
  ASSUME CheckoutTypeOK, NEW p \in Payments, NEW row,
         row.status = pay[p].status, row.provider = pay[p].provider,
         pay' = [pay EXCEPT ![p] = row]
  PROVE  RowsKept
BY DEF CheckoutTypeOK, RowsKept

LEMMA AllRowsKept ==
  ASSUME UNCHANGED pay
  PROVE  RowsKept
BY DEF RowsKept

LEMMA CancelRows ==
  ASSUME CheckoutTypeOK, NEW o \in Orders, NEW started, Cancel(o, started)
  PROVE  (RowsKept /\ UNCHANGED stockVars) \/ CancelsHere(o, started)
<1>1. CASE \A p \in PaymentsOf(o) : ~pay[p].provider
  BY <1>1 DEF Cancel, CancelsHere
<1>2. CASE \E p \in PaymentsOf(o) : pay[p].provider
  <2>1. UNCHANGED stockVars /\ \A p \in Payments :
           pay'[p] = pay[p] \/ pay'[p] = [pay[p] EXCEPT !.cancel = TRUE, !.reason = "customer"]
    BY <1>2 DEF Cancel
  <2>2. RowsKept
    <3> SUFFICES ASSUME NEW p \in Payments
                 PROVE  pay'[p].status = pay[p].status /\ pay'[p].provider = pay[p].provider
      BY DEF RowsKept
    <3>1. CASE pay'[p] = pay[p]
      BY <3>1
    <3>2. CASE pay'[p] = [pay[p] EXCEPT !.cancel = TRUE, !.reason = "customer"]
      BY <3>2, SameState
    <3> QED
      BY <2>1, <3>1, <3>2
  <2> QED
    BY <2>1, <2>2
<1> QED
  BY <1>1, <1>2

LEMMA WorkerRows ==
  ASSUME CheckoutTypeOK, NEW w \in Workers,
         (\E p \in Payments : Begin(w, p)) \/ Advance(w) \/ Crash(w)
  PROVE  (RowsKept /\ UNCHANGED stockVars) \/ Ends(w)
<1> DEFINE q == worker[w].pay
<1>1. worker[w].at # "idle" => q \in Payments
  BY WorkerTypes
<1>2. ASSUME NEW p \in Payments, Begin(w, p) PROVE RowsKept /\ UNCHANGED stockVars
  BY <1>2, SameState, OneRowKept DEF Begin
<1>3. ASSUME MarkAttention(w) PROVE RowsKept /\ UNCHANGED stockVars
  BY <1>1, <1>3, SameState, OneRowKept DEF MarkAttention
<1>4. ASSUME Request(w) \/ CancelIntent(w) \/ Crash(w) PROVE RowsKept /\ UNCHANGED stockVars
  BY <1>4, AllRowsKept DEF Request, CancelIntent, Crash
<1>5. ASSUME Bind(w) PROVE RowsKept /\ UNCHANGED stockVars
  <2>1. q \in Payments /\ UNCHANGED stockVars
    BY <1>1, <1>5 DEF Bind
  <2>2. \E row \in {Attended(pay[q]), [pay[q] EXCEPT !.bound = TRUE], pay[q]} :
           pay' = [pay EXCEPT ![q] = row]
    BY <1>5 DEF Bind
  <2> QED
    BY <2>1, <2>2, SameState, OneRowKept
<1>6. ASSUME Recheck(w) PROVE RowsKept /\ UNCHANGED stockVars
  BY <1>1, <1>6, SameState, OneRowKept DEF Recheck
<1>7. ASSUME Schedule(w) PROVE RowsKept /\ UNCHANGED stockVars
  BY <1>1, <1>7, SameState, OneRowKept DEF Schedule
<1>8. ASSUME ConfirmCancelled(w) PROVE (RowsKept /\ UNCHANGED stockVars) \/ Ends(w)
  <2>1. q \in Payments
    BY <1>1, <1>8 DEF ConfirmCancelled
  <2>2. \/ UNCHANGED <<pay, stockVars>>
        \/ pay' = [pay EXCEPT ![q] = Attended(pay[q])] /\ UNCHANGED stockVars
        \/ Ends(w)
    BY <1>8 DEF ConfirmCancelled, Ends
  <2> QED
    BY <2>1, <2>2, SameState, OneRowKept, AllRowsKept
<1> QED
  BY <1>2, <1>3, <1>4, <1>5, <1>6, <1>7, <1>8 DEF Advance

LEMMA EventRows ==
  ASSUME CheckoutTypeOK, NEW e \in Payments \X EventTypes,
         AcceptEvent(e) \/ ExpireEvent(e) \/ ProcessEvent(e)
  PROVE  (RowsKept /\ UNCHANGED stockVars) \/ Pays(e[1])
<1> DEFINE p == e[1]
<1>1. p \in Payments /\ e = <<p, e[2]>>
  OBVIOUS
<1>2. \/ UNCHANGED <<pay, stockVars>>
      \/ pay' = [pay EXCEPT ![p] = Attended(pay[p])] /\ UNCHANGED stockVars
      \/ (\E r : pay' = [pay EXCEPT ![p] = [pay[p] EXCEPT !.cancel = TRUE, !.reason = r]])
         /\ UNCHANGED stockVars
      \/ Pays(p)
  BY <1>1 DEF AcceptEvent, ExpireEvent, ProcessEvent, Quarantine, Finish, Pays
<1> QED
  BY <1>1, <1>2, SameState, OneRowKept, AllRowsKept

LEMMA RowSteps ==
  ASSUME CheckoutTypeOK, [CheckoutNext]_vars
  PROVE  \/ RowsKept /\ UNCHANGED stockVars
         \/ RowsKept /\ Elsewhere
         \/ \E p \in Payments : CreateProvider(p) \/ CreateDirect(p)
         \/ \E o \in Orders, started \in StartTimes : CancelsHere(o, started)
         \/ \E w \in Workers : Ends(w)
         \/ \E p \in Payments : Pays(p)
<1>1. CASE Provider
  BY <1>1, AllRowsKept DEF Provider, CustomerPays, CustomerFails, ConsoleCancels
<1>2. CASE Elsewhere
  BY <1>2, AllRowsKept DEF Elsewhere, checkoutVars
<1>3. CASE UNCHANGED vars
  BY <1>3, AllRowsKept DEF vars, checkoutVars
<1>4. CASE Opening
  BY <1>4, CancelRows DEF Opening
<1>5. CASE WorkerStep
  BY <1>5, WorkerRows DEF WorkerStep
<1>6. CASE EventStep
  <2>1. PICK e \in Payments \X EventTypes : AcceptEvent(e) \/ ExpireEvent(e) \/ ProcessEvent(e)
    BY <1>6 DEF EventStep
  <2>2. e[1] \in Payments
    OBVIOUS
  <2> QED
    BY <2>1, <2>2, EventRows
<1> QED
  BY <1>1, <1>2, <1>3, <1>4, <1>5, <1>6 DEF CheckoutNext

(* Settled payments stay as they are.                                      *)
LEMMA FinalStep ==
  ASSUME CheckoutTypeOK, [CheckoutNext]_vars, NEW p \in Payments,
         pay[p].status \in {"succeeded", "failed", "cancelled"}
  PROVE  pay'[p].status = pay[p].status /\ pay'[p].provider = pay[p].provider
<1>1. pay \in [Payments -> Row]
  BY DEF CheckoutTypeOK
<1>2. ASSUME NEW q \in Payments, CreateProvider(q) \/ CreateDirect(q)
      PROVE  pay'[p] = pay[p]
  BY <1>1, <1>2 DEF CreateProvider, CreateDirect
<1>3. ASSUME NEW o, NEW started, CancelsHere(o, started) PROVE pay'[p] = pay[p]
  BY <1>3 DEF CancelsHere
<1>4. ASSUME NEW w, Ends(w) PROVE pay'[p] = pay[p]
  BY <1>1, <1>4 DEF Ends, Live
<1>5. ASSUME NEW q \in Payments, Pays(q) PROVE pay'[p] = pay[p]
  BY <1>1, <1>5 DEF Pays, Live
<1> QED
  BY <1>2, <1>3, <1>4, <1>5, RowSteps DEF RowsKept

LEMMA CheckoutTypes ==
  CheckoutSpec => []CheckoutTypeOK
BY CheckoutTypeInit, CheckoutTypeStep, PTL DEF CheckoutSpec

(* Every variable of the checkout keeps its type; in particular no payment *)
(* is retried more than MaxReconcile times (Repository.Schedule).          *)
THEOREM CheckoutTyping ==
  CheckoutSpec => []CheckoutTypeOK
BY CheckoutTypes

(* "Stale responses cannot regress terminal states"                        *)
(* (checkout_repository.go:177): no late answer, replay or event reopens a *)
(* payment or turns one outcome into another.                              *)
THEOREM OutcomesStand ==
  CheckoutSpec => TerminalIsFinal
<1>1. CheckoutTypeOK /\ [CheckoutNext]_vars =>
         [\A p \in Payments :
             pay[p].status \in {"succeeded", "failed", "cancelled"} =>
                pay'[p].status = pay[p].status]_vars
  BY FinalStep
<1> QED
  BY <1>1, CheckoutTypes, PTL DEF CheckoutSpec, TerminalIsFinal

-----------------------------------------------------------------------------
(* The money.                                                              *)

(* What a busy worker knows of an intent is still so: its payment is the   *)
(* provider's, and an intent it was told to be cancelled is.               *)
KnowsRight(v) ==
  v # Idle =>
     /\ Provided(v.pay)
     /\ v.at = "confirm" \/ (v.at \in {"bind", "recheck"} /\ v.told = "canceled") =>
           intent[v.pay] = "canceled"

MoneyInv ==
  /\ \A p \in Payments : intent[p] # "none" => Provided(p)
  /\ \A p \in Payments : event[<<p, "succeeded">>] # "none" => intent[p] = "succeeded"
  /\ \A p \in Payments : pay[p].status = "succeeded" => pay[p].provider
  /\ \A w \in Workers : KnowsRight(worker[w])
  /\ ClosedMeansUnpayable
  /\ SuccessIsBooked

LEMMA MoneyInit ==
  CheckoutInit => MoneyInv
BY DEF CheckoutInit, MoneyInv, KnowsRight, ClosedMeansUnpayable, SuccessIsBooked,
       Provided, NoRow, NewRow, EventTypes

(* A provider payment remains one.                                         *)
LEMMA ProvidedStays ==
  ASSUME CheckoutTypeOK, [CheckoutNext]_vars, NEW p \in Payments, Provided(p)
  PROVE  pay'[p].status # "none" /\ pay'[p].provider
<1>1. pay \in [Payments -> Row] /\ pay[p].status # "none" /\ pay[p].provider
  BY DEF CheckoutTypeOK, Provided
<1>2. ASSUME NEW q \in Payments, CreateProvider(q) \/ CreateDirect(q)
      PROVE  pay'[p] = pay[p]
  BY <1>1, <1>2 DEF CreateProvider, CreateDirect
<1>3. ASSUME NEW o, NEW started, CancelsHere(o, started) PROVE pay'[p] = pay[p]
  BY <1>1, <1>3 DEF CancelsHere
<1>4. ASSUME NEW w, Ends(w)
      PROVE  pay'[p].status # "none" /\ pay'[p].provider
  BY <1>1, <1>4 DEF Ends, Row
<1>5. ASSUME NEW q \in Payments, Pays(q)
      PROVE  pay'[p].status # "none" /\ pay'[p].provider
  BY <1>1, <1>5 DEF Pays, Row
<1> QED
  BY <1>1, <1>2, <1>3, <1>4, <1>5, RowSteps DEF RowsKept

(* An intent that is paid or cancelled stays so, only payments that were   *)
(* opened get one, and a success is only announced when there was one.     *)
LEMMA IntentSteps ==
  ASSUME CheckoutTypeOK, MoneyInv, [CheckoutNext]_vars, NEW p \in Payments
  PROVE  /\ intent[p] \in {"succeeded", "canceled"} => intent'[p] = intent[p]
         /\ intent'[p] # "none" => Provided(p)
         /\ event'[<<p, "succeeded">>] # "none" => intent'[p] = "succeeded"
<1> DEFINE Fine == /\ intent[p] \in {"succeeded", "canceled"} => intent'[p] = intent[p]
                   /\ intent'[p] # "none" => Provided(p)
                   /\ event'[<<p, "succeeded">>] # "none" => intent'[p] = "succeeded"
<1>1. /\ intent \in [Payments -> Intents]
      /\ event \in [Payments \X EventTypes -> Outcomes]
      /\ intent[p] # "none" => Provided(p)
      /\ event[<<p, "succeeded">>] # "none" => intent[p] = "succeeded"
      /\ <<p, "succeeded">> \in Payments \X EventTypes
  BY DEF CheckoutTypeOK, MoneyInv, EventTypes
<1>2. ASSUME UNCHANGED intent,
             event'[<<p, "succeeded">>] # "none" => event[<<p, "succeeded">>] # "none"
      PROVE  Fine
  BY <1>1, <1>2
<1>3. ASSUME UNCHANGED <<intent, event>> PROVE Fine
  BY <1>1, <1>3
<1>4. CASE Opening
  BY <1>3, <1>4 DEF Opening, CreateProvider, CreateDirect, Cancel
<1>5. CASE WorkerStep
  <2>1. PICK w \in Workers : (\E q \in Payments : Begin(w, q)) \/ Advance(w) \/ Crash(w)
    BY <1>5 DEF WorkerStep
  <2> DEFINE q == worker[w].pay
  <2>2. worker[w].at # "idle" => q \in Payments /\ Provided(q)
    BY WorkerTypes DEF MoneyInv, KnowsRight
  <2>3. CASE Request(w)
    <3>1. q \in Payments /\ Provided(q)
      BY <2>2, <2>3 DEF Request
    <3>2. /\ UNCHANGED event
          /\ \/ UNCHANGED intent
             \/ intent[q] = "none" /\ intent' = [intent EXCEPT ![q] = "open"]
      BY <2>3 DEF Request
    <3> QED
      BY <1>1, <1>3, <3>1, <3>2
  <2>4. CASE CancelIntent(w)
    <3>1. \/ UNCHANGED <<intent, event>>
          \/ /\ intent[q] \in {"open", "canceled"} /\ intent' = [intent EXCEPT ![q] = "canceled"]
             /\ Emit(q, "canceled")
      BY <2>4 DEF CancelIntent
    <3>2. q \in Payments
      BY <2>2, <2>4 DEF CancelIntent
    <3>3. ASSUME Emit(q, "canceled")
          PROVE  event'[<<p, "succeeded">>] = event[<<p, "succeeded">>]
      BY <1>1, <3>3 DEF Emit
    <3> QED
      BY <1>1, <1>3, <3>1, <3>2, <3>3
  <2>5. CASE (\E r \in Payments : Begin(w, r)) \/ MarkAttention(w) \/ Bind(w) \/ Recheck(w)
             \/ ConfirmCancelled(w) \/ Schedule(w) \/ Crash(w)
    BY <1>3, <2>5 DEF Begin, MarkAttention, Bind, Recheck, ConfirmCancelled, Schedule, Crash
  <2> QED
    BY <2>1, <2>3, <2>4, <2>5 DEF Advance
<1>6. CASE EventStep
  <2>1. PICK e \in Payments \X EventTypes : AcceptEvent(e) \/ ExpireEvent(e) \/ ProcessEvent(e)
    BY <1>6 DEF EventStep
  <2>2. event[e] # "none" /\ UNCHANGED intent /\ \E x : event' = [event EXCEPT ![e] = x]
    BY <2>1 DEF AcceptEvent, ExpireEvent, ProcessEvent, Quarantine, Finish
  <2> QED
    BY <1>1, <1>2, <2>2
<1>7. CASE Provider
  <2>1. PICK q \in Payments : CustomerPays(q) \/ CustomerFails(q) \/ ConsoleCancels(q)
    BY <1>7 DEF Provider
  <2>2. intent[q] \in {"open", "processing"} /\ \E i : intent' = [intent EXCEPT ![q] = i]
    BY <2>1 DEF CustomerPays, CustomerFails, ConsoleCancels
  <2>3. event'[<<p, "succeeded">>] # event[<<p, "succeeded">>] => intent'[p] = "succeeded"
    BY <1>1, <2>1 DEF CustomerPays, CustomerFails, ConsoleCancels, Emit
  <2> QED
    BY <1>1, <2>2, <2>3
<1>8. CASE Elsewhere \/ UNCHANGED vars
  BY <1>3, <1>8 DEF Elsewhere, checkoutVars, vars
<1> QED
  BY <1>4, <1>5, <1>6, <1>7, <1>8 DEF CheckoutNext

(* What the workers know after a step.                                     *)
LEMMA KnowledgeStep ==
  ASSUME CheckoutTypeOK, MoneyInv, [CheckoutNext]_vars, NEW v \in Workers
  PROVE  KnowsRight(worker[v])'
<1> DEFINE Right(x) == x # Idle =>
             /\ pay'[x.pay].status # "none" /\ pay'[x.pay].provider
             /\ x.at = "confirm" \/ (x.at \in {"bind", "recheck"} /\ x.told = "canceled") =>
                   intent'[x.pay] = "canceled"
<1>1. SUFFICES Right(worker'[v])
  BY DEF KnowsRight, Provided
<1>2. /\ worker \in [Workers -> {Idle} \cup [at: Stages \ {"idle"}, pay: Payments, told: Intents]]
      /\ \A q \in Payments : pay[q].status \in PaymentStatuses
  BY RowTypes DEF CheckoutTypeOK, Row
<1>3. ASSUME NEW x \in {Idle} \cup [at: Stages \ {"idle"}, pay: Payments, told: Intents],
             KnowsRight(x)
      PROVE  Right(x)
  <2>1. CASE x = Idle
    BY <2>1
  <2>2. CASE x # Idle
    <3>1. x.pay \in Payments /\ Provided(x.pay)
      BY <1>3, <2>2 DEF KnowsRight
    <3> QED
      BY <1>3, <2>2, <3>1, ProvidedStays, IntentSteps DEF KnowsRight
  <2> QED
    BY <2>1, <2>2
<1>4. ASSUME UNCHANGED worker PROVE Right(worker'[v])
  BY <1>2, <1>3, <1>4 DEF MoneyInv
<1>5. ASSUME NEW w \in Workers, NEW x, worker' = [worker EXCEPT ![w] = x], Right(x)
      PROVE  Right(worker'[v])
  <2>1. CASE v = w
    BY <1>2, <1>5, <2>1
  <2>2. CASE v # w
    BY <1>2, <1>3, <1>5, <2>2 DEF MoneyInv
  <2> QED
    BY <2>1, <2>2
<1>6. Right(Idle)
  OBVIOUS
<1>7. ASSUME NEW stage \in {"attention", "request", "schedule", "cancel"},
             NEW q \in Payments, NEW told, Provided(q)
      PROVE  Right(At(stage, q, told))
  BY <1>7, ProvidedStays DEF At
<1>8. CASE WorkerStep
  <2>1. PICK w \in Workers : (\E q \in Payments : Begin(w, q)) \/ Advance(w) \/ Crash(w)
    BY <1>8 DEF WorkerStep
  <2> DEFINE q == worker[w].pay
  <2>2. worker[w].at # "idle" =>
           /\ q \in Payments /\ Provided(q) /\ worker[w] # Idle
           /\ KnowsRight(worker[w])
           /\ [worker[w] EXCEPT !.at = "recheck"] =
                 [at |-> "recheck", pay |-> q, told |-> worker[w].told]
    BY WorkerTypes DEF MoneyInv, KnowsRight, Stages
  <2>3. ASSUME NEW r \in Payments, Begin(w, r) PROVE Right(worker'[v])
    <3>1. Provided(r)
      BY <2>3 DEF Begin, Live, Provided
    <3>2. PICK x : worker' = [worker EXCEPT ![w] = x] /\
             (x = At("attention", r, "none") \/ x = At("request", r, "open") \/
              x = At("request", r, "none"))
      <4>1. PICK sameEnvironment \in Verdicts :
               worker' = [worker EXCEPT ![w] =
                  IF ~sameEnvironment \/ (~pay[r].bound /\ now - pay[r].opened >= InitWindow)
                  THEN At("attention", r, "none")
                  ELSE At("request", r, IF pay[r].bound THEN "open" ELSE "none")]
        BY <2>3 DEF Begin
      <4> QED
        BY <4>1
    <3>3. Right(At("attention", r, "none"))
      BY <1>7, <3>1
    <3>4. Right(At("request", r, "open"))
      BY <1>7, <3>1
    <3>5. Right(At("request", r, "none"))
      BY <1>7, <3>1
    <3> QED
      BY <1>5, <2>3, <3>2, <3>3, <3>4, <3>5
  <2>4. CASE MarkAttention(w) \/ Schedule(w) \/ ConfirmCancelled(w) \/ Crash(w)
    BY <1>5, <1>6, <2>4 DEF MarkAttention, Schedule, ConfirmCancelled, Crash
  <2>5. CASE Request(w)
    <3>1. /\ q \in Payments /\ Provided(q) /\ worker[w].told \in Intents
      BY <2>2, <2>5, WorkerTypes DEF Request
    <3>2. PICK x : worker' = [worker EXCEPT ![w] = x] /\
             (x = At("schedule", q, "none") \/ x = At("bind", q, "open") \/
              x = At("bind", q, intent[q]))
      BY <2>5 DEF Request
    <3>3. Right(At("schedule", q, "none"))
      BY <1>7, <3>1
    <3>4. Right(At("bind", q, "open"))
      BY <3>1, ProvidedStays DEF At
    <3>5. Right(At("bind", q, intent[q]))
      BY <3>1, ProvidedStays, IntentSteps DEF At
    <3> QED
      BY <1>5, <3>2, <3>3, <3>4, <3>5
  <2>6. CASE Bind(w)
    <3> DEFINE x == [worker[w] EXCEPT !.at = "recheck"]
    <3>1. /\ q \in Payments /\ Provided(q)
          /\ x.at = "recheck" /\ x.pay = q /\ x.told = worker[w].told
          /\ worker[w].told = "canceled" => intent[q] = "canceled"
      BY <2>2, <2>6 DEF Bind, KnowsRight
    <3>2. Right(x)
      BY <3>1, ProvidedStays, IntentSteps
    <3>3. worker' = [worker EXCEPT ![w] = x]
      BY <1>2, <2>6 DEF Bind
    <3> QED
      BY <1>5, <3>2, <3>3
  <2>7. CASE Recheck(w)
    <3>1. /\ q \in Payments /\ Provided(q)
          /\ worker[w].told = "canceled" => intent[q] = "canceled"
      BY <2>2, <2>7 DEF Recheck, KnowsRight
    <3>2. PICK x : worker' = [worker EXCEPT ![w] = x] /\
             (x = Idle \/ x = At("schedule", q, "none") \/ x = At("cancel", q, "none") \/
              (x = At("confirm", q, "none") /\ worker[w].told = "canceled"))
      BY <2>7 DEF Recheck
    <3>3. worker[w].told = "canceled" => Right(At("confirm", q, "none"))
      BY <3>1, ProvidedStays, IntentSteps DEF At
    <3> QED
      BY <1>5, <1>6, <1>7, <3>1, <3>2, <3>3
  <2>8. CASE CancelIntent(w)
    <3>1. q \in Payments /\ Provided(q) /\ intent \in [Payments -> Intents]
      BY <2>2, <2>8 DEF CancelIntent, CheckoutTypeOK
    <3>2. PICK x : worker' = [worker EXCEPT ![w] = x] /\
             (x = At("schedule", q, "none") \/
              (x = At("confirm", q, "none") /\ intent' = [intent EXCEPT ![q] = "canceled"]))
      BY <2>8 DEF CancelIntent
    <3>3. intent' = [intent EXCEPT ![q] = "canceled"] => Right(At("confirm", q, "none"))
      BY <3>1, ProvidedStays DEF At
    <3> QED
      BY <1>5, <1>7, <3>1, <3>2, <3>3
  <2> QED
    BY <2>1, <2>3, <2>4, <2>5, <2>6, <2>7, <2>8 DEF Advance
<1>9. CASE Opening \/ EventStep \/ Provider \/ Elsewhere \/ UNCHANGED vars
  <2>1. UNCHANGED worker
    BY <1>9 DEF Opening, CreateProvider, CreateDirect, Cancel, EventStep, AcceptEvent,
                ExpireEvent, ProcessEvent, Provider, CustomerPays, CustomerFails,
                ConsoleCancels, Elsewhere, checkoutVars, vars
  <2> QED
    BY <1>4, <2>1
<1> QED
  BY <1>8, <1>9 DEF CheckoutNext

LEMMA UnpayableStep ==
  ASSUME CheckoutTypeOK, MoneyInv, [CheckoutNext]_vars, NEW p \in Payments
  PROVE  /\ pay'[p].status = "succeeded" => pay'[p].provider /\ intent'[p] = "succeeded"
         /\ pay'[p].provider /\ pay'[p].status \in {"failed", "cancelled"} =>
               intent'[p] = "canceled"
<1> DEFINE Fine == /\ pay'[p].status = "succeeded" => pay'[p].provider /\ intent'[p] = "succeeded"
                   /\ pay'[p].provider /\ pay'[p].status \in {"failed", "cancelled"} =>
                         intent'[p] = "canceled"
<1>1. /\ pay \in [Payments -> Row] /\ pay[p] \in Row
      /\ pay[p].status = "succeeded" => pay[p].provider /\ intent[p] = "succeeded"
      /\ pay[p].provider /\ pay[p].status \in {"failed", "cancelled"} => intent[p] = "canceled"
      /\ intent[p] \in {"succeeded", "canceled"} => intent'[p] = intent[p]
  BY RowTypes, IntentSteps DEF CheckoutTypeOK, MoneyInv, ClosedMeansUnpayable, Provided
<1>2. ASSUME pay'[p].status = pay[p].status, pay'[p].provider = pay[p].provider PROVE Fine
  BY <1>1, <1>2
<1>3. ASSUME NEW q \in Payments, CreateProvider(q) \/ CreateDirect(q) PROVE Fine
  <2>1. CASE q = p
    BY <1>1, <1>3, <2>1 DEF CreateProvider, CreateDirect, NewRow
  <2>2. CASE q # p
    BY <1>1, <1>2, <1>3, <2>2 DEF CreateProvider, CreateDirect
  <2> QED
    BY <2>1, <2>2
<1>4. ASSUME NEW o, NEW started, CancelsHere(o, started) PROVE Fine
  <2>1. CASE pay'[p] = pay[p]
    BY <1>2, <2>1
  <2>2. CASE pay'[p] # pay[p]
    BY <1>1, <1>4, <2>2 DEF CancelsHere, Row
  <2> QED
    BY <2>1, <2>2
<1>5. ASSUME NEW w \in Workers, Ends(w) PROVE Fine
  <2>1. CASE worker[w].pay # p
    BY <1>1, <1>2, <1>5, <2>1 DEF Ends
  <2>2. CASE worker[w].pay = p
    <3>1. worker[w] # Idle /\ KnowsRight(worker[w]) /\ worker[w].at = "confirm"
      BY <1>5, WorkerTypes DEF Ends, MoneyInv
    <3>2. intent'[p] = "canceled"
      BY <1>1, <2>2, <3>1 DEF KnowsRight
    <3>3. pay'[p].status \in {"failed", "cancelled"}
      BY <1>1, <1>5, <2>2 DEF Ends, Row
    <3> QED
      BY <3>2, <3>3
  <2> QED
    BY <2>1, <2>2
<1>6. ASSUME NEW q \in Payments, Pays(q) PROVE Fine
  <2>1. CASE q # p
    BY <1>1, <1>2, <1>6, <2>1 DEF Pays
  <2>2. CASE q = p
    BY <1>1, <1>6, <2>2 DEF Pays, Live, Row, MoneyInv
  <2> QED
    BY <2>1, <2>2
<1> QED
  BY <1>2, <1>3, <1>4, <1>5, <1>6, RowSteps DEF RowsKept

LEMMA BookedStep ==
  ASSUME CheckoutTypeOK, MoneyInv, [CheckoutNext]_vars, NEW p \in Payments,
         event'[<<p, "succeeded">>] \in {"processed", "ignored"}
  PROVE  pay'[p].status = "succeeded"
<1> DEFINE s == <<p, "succeeded">>
<1>1. /\ event \in [Payments \X EventTypes -> Outcomes] /\ s \in Payments \X EventTypes
      /\ event[s] \in {"processed", "ignored"} => pay[p].status = "succeeded"
      /\ pay \in [Payments -> Row]
  BY DEF CheckoutTypeOK, MoneyInv, SuccessIsBooked, EventTypes
<1>2. CASE event'[s] = event[s]
  BY <1>1, <1>2, FinalStep
<1>3. CASE event'[s] # event[s]
  <2>1. ~Opening /\ ~Elsewhere /\ ~UNCHANGED vars
    BY <1>3 DEF Opening, CreateProvider, CreateDirect, Cancel, Elsewhere, checkoutVars, vars
  <2>2. ~Provider
    <3> SUFFICES ASSUME NEW q \in Payments,
                        CustomerPays(q) \/ CustomerFails(q) \/ ConsoleCancels(q)
                 PROVE  FALSE
      BY DEF Provider
    <3> QED
      BY <1>1, <1>3 DEF CustomerPays, CustomerFails, ConsoleCancels, Emit
  <2>3. ~WorkerStep
    <3> SUFFICES ASSUME NEW w \in Workers,
                        (\E q \in Payments : Begin(w, q)) \/ Advance(w) \/ Crash(w)
                 PROVE  FALSE
      BY DEF WorkerStep
    <3>1. CASE CancelIntent(w)
      BY <1>1, <1>3, <3>1 DEF CancelIntent, Emit
    <3> QED
      BY <1>3, <3>1 DEF Advance, Begin, MarkAttention, Request, Bind, Recheck,
                        ConfirmCancelled, Schedule, Crash
  <2>4. PICK e \in Payments \X EventTypes : AcceptEvent(e) \/ ExpireEvent(e) \/ ProcessEvent(e)
    BY <2>1, <2>2, <2>3 DEF CheckoutNext, EventStep
  <2>5. e = s
    BY <1>1, <1>3, <2>4 DEF AcceptEvent, ExpireEvent, ProcessEvent, Quarantine, Finish
  <2>6. ProcessEvent(e)
    BY <1>1, <2>4, <2>5 DEF AcceptEvent, ExpireEvent
  <2>7. \/ pay[p].status = "succeeded"
        \/ pay' = [pay EXCEPT ![p].status = "succeeded"]
    BY <1>1, <2>5, <2>6 DEF ProcessEvent, Quarantine, Finish
  <2> QED
    BY <1>1, <2>7, FinalStep DEF Row
<1> QED
  BY <1>2, <1>3

LEMMA MoneyStep ==
  ASSUME CheckoutTypeOK, MoneyInv, [CheckoutNext]_vars
  PROVE  MoneyInv'
<1>1. \A p \in Payments : intent'[p] # "none" => Provided(p)'
  BY IntentSteps, ProvidedStays DEF Provided
<1>2. \A p \in Payments : event'[<<p, "succeeded">>] # "none" => intent'[p] = "succeeded"
  BY IntentSteps
<1>3. \A w \in Workers : KnowsRight(worker[w])'
  BY KnowledgeStep
<1>4. (\A p \in Payments : pay'[p].status = "succeeded" => pay'[p].provider)
      /\ ClosedMeansUnpayable'
  BY UnpayableStep DEF ClosedMeansUnpayable, Provided
<1>5. SuccessIsBooked'
  BY BookedStep DEF SuccessIsBooked
<1> QED
  BY <1>1, <1>2, <1>3, <1>4, <1>5 DEF MoneyInv

LEMMA MoneyInvariant ==
  CheckoutSpec => [](CheckoutTypeOK /\ MoneyInv)
<1>1. CheckoutInit => CheckoutTypeOK /\ MoneyInv
  BY CheckoutTypeInit, MoneyInit
<1>2. (CheckoutTypeOK /\ MoneyInv) /\ [CheckoutNext]_vars => (CheckoutTypeOK /\ MoneyInv)'
  BY CheckoutTypeStep, MoneyStep
<1> QED
  BY <1>1, <1>2, PTL DEF CheckoutSpec

(* A payment row is closed only when the provider can no longer charge it, *)
(* and succeeds only when it was charged: whatever answers are lost, late  *)
(* or replayed, and wherever workers die (CheckoutService.advance).        *)
THEOREM ClosedForGood ==
  CheckoutSpec => []ClosedMeansUnpayable
<1>1. MoneyInv => ClosedMeansUnpayable
  BY DEF MoneyInv
<1> QED
  BY <1>1, MoneyInvariant, PTL

(* An event of a success that was taken as done has paid its order         *)
(* (Repository.ProcessEvent).                                              *)
THEOREM SuccessesBooked ==
  CheckoutSpec => []SuccessIsBooked
<1>1. MoneyInv => SuccessIsBooked
  BY DEF MoneyInv
<1> QED
  BY <1>1, MoneyInvariant, PTL

-----------------------------------------------------------------------------
(* The stock.                                                              *)

PaidStates == {"paid", "partially_fulfilled", "fulfilled"}

(* A reservation of o is held for a payment; a provider payment of o is    *)
(* pending; a payment of o succeeded.                                      *)
SomeHeld(o)   == \E k \in Holds : k[1] = o /\ status[k] = "payment_held"
Awaited(o)    == \E p \in PaymentsOf(o) : pay[p].status = "pending" /\ pay[p].provider
PaidFor(o)    == \E p \in PaymentsOf(o) : pay[p].status = "succeeded"

(* No two payments of an order are unsettled.                              *)
OneUnsettled(o) ==
  \A p, q \in PaymentsOf(o) :
     {pay[p].status, pay[q].status} \subseteq {"pending", "succeeded"} => p = q

Matched(o) ==
  /\ SomeHeld(o) <=> Awaited(o)
  /\ order[o] \in PaidStates <=> PaidFor(o)
  /\ OneUnsettled(o)

StockInv == OrderMatchesHolds /\ \A o \in Orders : Matched(o)

(* By the story of the order, all its reservations are held or none is.    *)
LEMMA HeldTogether ==
  ASSUME NEW o \in Orders, Story(o), order[o] \in OrderStatuses
  PROVE  /\ AllHolds(o, "payment_held") <=> SomeHeld(o)
         /\ SomeHeld(o) => order[o] \notin PaidStates \cup {"none", "cancelled"}
         /\ order[o] \in PaidStates =>
               \A k \in HoldsOf(o) : status[k] \in {"committed", "consumed"}
<1> DEFINE seen == {status[k] : k \in HoldsOf(o)}
<1>1. \A k \in HoldsOf(o) : status[k] \in seen
  OBVIOUS
<1>2. SomeHeld(o) => "payment_held" \in seen
  BY DEF SomeHeld, HoldsOf
<1>3. SomeHeld(o) => /\ order[o] \notin PaidStates \cup {"none", "cancelled"}
                     /\ order[o] = "pending" => seen = {"payment_held"}
  BY <1>2 DEF Story, PaidStates
<1>4. AllHolds(o, "payment_held") => SomeHeld(o)
  BY DEF AllHolds, SomeHeld, HoldsOf
<1>5. order[o] \in OrderStatuses => (SomeHeld(o) => AllHolds(o, "payment_held"))
  BY <1>1, <1>2, <1>3 DEF AllHolds, OrderStatuses, PaidStates
<1>6. order[o] \in PaidStates =>
         \A k \in HoldsOf(o) : status[k] \in {"committed", "consumed"}
  BY <1>1 DEF Story, PaidStates
<1> QED
  BY <1>3, <1>4, <1>5, <1>6

LEMMA MatchedIsProperty ==
  StockTypeOK /\ StockInv => PaymentMatchesOrder
<1> SUFFICES ASSUME StockTypeOK, StockInv, NEW o \in Orders
             PROVE  /\ AllHolds(o, "payment_held") <=> Awaited(o)
                    /\ order[o] \in PaidStates <=> PaidFor(o)
                    /\ OneUnsettled(o)
  BY DEF PaymentMatchesOrder, Awaited, PaidFor, OneUnsettled, PaidStates
<1>1. Story(o) /\ Matched(o) /\ order[o] \in OrderStatuses
  BY StoryOfAll DEF StockInv, StockTypeOK
<1> QED
  BY <1>1, HeldTogether DEF Matched

LEMMA StockInvInit ==
  CheckoutInit => StockInv
<1> SUFFICES ASSUME CheckoutInit PROVE StockInv
  OBVIOUS
<1>1. OrderMatchesHolds
  BY StoryInit DEF CheckoutInit
<1>2. ASSUME NEW o \in Orders PROVE Matched(o)
  <2>1. PaymentsOf(o) = {} /\ order[o] = "none" /\ \A k \in Holds : status[k] = "none"
    BY DEF CheckoutInit, StockInit, PaymentsOf, NoRow, NewRow
  <2> QED
    BY <2>1 DEF Matched, SomeHeld, Awaited, PaidFor, OneUnsettled, PaidStates
<1> QED
  BY <1>1, <1>2 DEF StockInv

(* Whether a payment is awaited, and the others, depends on its row alone. *)
LEMMA RowsKeptMatch ==
  ASSUME RowsKept, NEW o \in Orders
  PROVE  /\ Awaited(o)' <=> Awaited(o)
         /\ PaidFor(o)' <=> PaidFor(o)
         /\ OneUnsettled(o) => OneUnsettled(o)'
<1>1. PaymentsOf(o)' = PaymentsOf(o)
  BY DEF RowsKept, PaymentsOf
<1>2. \A p \in PaymentsOf(o) : pay'[p].status = pay[p].status /\ pay'[p].provider = pay[p].provider
  BY DEF RowsKept, PaymentsOf
<1> QED
  BY <1>1, <1>2 DEF Awaited, PaidFor, OneUnsettled

(* The rest of the application neither holds stock for a payment nor frees *)
(* what is held, and pays no order.                                        *)
LEMMA ElsewhereMatch ==
  ASSUME StockTypeOK, OrderMatchesHolds, Elsewhere, NEW o \in Orders
  PROVE  /\ SomeHeld(o)' <=> SomeHeld(o)
         /\ order'[o] \in PaidStates <=> order[o] \in PaidStates
<1>1. Story(o)
  BY StoryOfAll
<1> DEFINE Kept == /\ \A k \in Holds : k[1] = o =>
                         (status'[k] = "payment_held" <=> status[k] = "payment_held")
                   /\ order'[o] \in PaidStates <=> order[o] \in PaidStates
<1>2. SUFFICES Kept
  BY DEF SomeHeld
<1>3. CASE InventoryStep
  <2>1. PICK started \in StartTimes :
           \/ \E w \in Walkins, l \in Levels, n \in 1..MaxQty : Reserve(w, l, n, started)
           \/ \E k \in Holds : Release(k, started)
           \/ \E l \in Levels, delta \in (-MaxQty..MaxQty) \ {0} : Adjust(l, delta, started)
    BY <1>3 DEF InventoryStep
  <2>2. ASSUME NEW w \in Walkins, NEW l \in Levels, NEW n, Reserve(w, l, n, started) PROVE Kept
    BY <2>2 DEF Reserve, ExpiredOn, StockTypeOK
  <2>3. ASSUME NEW k \in Holds, Release(k, started) PROVE Kept
    BY <2>3 DEF Release, ExpiredOn, GivenUp, StockTypeOK
  <2>4. ASSUME NEW l \in Levels, NEW delta, Adjust(l, delta, started) PROVE Kept
    BY <2>4 DEF Adjust, ExpiredOn, StockTypeOK
  <2> QED
    BY <2>1, <2>2, <2>3, <2>4
<1>4. CASE OrderStep
  <2>1. PICK started \in StartTimes, p \in Orders, lines \in [Levels -> 0..MaxQty],
             scanned \in SUBSET Levels : PlaceOrder(p, lines, scanned, started)
    BY <1>4 DEF OrderStep, CreateOrder, AutoCreateOrder
  <2>2. CASE o = p
    <3>1. order[o] = "none" /\ order'[o] = "pending" /\ \A k \in Holds : k[1] = o => status[k] = "none"
      BY <1>1, <2>1, <2>2 DEF PlaceOrder, StockTypeOK, Story, HoldsOf
    <3>2. \A k \in Holds : k[1] = o => status'[k] # "payment_held"
      BY <2>1, <2>2, <3>1 DEF PlaceOrder, ExpiredOn
    <3> QED
      BY <3>1, <3>2 DEF PaidStates
  <2>3. CASE o # p
    BY <2>1, <2>3 DEF PlaceOrder, ExpiredOn, StockTypeOK
  <2> QED
    BY <2>2, <2>3
<1>5. CASE FulfillmentStep
  <2>1. PICK p \in Orders, ls \in SUBSET Levels : Complete(p, ls)
    BY <1>5 DEF FulfillmentStep
  <2>2. CASE o = p
    BY <2>1, <2>2 DEF Complete, StockTypeOK, PaidStates
  <2>3. CASE o # p
    BY <2>1, <2>3 DEF Complete, StockTypeOK
  <2> QED
    BY <2>2, <2>3
<1>6. CASE Tick
  BY <1>6 DEF Tick
<1> QED
  BY <1>3, <1>4, <1>5, <1>6 DEF Elsewhere

(* Every step is one of module Stock, or changes nothing there.            *)
LEMMA IsStockStep ==
  ASSUME CheckoutTypeOK, StockInv, [CheckoutNext]_vars
  PROVE  [StockNext]_stockVars
<1> USE CheckoutAssumption
<1>1. StockTypeOK /\ pay \in [Payments -> Row]
  BY DEF CheckoutTypeOK
<1>2. ASSUME NEW o \in Orders
      PROVE  Story(o) /\ Matched(o) /\ order[o] \in OrderStatuses
  BY <1>1, StoryOfAll DEF StockInv, StockTypeOK
<1>3. ASSUME Elsewhere PROVE StockNext
  BY <1>3 DEF Elsewhere, StockNext
<1>4. ASSUME NEW p \in Payments, CreateProvider(p) PROVE StockNext
  BY <1>4 DEF CreateProvider, StockNext, PaymentStep
<1>5. ASSUME NEW p \in Payments, CreateDirect(p) PROVE UNCHANGED stockVars
  BY <1>5 DEF CreateDirect
<1>6. ASSUME NEW o \in Orders, NEW started \in StartTimes, CancelsHere(o, started)
      PROVE  StockNext
  <2>1. ~SomeHeld(o)
    BY <1>2, <1>6 DEF CancelsHere, Matched, Awaited
  <2>2. CancelOrder(o, started)
    BY <1>6, <2>1 DEF CancelsHere, CancelOrder, SomeHeld, HoldsOf
  <2> QED
    BY <2>2 DEF StockNext, PaymentStep
<1>7. ASSUME NEW w \in Workers, Ends(w) PROVE StockNext
  <2> DEFINE p == worker[w].pay
             o == PaymentFor[p]
             failed == pay[p].reason = "failure"
  <2>1. p \in Payments /\ o \in Orders
    BY <1>7, WorkerTypes DEF Ends
  <2>2. Awaited(o)
    BY <1>7, <2>1 DEF Ends, Live, Awaited, PaymentsOf
  <2>3. AllHolds(o, "payment_held") /\ order[o] = "pending"
    BY <1>2, <2>1, <2>2, HeldTogether DEF Matched, OrderStatuses, PaidStates
  <2>4. EndPayment(o, failed)
    <3>1. order' = IF failed THEN order ELSE [order EXCEPT ![o] = "cancelled"]
      BY <1>7, <2>3 DEF Ends
    <3>2. \A k \in HoldsOf(o) : status[k] = "payment_held"
      BY <2>3 DEF AllHolds
    <3>3. status' = [k \in Holds |->
             IF k \notin HoldsOf(o) THEN status[k]
             ELSE IF failed /\ expiry[k] > now THEN "active" ELSE GivenUp(k, now)]
      BY <1>7, <3>2 DEF Ends
    <3>4. UNCHANGED <<now, onHand, qty, expiry>>
      BY <1>7 DEF Ends
    <3> QED
      BY <2>3, <3>1, <3>3, <3>4 DEF EndPayment
  <2>5. failed \in BOOLEAN
    OBVIOUS
  <2> QED
    BY <2>1, <2>4, <2>5 DEF StockNext, PaymentStep
<1>8. ASSUME NEW p \in Payments, Pays(p) PROVE StockNext
  BY <1>8 DEF Pays, StockNext, PaymentStep
<1> QED
  BY <1>3, <1>4, <1>5, <1>6, <1>7, <1>8, RowSteps

(* The payment p of order o changes its state, all others keep theirs.     *)
LEMMA OneSettles ==
  ASSUME CheckoutTypeOK, NEW p \in Payments, pay[p].status = "pending",
         OneUnsettled(PaymentFor[p]),
         pay'[p].status \in {"succeeded", "failed", "cancelled"},
         pay'[p].provider = pay[p].provider,
         \A q \in Payments \ {p} : pay'[q] = pay[q]
  PROVE  /\ ~Awaited(PaymentFor[p])' /\ OneUnsettled(PaymentFor[p])'
         /\ PaidFor(PaymentFor[p])' <=> pay'[p].status = "succeeded"
<1> DEFINE o == PaymentFor[p]
<1>1. PaymentsOf(o)' = PaymentsOf(o) /\ p \in PaymentsOf(o)
  BY DEF PaymentsOf
<1>2. \A q \in PaymentsOf(o) \ {p} : pay[q].status \notin {"pending", "succeeded"}
  BY <1>1 DEF OneUnsettled
<1>3. \A q \in PaymentsOf(o) \ {p} : pay'[q].status \notin {"pending", "succeeded"}
  BY <1>2 DEF PaymentsOf
<1> QED
  BY <1>1, <1>3 DEF Awaited, PaidFor, OneUnsettled

(* An order whose own tables and payments a step leaves alone.             *)
LEMMA OtherMatched ==
  ASSUME NEW o \in Orders, Matched(o),
         \A k \in Holds : k[1] = o => status'[k] = status[k],
         order'[o] = order[o],
         \A q \in Payments : PaymentFor[q] = o => pay'[q] = pay[q]
  PROVE  Matched(o)'
<1>1. PaymentsOf(o)' = PaymentsOf(o) /\ \A q \in PaymentsOf(o) : pay'[q] = pay[q]
  BY DEF PaymentsOf
<1>2. SomeHeld(o)' <=> SomeHeld(o)
  BY DEF SomeHeld
<1>3. /\ Awaited(o)' <=> Awaited(o)
      /\ PaidFor(o)' <=> PaidFor(o)
      /\ OneUnsettled(o)' <=> OneUnsettled(o)
  BY <1>1 DEF Awaited, PaidFor, OneUnsettled
<1> QED
  BY <1>2, <1>3 DEF Matched

LEMMA OpensMatched ==
  ASSUME CheckoutTypeOK, StockInv, NEW p \in Payments, NEW o \in Orders,
         CreateProvider(p) \/ CreateDirect(p)
  PROVE  Matched(o)'
<1>1. /\ pay \in [Payments -> Row] /\ Matched(o) /\ Story(o)
      /\ order[o] \in OrderStatuses /\ PaymentFor[p] \in Orders
  BY StoryOfAll, CheckoutAssumption DEF CheckoutTypeOK, StockTypeOK, StockInv
<1>2. /\ pay[p].status = "none" /\ ~Unsettled(PaymentFor[p])
      /\ pay'[p].status = "pending" /\ \A q \in Payments \ {p} : pay'[q] = pay[q]
  BY <1>1 DEF CreateProvider, CreateDirect, NewRow
<1>3. CASE PaymentFor[p] # o
  <2>1. order'[o] = order[o] /\ \A k \in Holds : k[1] = o => status'[k] = status[k]
    BY <1>3 DEF CreateProvider, CreateDirect, HoldForPayment, HoldsOf, stockVars
  <2> QED
    BY <1>1, <1>2, <1>3, <2>1, OtherMatched
<1>4. CASE PaymentFor[p] = o
  <2>1. PaymentsOf(o)' = PaymentsOf(o) \cup {p} /\ p \notin PaymentsOf(o)
    BY <1>2, <1>4 DEF PaymentsOf
  <2>2. \A q \in PaymentsOf(o) : pay'[q].status \notin {"pending", "succeeded"}
    BY <1>2, <1>4, <2>1 DEF Unsettled, PaymentsOf
  <2>3. OneUnsettled(o)' /\ ~PaidFor(o)' /\ (Awaited(o)' <=> pay'[p].provider)
    BY <1>2, <2>1, <2>2 DEF OneUnsettled, PaidFor, Awaited
  <2>4. ~Awaited(o) /\ ~PaidFor(o)
    BY <1>2, <1>4 DEF Unsettled, Awaited, PaidFor
  <2>5. order'[o] = order[o]
    BY DEF CreateProvider, CreateDirect, HoldForPayment, stockVars
  <2>6. ASSUME CreateProvider(p) PROVE SomeHeld(o)' /\ pay'[p].provider
    <3>1. pay'[p].provider
      BY <1>1, <2>6 DEF CreateProvider, NewRow
    <3>2. PICK k \in Holds : k \in HoldsOf(o)
      BY <1>4, <2>6 DEF CreateProvider, HoldForPayment, AllHolds, HoldsOf
    <3>3. k[1] = o /\ status'[k] = "payment_held"
      BY <1>4, <2>6, <3>2 DEF CreateProvider, HoldForPayment, HoldsOf
    <3> QED
      BY <3>1, <3>2, <3>3 DEF SomeHeld
  <2>7. ASSUME CreateDirect(p) PROVE (SomeHeld(o)' <=> SomeHeld(o)) /\ ~pay'[p].provider
    BY <1>1, <2>7 DEF CreateDirect, NewRow, stockVars, SomeHeld
  <2> QED
    BY <1>1, <2>3, <2>4, <2>5, <2>6, <2>7 DEF Matched
<1> QED
  BY <1>3, <1>4

LEMMA CancelsMatched ==
  ASSUME CheckoutTypeOK, StockInv, NEW c \in Orders, NEW o \in Orders,
         NEW started, CancelsHere(c, started)
  PROVE  Matched(o)'
<1>1. /\ pay \in [Payments -> Row] /\ Matched(o) /\ Story(o)
      /\ order \in [Orders -> OrderStatuses]
  BY StoryOfAll DEF CheckoutTypeOK, StockTypeOK, StockInv
<1>2. CASE c # o
  <2>1. order'[o] = order[o] /\ \A k \in Holds : k[1] = o => status'[k] = status[k]
    BY <1>1, <1>2 DEF CancelsHere, CloseOrder
  <2>2. \A q \in Payments : PaymentFor[q] = o => pay'[q] = pay[q]
    BY <1>2 DEF CancelsHere, PaymentsOf
  <2> QED
    BY <1>1, <2>1, <2>2, OtherMatched
<1>3. CASE c = o
  <2>1. ~Awaited(o) /\ ~SomeHeld(o)
    BY <1>1, <1>3 DEF CancelsHere, Awaited, Matched
  <2>2. order'[o] = "cancelled" /\ ~SomeHeld(o)'
    BY <1>1, <1>3, <2>1 DEF CancelsHere, CloseOrder, SomeHeld, GivenUp
  <2>3. \A q \in Payments : PaymentFor[q] = o =>
           pay'[q].status \notin {"pending", "succeeded"}
    <3> SUFFICES ASSUME NEW q \in Payments, PaymentFor[q] = o
                 PROVE  pay'[q].status \notin {"pending", "succeeded"}
      OBVIOUS
    <3>1. pay[q] \in Row
      BY <1>1
    <3>2. CASE q \in {r \in PaymentsOf(o) : pay[r].status = "pending"}
      BY <1>3, <3>1, <3>2 DEF CancelsHere, Row
    <3>3. CASE q \notin {r \in PaymentsOf(o) : pay[r].status = "pending"}
      BY <1>3, <3>1, <3>3 DEF CancelsHere, PaymentsOf
    <3> QED
      BY <3>2, <3>3
  <2>4. ~Awaited(o)' /\ ~PaidFor(o)' /\ OneUnsettled(o)'
    BY <2>3 DEF Awaited, PaidFor, OneUnsettled, PaymentsOf
  <2> QED
    BY <2>2, <2>4 DEF Matched, PaidStates
<1> QED
  BY <1>2, <1>3

LEMMA EndsMatched ==
  ASSUME CheckoutTypeOK, StockInv, NEW w \in Workers, NEW o \in Orders, Ends(w)
  PROVE  Matched(o)'
<1> DEFINE p == worker[w].pay
           failed == pay[p].reason = "failure"
<1>1. /\ pay \in [Payments -> Row] /\ Matched(o)
      /\ order \in [Orders -> OrderStatuses]
      /\ p \in Payments /\ pay[p].status = "pending" /\ pay[p].provider
  BY WorkerTypes DEF CheckoutTypeOK, StockTypeOK, StockInv, Ends, Live
<1>2. /\ pay'[p].status = IF failed THEN "failed" ELSE "cancelled"
      /\ pay'[p].provider = pay[p].provider
      /\ \A q \in Payments \ {p} : pay'[q] = pay[q]
  BY <1>1 DEF Ends, Row
<1>3. CASE PaymentFor[p] # o
  <2>1. order'[o] = order[o] /\ \A k \in Holds : k[1] = o => status'[k] = status[k]
    BY <1>1, <1>3 DEF Ends, HoldsOf
  <2> QED
    BY <1>1, <1>2, <1>3, <2>1, OtherMatched
<1>4. CASE PaymentFor[p] = o
  <2>1. Awaited(o) /\ OneUnsettled(o)
    BY <1>1, <1>4 DEF Awaited, PaymentsOf, Matched
  <2>2. ~PaidFor(o) /\ order[o] \notin PaidStates
    BY <1>1, <1>4, <2>1 DEF PaidFor, OneUnsettled, PaymentsOf, Matched
  <2>3. order'[o] \notin PaidStates
    BY <1>1, <1>4, <2>2 DEF Ends, PaidStates
  <2>4. ~SomeHeld(o)'
    BY <1>4 DEF Ends, SomeHeld, HoldsOf, GivenUp
  <2>5. ~Awaited(o)' /\ OneUnsettled(o)' /\ ~PaidFor(o)'
    <3>1. pay'[p].status \in {"failed", "cancelled"}
      BY <1>2
    <3> QED
      BY <1>1, <1>2, <1>4, <2>1, <3>1, OneSettles
  <2> QED
    BY <2>3, <2>4, <2>5 DEF Matched
<1> QED
  BY <1>3, <1>4

LEMMA PaysMatched ==
  ASSUME CheckoutTypeOK, StockInv, NEW p \in Payments, NEW o \in Orders, Pays(p)
  PROVE  Matched(o)'
<1>1. /\ pay \in [Payments -> Row] /\ Matched(o)
      /\ order \in [Orders -> OrderStatuses]
      /\ pay[p].status = "pending" /\ pay[p].provider
  BY DEF CheckoutTypeOK, StockTypeOK, StockInv, Pays, Live
<1>2. /\ pay'[p].status = "succeeded" /\ pay'[p].provider = pay[p].provider
      /\ \A q \in Payments \ {p} : pay'[q] = pay[q]
  BY <1>1 DEF Pays, Row
<1>3. CASE PaymentFor[p] # o
  <2>1. order'[o] = order[o] /\ \A k \in Holds : k[1] = o => status'[k] = status[k]
    BY <1>1, <1>3 DEF Pays, CommitPayment, HoldsOf
  <2> QED
    BY <1>1, <1>2, <1>3, <2>1, OtherMatched
<1>4. CASE PaymentFor[p] = o
  <2>1. order'[o] = "paid" /\ ~SomeHeld(o)'
    BY <1>1, <1>4 DEF Pays, CommitPayment, SomeHeld, HoldsOf
  <2>2. ~Awaited(o)' /\ OneUnsettled(o)' /\ PaidFor(o)'
    BY <1>1, <1>2, <1>4, OneSettles DEF Matched
  <2> QED
    BY <2>1, <2>2 DEF Matched, PaidStates
<1> QED
  BY <1>3, <1>4

LEMMA StockInvStep ==
  ASSUME CheckoutTypeOK, StockInv, [CheckoutNext]_vars
  PROVE  StockInv'
<1>1. OrderMatchesHolds'
  BY IsStockStep, StoryStep DEF CheckoutTypeOK, StockInv
<1>2. ASSUME NEW o \in Orders PROVE Matched(o)'
  <2>1. Matched(o) /\ StockTypeOK /\ OrderMatchesHolds
    BY DEF StockInv, CheckoutTypeOK
  <2>2. ASSUME RowsKept, UNCHANGED stockVars PROVE Matched(o)'
    BY <2>1, <2>2, RowsKeptMatch DEF Matched, SomeHeld, stockVars
  <2>3. ASSUME RowsKept, Elsewhere PROVE Matched(o)'
    BY <2>1, <2>3, RowsKeptMatch, ElsewhereMatch DEF Matched
  <2> QED
    BY <2>2, <2>3, OpensMatched, CancelsMatched, EndsMatched, PaysMatched, RowSteps
<1> QED
  BY <1>1, <1>2 DEF StockInv

CheckoutInv == CheckoutTypeOK /\ MoneyInv /\ StockInv

LEMMA CheckoutInvariant ==
  CheckoutSpec => []CheckoutInv
<1>1. CheckoutInit => CheckoutInv
  BY CheckoutTypeInit, MoneyInit, StockInvInit DEF CheckoutInv
<1>2. CheckoutInv /\ [CheckoutNext]_vars => CheckoutInv'
  BY CheckoutTypeStep, MoneyStep, StockInvStep DEF CheckoutInv
<1> QED
  BY <1>1, <1>2, PTL DEF CheckoutSpec

(* Orders, payments and reservations agree after every step, although five *)
(* repositories and the provider's events write them in any order          *)
(* (Repository.Create, Cancel, ProcessEvent, ConfirmCancelled).            *)
THEOREM PaymentsMatch ==
  CheckoutSpec => []PaymentMatchesOrder
<1>1. CheckoutInv => PaymentMatchesOrder
  BY MatchedIsProperty DEF CheckoutInv, CheckoutTypeOK
<1> QED
  BY <1>1, CheckoutInvariant, PTL

(* An order is never charged twice: a second intent is not even open while *)
(* the first may still be paid (Repository.Create, CheckoutService).       *)
THEOREM NeverChargedTwice ==
  CheckoutSpec => []OneCharge
<1>1. ASSUME CheckoutInv PROVE OneCharge
  <2> SUFFICES ASSUME NEW p \in Payments, NEW q \in Payments,
                      PaymentFor[p] = PaymentFor[q],
                      intent[p] \in {"open", "processing", "succeeded"},
                      intent[q] \notin {"none", "canceled"}
               PROVE  p = q
    BY DEF OneCharge
  <2>1. ASSUME NEW r \in Payments, intent[r] \notin {"none", "canceled"}
        PROVE  r \in PaymentsOf(PaymentFor[r]) /\ pay[r].status \in {"pending", "succeeded"}
    <3>1. pay[r] \in Row /\ Provided(r)
      BY <1>1, <2>1, RowTypes DEF CheckoutInv, MoneyInv
    <3>2. pay[r].status \notin {"failed", "cancelled"}
      BY <1>1, <2>1, <3>1 DEF CheckoutInv, MoneyInv, ClosedMeansUnpayable
    <3> QED
      BY <3>1, <3>2 DEF Provided, Row, PaymentStatuses, PaymentsOf
  <2>2. OneUnsettled(PaymentFor[p])
    BY <1>1, CheckoutAssumption DEF CheckoutInv, StockInv, Matched
  <2> QED
    BY <2>1, <2>2 DEF OneUnsettled
<1> QED
  BY <1>1, CheckoutInvariant, PTL

(* From the moment a customer can be charged until the provider confirms   *)
(* that he cannot, the order keeps every reservation                       *)
(* (Repository.Create, CheckoutService.advance, ConfirmCancelled).         *)
THEOREM ChargedKeepsStock ==
  CheckoutSpec => []ChargeHasStock
<1>1. ASSUME CheckoutInv PROVE ChargeHasStock
  <2> SUFFICES ASSUME NEW p \in Payments, intent[p] \in {"open", "processing", "succeeded"},
                      NEW k \in HoldsOf(PaymentFor[p])
               PROVE  status[k] \in {"payment_held", "committed", "consumed"}
    BY DEF ChargeHasStock
  <2> DEFINE o == PaymentFor[p]
  <2>1. o \in Orders /\ pay[p] \in Row /\ Provided(p)
    BY <1>1, RowTypes, CheckoutAssumption DEF CheckoutInv, MoneyInv
  <2>2. pay[p].status \in {"pending", "succeeded"} /\ p \in PaymentsOf(o)
    BY <1>1, <2>1 DEF CheckoutInv, MoneyInv, ClosedMeansUnpayable, Provided, Row,
                      PaymentStatuses, PaymentsOf
  <2>3. Matched(o) /\ Story(o) /\ order[o] \in OrderStatuses
    BY <1>1, <2>1, StoryOfAll DEF CheckoutInv, StockInv, CheckoutTypeOK, StockTypeOK
  <2>4. CASE pay[p].status = "pending"
    <3>1. AllHolds(o, "payment_held")
      BY <2>1, <2>2, <2>3, <2>4, HeldTogether DEF Matched, Awaited, Provided
    <3> QED
      BY <3>1 DEF AllHolds
  <2>5. CASE pay[p].status = "succeeded"
    BY <2>1, <2>2, <2>3, <2>5, HeldTogether DEF Matched, PaidFor
  <2> QED
    BY <2>2, <2>4, <2>5
<1> QED
  BY <1>1, CheckoutInvariant, PTL

(* Seen from the stock, payments do nothing but what module Stock allows:  *)
(* what is proved of the stock holds with payments.                        *)
THEOREM CheckoutImplementsStock ==
  CheckoutSpec => ImplementsStock
<1>1. CheckoutInit => StockInit
  BY DEF CheckoutInit
<1>2. CheckoutInv /\ [CheckoutNext]_vars => [StockNext]_stockVars
  BY IsStockStep DEF CheckoutInv
<1> QED
  BY <1>1, <1>2, CheckoutInvariant, PTL DEF CheckoutSpec, ImplementsStock, StockSpec

(* No interleaving with payments, crashes or late events oversells a       *)
(* level, unless an automatic order was decided beyond what is available   *)
(* (inventory.Repository, order.Repository, payment.Repository).           *)
THEOREM CheckoutNeverOversells ==
  CheckoutSpec /\ AutoOrdersFit => []NoOversell
BY CheckoutImplementsStock, StockNeverOversold, PTL DEF ImplementsStock

(* With one product, or one warehouse, every promise is kept with payments *)
(* as well, automatic orders included, and no level is oversold.           *)
THEOREM UnsplitCheckoutIsSafe ==
  (OneProduct \/ OneWarehouse) /\ CheckoutSpec => []NoOversell /\ ImplementsLedger
BY CheckoutImplementsStock, UnsplitStockIsSafe, PTL DEF ImplementsStock
=============================================================================
