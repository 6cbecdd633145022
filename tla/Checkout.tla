------------------------------ MODULE Checkout -----------------------------
(***************************************************************************)
(* Provider payments: how a payment row, the provider's payment intent,    *)
(* the provider's events and the order's reservations are kept together    *)
(* although no transaction spans the database and the provider.            *)
(*                                                                         *)
(* A worker is one run of CheckoutService.advance: on behalf of a checkout *)
(* request or of the reconciliation timer, in any API instance.  It is a   *)
(* sequence of short transactions and provider calls, remembers what it    *)
(* was told in between, and may die at any point.  Every transaction takes *)
(* the locks of the whole aggregate (levels, order, payments,              *)
(* reservations), so it is one step.                                       *)
(*                                                                         *)
(* The provider is external: a payment intent that the customer pays or    *)
(* fails to pay, calls whose answer may be lost, and events delivered at   *)
(* least once, late and in any order.                                      *)
(***************************************************************************)
EXTENDS Stock

CONSTANTS
    Payments,       \* payments, each named by its idempotency key
    PaymentFor,     \* the order a payment is for
    Workers,        \* concurrent runs of advance
    CheckoutTTL,    \* time the customer has to pay
    InitWindow,     \* time during which a create call may be retried
    EventRetention, \* age at which an event nobody owns is quarantined
    MaxReconcile,   \* attempts after which a payment needs attention
    MaxCrashes,     \* bound on the number of crashes
    Verdicts        \* whether provider data may disagree with the payment

ASSUME CheckoutAssumption ==
    /\ PaymentFor \in [Payments -> Orders]
    /\ CheckoutTTL \in Nat /\ InitWindow \in Nat /\ EventRetention \in Nat
    /\ CheckoutTTL <= InitWindow /\ InitWindow <= EventRetention
    /\ MaxReconcile \in Nat /\ MaxCrashes \in Nat
    /\ TRUE \in Verdicts /\ Verdicts \subseteq BOOLEAN

PaymentStatuses == {"none", "pending", "succeeded", "failed", "cancelled"}
Reasons         == {"none", "customer", "deadline", "failure", "manual_attention"}
Intents         == {"none", "open", "processing", "succeeded", "canceled"}
EventTypes      == {"succeeded", "failed", "canceled"}
Outcomes        == {"none", "sent", "pending", "processed", "ignored", "quarantined"}
Stages          == {"idle", "attention", "request", "bind", "recheck",
                    "confirm", "cancel", "schedule"}

VARIABLES
    pay,             \* the payments table
    cancelRequested, \* orders.cancel_requested_at is set
    event,           \* the provider's events; "sent": not accepted yet
    intent,          \* the provider's payment intents
    worker,          \* what each worker does next, and what it was told
    crashes          \* how many workers have died

checkoutVars == <<pay, cancelRequested, event, intent, worker, crashes>>
vars         == <<stockVars, checkoutVars>>

Row == [status: PaymentStatuses, provider: BOOLEAN, bound: BOOLEAN,
        cancel: BOOLEAN, reason: Reasons, attention: BOOLEAN,
        attempts: 0..MaxReconcile, opened: 0..MaxTime]

NewRow(state, provider, at) ==
    [status |-> state, provider |-> provider, bound |-> FALSE, cancel |-> FALSE,
     reason |-> "none", attention |-> FALSE, attempts |-> 0, opened |-> at]
NoRow == NewRow("none", FALSE, 0)

Idle == [at |-> "idle"]
At(stage, p, told) == [at |-> stage, pay |-> p, told |-> told]

CheckoutTypeOK ==
    /\ StockTypeOK
    /\ pay \in [Payments -> Row]
    /\ cancelRequested \in [Orders -> BOOLEAN]
    /\ event \in [Payments \X EventTypes -> Outcomes]
    /\ intent \in [Payments -> Intents]
    /\ worker \in [Workers -> {Idle} \cup
                     [at: Stages \ {"idle"}, pay: Payments, told: Intents]]
    /\ crashes \in 0..MaxCrashes

PaymentsOf(o) == {p \in Payments : PaymentFor[p] = o /\ pay[p].status # "none"}
Unsettled(o)  == \E p \in PaymentsOf(o) : pay[p].status \in {"pending", "succeeded"}

(* A payment that reconciliation may still move.                           *)
Live(row) == row.status = "pending" /\ row.provider /\ ~row.attention

Attended(row) == [row EXCEPT !.attention = TRUE, !.reason = "manual_attention"]

CheckoutInit ==
    /\ StockInit
    /\ pay = [p \in Payments |-> NoRow]
    /\ cancelRequested = [o \in Orders |-> FALSE]
    /\ event = [e \in Payments \X EventTypes |-> "none"]
    /\ intent = [p \in Payments |-> "none"]
    /\ worker = [w \in Workers |-> Idle]
    /\ crashes = 0

-----------------------------------------------------------------------------
(* Payments are opened.  A key that exists already is replayed unchanged.  *)

CreateProvider(p) ==
    LET o == PaymentFor[p]
    IN  /\ pay[p].status = "none"
        /\ ~cancelRequested[o]
        /\ ~Unsettled(o)
        /\ HoldForPayment(o)
        /\ pay' = [pay EXCEPT ![p] = NewRow("pending", TRUE, now)]
        /\ UNCHANGED <<cancelRequested, event, intent, worker, crashes>>

(* The older endpoint records a payment that no provider ever settles.     *)
CreateDirect(p) ==
    LET o == PaymentFor[p]
    IN  /\ pay[p].status = "none"
        /\ order[o] \notin {"none", "cancelled"}
        /\ AllHolds(o, "active") /\ \A k \in HoldsOf(o) : expiry[k] > now
        /\ ~Unsettled(o)
        /\ pay' = [pay EXCEPT ![p] = NewRow("pending", FALSE, 0)]
        /\ UNCHANGED <<stockVars, cancelRequested, event, intent, worker, crashes>>

(* Faulty: only a payment whose intent is known counts as the provider's.  *)
CancelUnlessBound(o, started) ==
    LET pending == {p \in PaymentsOf(o) : pay[p].status = "pending"}
        providerBacked == \E p \in PaymentsOf(o) : pay[p].bound
    IN  /\ order[o] = "pending"
        /\ \A p \in PaymentsOf(o) : pay[p].status # "succeeded"
        /\ \/ /\ providerBacked
              /\ pay' = [p \in Payments |->
                    IF p \in pending
                    THEN [pay[p] EXCEPT !.cancel = TRUE, !.reason = "customer"]
                    ELSE pay[p]]
              /\ cancelRequested' = [cancelRequested EXCEPT ![o] = TRUE]
              /\ UNCHANGED stockVars
           \/ /\ ~providerBacked
              /\ pay' = [p \in Payments |->
                    IF p \in pending THEN [pay[p] EXCEPT !.status = "cancelled"]
                    ELSE pay[p]]
              /\ CloseOrder(o, started)
              /\ UNCHANGED cancelRequested
        /\ UNCHANGED <<event, intent, worker, crashes>>

(* An order that any provider payment was ever opened for is not cancelled *)
(* here: the request is recorded for reconciliation to carry out.          *)
Cancel(o, started) ==
    LET pending == {p \in PaymentsOf(o) : pay[p].status = "pending"}
        providerBacked == \E p \in PaymentsOf(o) : pay[p].provider
    IN  /\ order[o] = "pending"
        /\ \A p \in PaymentsOf(o) : pay[p].status # "succeeded"
        /\ \/ /\ providerBacked
              /\ pay' = [p \in Payments |->
                    IF p \in pending
                    THEN [pay[p] EXCEPT !.cancel = TRUE, !.reason = "customer"]
                    ELSE pay[p]]
              /\ cancelRequested' = [cancelRequested EXCEPT ![o] = TRUE]
              /\ UNCHANGED stockVars
           \/ /\ ~providerBacked
              /\ pay' = [p \in Payments |->
                    IF p \in pending THEN [pay[p] EXCEPT !.status = "cancelled"]
                    ELSE pay[p]]
              /\ CloseOrder(o, started)
              /\ UNCHANGED cancelRequested
        /\ UNCHANGED <<event, intent, worker, crashes>>

-----------------------------------------------------------------------------
(* One run of advance.                                                     *)

(* Repository.Prepare: a payment past its deadline, or whose order is to   *)
(* be cancelled, is marked for cancellation.                               *)
Prepared(p) ==
    LET asked == cancelRequested[PaymentFor[p]]
        due   == pay[p].opened + CheckoutTTL <= now
    IN  IF Live(pay[p]) /\ (due \/ asked)
        THEN [pay[p] EXCEPT !.cancel = TRUE,
                !.reason = IF @ = "failure" THEN "failure"
                           ELSE IF asked THEN "customer" ELSE "deadline"]
        ELSE pay[p]

(* The first Prepare.  A payment no longer live ends the run at once; one  *)
(* opened in another provider environment, or left without an intent for   *)
(* too long, is handed to an operator.                                     *)
Begin(w, p) ==
    /\ worker[w] = Idle
    /\ Live(pay[p])
    /\ pay' = [pay EXCEPT ![p] = Prepared(p)]
    /\ \E sameEnvironment \in Verdicts :
          worker' = [worker EXCEPT ![w] =
             IF ~sameEnvironment \/ (~pay[p].bound /\ now - pay[p].opened >= InitWindow)
             THEN At("attention", p, "none")
             ELSE At("request", p, IF pay[p].bound THEN "open" ELSE "none")]
    /\ UNCHANGED <<stockVars, cancelRequested, event, intent, crashes>>

MarkAttention(w) ==
    /\ worker[w].at = "attention"
    /\ pay' = [pay EXCEPT ![worker[w].pay] = Attended(@)]
    /\ worker' = [worker EXCEPT ![w] = Idle]
    /\ UNCHANGED <<stockVars, cancelRequested, event, intent, crashes>>

(* The worker knew no intent: create one, or replay an earlier create      *)
(* call, which answers as it did then.  Otherwise ask for its state.  The  *)
(* answer, or the call itself, may be lost.                                *)
Request(w) ==
    LET p == worker[w].pay
        create == worker[w].told = "none"
    IN  /\ worker[w].at = "request"
        /\ \/ /\ intent' = IF create /\ intent[p] = "none"
                           THEN [intent EXCEPT ![p] = "open"] ELSE intent
              /\ \/ worker' = [worker EXCEPT ![w] =
                       At("bind", p, IF create THEN "open" ELSE intent[p])]
                 \/ worker' = [worker EXCEPT ![w] = At("schedule", p, "none")]
           \/ /\ worker' = [worker EXCEPT ![w] = At("schedule", p, "none")]
              /\ UNCHANGED intent
        /\ UNCHANGED <<stockVars, pay, cancelRequested, event, crashes>>

(* Faulty: a late answer is recorded without looking at what happened      *)
(* since the call was made.                                                *)
BindStale(w) ==
    LET p == worker[w].pay
    IN  /\ worker[w].at = "bind"
        /\ \E matches \in Verdicts :
              /\ pay' = [pay EXCEPT ![p] =
                    IF ~matches THEN Attended(@)
                    ELSE [@ EXCEPT !.bound = TRUE, !.status = "pending"]]
              /\ worker' = [worker EXCEPT ![w].at = "recheck"]
        /\ UNCHANGED <<stockVars, cancelRequested, event, intent, crashes>>

(* The intent is recorded on the payment, unless it is not the one the     *)
(* payment asked for.                                                      *)
Bind(w) ==
    LET p == worker[w].pay
    IN  /\ worker[w].at = "bind"
        /\ \E matches \in Verdicts :
              /\ pay' = [pay EXCEPT ![p] =
                    IF ~matches THEN Attended(@)
                    ELSE IF @.status = "pending" THEN [@ EXCEPT !.bound = TRUE]
                    ELSE @]
              /\ worker' = [worker EXCEPT ![w].at = "recheck"]
        /\ UNCHANGED <<stockVars, cancelRequested, event, intent, crashes>>

(* Faulty: a payment that is to be cancelled is closed at once, without    *)
(* asking the provider to cancel its intent.                               *)
RecheckLocally(w) ==
    LET p == worker[w].pay
        told == worker[w].told
        row == Prepared(p)
    IN  /\ worker[w].at = "recheck"
        /\ pay' = [pay EXCEPT ![p] = row]
        /\ worker' = [worker EXCEPT ![w] =
              IF ~Live(row) THEN Idle
              ELSE IF told = "canceled" \/ row.cancel THEN At("confirm", p, "none")
              ELSE At("schedule", p, "none")]
        /\ UNCHANGED <<stockVars, cancelRequested, event, intent, crashes>>

(* The second Prepare, after the network call: what to do about the intent *)
(* as it was then.                                                         *)
Recheck(w) ==
    LET p == worker[w].pay
        told == worker[w].told
        row == Prepared(p)
    IN  /\ worker[w].at = "recheck"
        /\ pay' = [pay EXCEPT ![p] = row]
        /\ worker' = [worker EXCEPT ![w] =
              IF ~Live(row) THEN Idle
              ELSE IF told = "canceled" THEN At("confirm", p, "none")
              ELSE IF row.cancel /\ told # "succeeded" THEN At("cancel", p, "none")
              ELSE At("schedule", p, "none")]
        /\ UNCHANGED <<stockVars, cancelRequested, event, intent, crashes>>

Emit(p, type) == event' = [event EXCEPT ![<<p, type>>] = IF @ = "none" THEN "sent" ELSE @]

(* Faulty: a cancellation call that failed is taken for one that worked.   *)
CancelIntentAssumed(w) ==
    LET p == worker[w].pay
        done == intent[p] \in {"open", "canceled"}
    IN  /\ worker[w].at = "cancel"
        /\ \/ /\ done
              /\ intent' = [intent EXCEPT ![p] = "canceled"]
              /\ Emit(p, "canceled")
           \/ UNCHANGED <<intent, event>>
        /\ worker' = [worker EXCEPT ![w] = At("confirm", p, "none")]
        /\ UNCHANGED <<stockVars, pay, cancelRequested, crashes>>

(* The provider cancels an intent that is still open, and says so again if *)
(* asked again; the answer may be lost, the call may fail.                 *)
CancelIntent(w) ==
    LET p == worker[w].pay
        done == intent[p] \in {"open", "canceled"}
    IN  /\ worker[w].at = "cancel"
        /\ \/ /\ done
              /\ intent' = [intent EXCEPT ![p] = "canceled"]
              /\ Emit(p, "canceled")
              /\ \/ worker' = [worker EXCEPT ![w] = At("confirm", p, "none")]
                 \/ worker' = [worker EXCEPT ![w] = At("schedule", p, "none")]
           \/ /\ worker' = [worker EXCEPT ![w] = At("schedule", p, "none")]
              /\ UNCHANGED <<intent, event>>
        /\ UNCHANGED <<stockVars, pay, cancelRequested, crashes>>

(* Faulty: after a failed payment the order takes everything back, lapsed  *)
(* or not.                                                                 *)
ConfirmRevives(w) ==
    LET p == worker[w].pay
        o == PaymentFor[p]
        failed == pay[p].reason = "failure"
    IN  /\ worker[w].at = "confirm"
        /\ Live(pay[p])
        /\ pay' = [pay EXCEPT ![p].status = IF failed THEN "failed" ELSE "cancelled"]
        /\ status' = [k \in Holds |->
              IF k \notin HoldsOf(o) \/ status[k] # "payment_held" THEN status[k]
              ELSE IF failed THEN "active" ELSE GivenUp(k, now)]
        /\ order' = IF failed THEN order ELSE [order EXCEPT ![o] = "cancelled"]
        /\ worker' = [worker EXCEPT ![w] = Idle]
        /\ UNCHANGED <<now, onHand, qty, expiry, cancelRequested, event, intent, crashes>>

(* The provider said that the intent is cancelled: the payment ends, and   *)
(* the order gives up or takes back what the payment held.                 *)
ConfirmCancelled(w) ==
    LET p == worker[w].pay
        o == PaymentFor[p]
        failed == pay[p].reason = "failure"
    IN  /\ worker[w].at = "confirm"
        /\ \E matches \in Verdicts :
              \/ /\ ~matches
                 /\ pay' = [pay EXCEPT ![p] = Attended(@)]
                 /\ UNCHANGED stockVars
              \/ /\ matches /\ ~Live(pay[p])
                 /\ UNCHANGED <<pay, stockVars>>
              \/ /\ matches /\ Live(pay[p])
                 /\ pay' = [pay EXCEPT ![p].status =
                               IF failed THEN "failed" ELSE "cancelled"]
                 /\ status' = [k \in Holds |->
                       IF k \notin HoldsOf(o) \/ status[k] # "payment_held" THEN status[k]
                       ELSE IF failed /\ expiry[k] > now THEN "active"
                       ELSE GivenUp(k, now)]
                 /\ order' = IF failed \/ order[o] # "pending" THEN order
                             ELSE [order EXCEPT ![o] = "cancelled"]
                 /\ UNCHANGED <<now, onHand, qty, expiry>>
        /\ worker' = [worker EXCEPT ![w] = Idle]
        /\ UNCHANGED <<cancelRequested, event, intent, crashes>>

(* Faulty: attempts are counted but never run out.                         *)
ScheduleUncounted(w) ==
    LET p == worker[w].pay
    IN  /\ worker[w].at = "schedule"
        /\ pay' = [pay EXCEPT ![p] =
              IF ~Live(@) THEN @ ELSE [@ EXCEPT !.attempts = @ + 1]]
        /\ worker' = [worker EXCEPT ![w] = Idle]
        /\ UNCHANGED <<stockVars, cancelRequested, event, intent, crashes>>

(* Faulty: after the last attempt the payment is simply tried again.       *)
ScheduleForEver(w) ==
    LET p == worker[w].pay
    IN  /\ worker[w].at = "schedule"
        /\ pay' = [pay EXCEPT ![p] =
              IF Live(@) /\ @.attempts < MaxReconcile
              THEN [@ EXCEPT !.attempts = @ + 1] ELSE @]
        /\ worker' = [worker EXCEPT ![w] = Idle]
        /\ UNCHANGED <<stockVars, cancelRequested, event, intent, crashes>>

(* Try again later, but not for ever.                                      *)
Rescheduled(row) ==
    IF ~Live(row) THEN row
    ELSE IF row.attempts >= MaxReconcile THEN Attended(row)
    ELSE [row EXCEPT !.attempts = row.attempts + 1]

Schedule(w) ==
    LET p == worker[w].pay
    IN  /\ worker[w].at = "schedule"
        /\ pay' = [pay EXCEPT ![p] = Rescheduled(@)]
        /\ worker' = [worker EXCEPT ![w] = Idle]
        /\ UNCHANGED <<stockVars, cancelRequested, event, intent, crashes>>

Crash(w) ==
    /\ worker[w] # Idle /\ crashes < MaxCrashes
    /\ worker' = [worker EXCEPT ![w] = Idle]
    /\ crashes' = crashes + 1
    /\ UNCHANGED <<stockVars, pay, cancelRequested, event, intent>>

-----------------------------------------------------------------------------
(* Events.                                                                 *)

(* The webhook stores an event once, however often it is delivered.        *)
AcceptEvent(e) ==
    /\ event[e] = "sent"
    /\ event' = [event EXCEPT ![e] = "pending"]
    /\ UNCHANGED <<stockVars, pay, cancelRequested, intent, worker, crashes>>

(* An event whose payment is not bound yet waits, but not for ever.        *)
ExpireEvent(e) ==
    /\ event[e] = "pending"
    /\ ~pay[e[1]].bound
    /\ now - pay[e[1]].opened > EventRetention
    /\ event' = [event EXCEPT ![e] = "quarantined"]
    /\ UNCHANGED <<stockVars, pay, cancelRequested, intent, worker, crashes>>

Finish(e, outcome) == event' = [event EXCEPT ![e] = outcome]

Quarantine(e) ==
    /\ Finish(e, "quarantined")
    /\ pay' = [pay EXCEPT ![e[1]] = Attended(@)]
    /\ UNCHANGED stockVars

(* Faulty: an event for a payment in the hands of an operator is dropped.  *)
ProcessEventDropsAttended(e) ==
    LET p == e[1]
        o == PaymentFor[p]
        row == pay[p]
        success == e[2] = "succeeded"
    IN  /\ event[e] = "pending"
        /\ row.bound
        /\ \/ /\ ~Live(row)
              /\ Finish(e, "ignored") /\ UNCHANGED <<pay, stockVars>>
           \/ /\ Live(row) /\ success
              /\ pay' = [pay EXCEPT ![p].status = "succeeded"]
              /\ CommitPayment(o)
              /\ Finish(e, "processed")
           \/ /\ Live(row) /\ ~success
              /\ pay' = [pay EXCEPT ![p].cancel = TRUE]
              /\ Finish(e, "processed") /\ UNCHANGED stockVars
        /\ UNCHANGED <<cancelRequested, intent, worker, crashes>>

(* Faulty: when payment and cancellation race, the cancellation wins.      *)
ProcessEventCancelWins(e) ==
    LET p == e[1]
        o == PaymentFor[p]
        row == pay[p]
        success == e[2] = "succeeded"
    IN  /\ event[e] = "pending"
        /\ row.bound
        /\ \/ /\ ~Live(row)
              /\ Quarantine(e)
           \/ /\ Live(row) /\ success
              /\ pay' = [pay EXCEPT ![p].status =
                            IF row.cancel THEN "cancelled" ELSE "succeeded"]
              /\ IF row.cancel THEN EndPayment(o, FALSE) ELSE CommitPayment(o)
              /\ Finish(e, "processed")
           \/ /\ Live(row) /\ ~success
              /\ pay' = [pay EXCEPT ![p].cancel = TRUE]
              /\ Finish(e, "processed") /\ UNCHANGED stockVars
        /\ UNCHANGED <<cancelRequested, intent, worker, crashes>>

ProcessEvent(e) ==
    LET p == e[1]
        o == PaymentFor[p]
        row == pay[p]
        success == e[2] = "succeeded"
        payable == order[o] = "pending" /\ AllHolds(o, "payment_held")
        reason == IF row.reason # "none" THEN row.reason
                  ELSE IF e[2] = "failed" THEN "failure" ELSE "customer"
    IN  /\ event[e] = "pending"
        /\ row.bound
        /\ \E matches \in Verdicts :
              \/ /\ ~matches
                 /\ Quarantine(e)
              \/ /\ matches /\ row.status # "pending"
                 /\ IF success /\ row.status # "succeeded" THEN Quarantine(e)
                    ELSE Finish(e, "ignored") /\ UNCHANGED <<pay, stockVars>>
              \/ /\ matches /\ row.status = "pending" /\ row.attention
                 /\ Finish(e, "quarantined") /\ UNCHANGED <<pay, stockVars>>
              \/ /\ matches /\ Live(row) /\ success /\ ~payable
                 /\ Quarantine(e)
              \/ /\ matches /\ Live(row) /\ success /\ payable
                 /\ pay' = [pay EXCEPT ![p].status = "succeeded"]
                 /\ CommitPayment(o)
                 /\ Finish(e, "processed")
              \/ /\ matches /\ Live(row) /\ ~success
                 /\ pay' = [pay EXCEPT ![p] = [row EXCEPT !.cancel = TRUE, !.reason = reason]]
                 /\ Finish(e, "processed") /\ UNCHANGED stockVars
        /\ UNCHANGED <<cancelRequested, intent, worker, crashes>>

-----------------------------------------------------------------------------
(* The provider and its customer.                                          *)

CustomerPays(p) ==
    /\ intent[p] \in {"open", "processing"}
    /\ \/ /\ intent' = [intent EXCEPT ![p] = "succeeded"]
          /\ Emit(p, "succeeded")
       \/ /\ intent[p] = "open"
          /\ intent' = [intent EXCEPT ![p] = "processing"]
          /\ UNCHANGED event
    /\ UNCHANGED <<stockVars, pay, cancelRequested, worker, crashes>>

CustomerFails(p) ==
    /\ intent[p] \in {"open", "processing"}
    /\ intent' = [intent EXCEPT ![p] = "open"]
    /\ Emit(p, "failed")
    /\ UNCHANGED <<stockVars, pay, cancelRequested, worker, crashes>>

(* Somebody cancels the intent in the provider's own console.              *)
ConsoleCancels(p) ==
    /\ intent[p] = "open"
    /\ intent' = [intent EXCEPT ![p] = "canceled"]
    /\ Emit(p, "canceled")
    /\ UNCHANGED <<stockVars, pay, cancelRequested, worker, crashes>>

-----------------------------------------------------------------------------
Advance(w) ==
    \/ MarkAttention(w) \/ Request(w) \/ Bind(w) \/ Recheck(w)
    \/ CancelIntent(w) \/ ConfirmCancelled(w) \/ Schedule(w)

Opening ==
    \/ \E p \in Payments : CreateProvider(p) \/ CreateDirect(p)
    \/ \E o \in Orders, started \in StartTimes : Cancel(o, started)

Provider ==
    \E p \in Payments : CustomerPays(p) \/ CustomerFails(p) \/ ConsoleCancels(p)

EventStep ==
    \E e \in Payments \X EventTypes : AcceptEvent(e) \/ ExpireEvent(e) \/ ProcessEvent(e)

WorkerStep ==
    \E w \in Workers : (\E p \in Payments : Begin(w, p)) \/ Advance(w) \/ Crash(w)

(* The rest of the application goes on meanwhile.                          *)
Elsewhere ==
    /\ InventoryStep \/ OrderStep \/ FulfillmentStep \/ Tick
    /\ UNCHANGED checkoutVars

CheckoutNext == Opening \/ WorkerStep \/ EventStep \/ Provider \/ Elsewhere

CheckoutSpec == CheckoutInit /\ [][CheckoutNext]_vars

(* The reconciliation timer and the event loop run for ever, a started run *)
(* goes on unless it crashes (and crashes are rare), and the provider      *)
(* delivers the events it has promised.                                    *)
Fairness ==
    /\ WF_vars(\E w \in Workers, p \in Payments : Begin(w, p))
    /\ \A w \in Workers : WF_vars(Advance(w))
    /\ \A e \in Payments \X EventTypes : WF_vars(AcceptEvent(e)) /\ WF_vars(ProcessEvent(e))
    /\ WF_vars(Tick /\ UNCHANGED checkoutVars)

FairCheckoutSpec == CheckoutSpec /\ Fairness
-----------------------------------------------------------------------------
(* Safety.                                                                 *)

Provided(p) == pay[p].status # "none" /\ pay[p].provider

(* Whoever may still be charged, or has been, gets the goods: from the     *)
(* moment an intent exists until the provider has confirmed that it is     *)
(* cancelled, the order keeps every reservation, whatever request, lapse,  *)
(* cancellation, retry or stale answer comes in between.                   *)
ChargeHasStock ==
    \A p \in Payments :
        intent[p] \in {"open", "processing", "succeeded"} =>
            \A k \in HoldsOf(PaymentFor[p]) :
                status[k] \in {"payment_held", "committed", "consumed"}

(* An order is never charged twice, and a second intent is not even open   *)
(* while the first may still be paid.                                      *)
OneCharge ==
    \A p, q \in Payments :
        /\ p # q /\ PaymentFor[p] = PaymentFor[q]
        /\ intent[p] \in {"open", "processing", "succeeded"}
        => intent[q] \in {"none", "canceled"}

(* A payment row is closed only when the provider can no longer charge it, *)
(* and succeeds only when it was charged.                                  *)
ClosedMeansUnpayable ==
    \A p \in Payments :
        /\ Provided(p) /\ pay[p].status \in {"failed", "cancelled"} => intent[p] = "canceled"
        /\ pay[p].status = "succeeded" => intent[p] = "succeeded"

(* Orders, payments and reservations agree: stock is held for a payment    *)
(* exactly while one provider payment of the order is pending, and an      *)
(* order is paid exactly when one of its payments succeeded.               *)
PaymentMatchesOrder ==
    \A o \in Orders :
        /\ AllHolds(o, "payment_held") <=>
              \E p \in PaymentsOf(o) : pay[p].status = "pending" /\ pay[p].provider
        /\ order[o] \in {"paid", "partially_fulfilled", "fulfilled"} <=>
              \E p \in PaymentsOf(o) : pay[p].status = "succeeded"
        /\ \A p, q \in PaymentsOf(o) :
              {pay[p].status, pay[q].status} \subseteq {"pending", "succeeded"} => p = q

(* An event that was taken as done has had its effect.                     *)
SuccessIsBooked ==
    \A p \in Payments :
        event[<<p, "succeeded">>] \in {"processed", "ignored"} => pay[p].status = "succeeded"

(* "Stale responses cannot regress terminal states"                        *)
(* (checkout_repository.go:177): no late answer, replay or event reopens a *)
(* payment or turns one outcome into another.                              *)
TerminalIsFinal ==
    [][\A p \in Payments :
          pay[p].status \in {"succeeded", "failed", "cancelled"} =>
              pay'[p].status = pay[p].status]_vars

(* Seen from the stock, payments do nothing but what module Stock allows.  *)
ImplementsStock == StockSpec

-----------------------------------------------------------------------------
(* Liveness.                                                               *)

(* Money the provider took is never forgotten: it pays the order, or an    *)
(* operator is told.                                                       *)
ChargeIsBooked ==
    \A p \in Payments :
        intent[p] = "succeeded" ~> pay[p].status = "succeeded" \/ pay[p].attention

(* A checkout never hangs: its stock is sold, given back, or an operator   *)
(* is told, although every provider call may fail.                         *)
CheckoutEnds ==
    \A p \in Payments :
        Live(pay[p]) ~> ~Live(pay[p])

(* An accepted cancellation is carried out: the order leaves "pending", or *)
(* one of its payments needs attention ("Finally it marks the order        *)
(* cancelled", docs/orders.md).                                            *)
CancelCompletes ==
    \A o \in Orders :
        cancelRequested[o] ~>
            order[o] # "pending" \/ \E p \in PaymentsOf(o) : pay[p].attention
=============================================================================
