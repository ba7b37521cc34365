-------------------------- MODULE EcommercePayments --------------------------
(***************************************************************************)
(* Provider payments of orders: the webhook handlers                       *)
(* (ecommerce-stripe/src/http/webhook.rs), the confirmation claim          *)
(* (ecommerce-paypal/src/lib.rs, ecommerce-base/src/lib.rs, store.rs), the *)
(* operators' repairs from provider evidence (reconciliation.rs,           *)
(* cancellation.rs) and, through OrderInventory, the orders they pay.  The *)
(* inventory worker changes nothing that is read here: its steps are left  *)
(* to OrderInventory, whose specification this one implements.             *)
(*                                                                         *)
(* A handler serves one delivery.  It holds two advisory locks, each by a  *)
(* transaction of a separate connection, while every store call it makes   *)
(* is a transaction of its own: a lock that goes with its connection does  *)
(* not stop the handler.  A delivery that waits for a lock in vain changes *)
(* nothing and is not an action.  The provider (external) sends each event *)
(* any number of times once it has happened.                               *)
(***************************************************************************)
EXTENDS OrderInventory

CONSTANTS
  Payment, OrderOf,
  Paypal,      \* the payments made with PayPal, the others with Stripe
  Mismatched,  \* payments whose events carry another amount or currency
  Handler, Nobody,
  MaxFaults    \* bound on crashes and lost locks

ASSUME PaymentAssumption ==
  /\ OrderOf \in [Payment -> Order]
  /\ "paid" \in Target
  /\ Paypal \subseteq Payment
  /\ Mismatched \subseteq Payment
  /\ Nobody \notin Handler
  /\ MaxFaults \in Nat

VARIABLES
  status,        \* the payment records
  captureAudit,  \* payments in payment_reconciliation_audit
  cancelAudit,   \* payments in payment_cancellation_audit
  processed,     \* webhook events marked processed
  eventLock, paymentLock, \* holders of the advisory locks
  pc, serving,   \* where each handler is, and in which delivery
  inspected,     \* the operator's reading of a payment, or Nobody
  charge,        \* the provider's side of each payment
  sent,          \* events that happened at the provider
  faults,        \* crashes and lost locks so far
  interrupted    \* history: payments a fault struck about their claim

paymentVars == <<status, captureAudit, cancelAudit, processed, eventLock, paymentLock,
                 pc, serving, inspected, charge, sent, faults, interrupted>>
vars == <<orderVars, paymentVars>>

\* payment_intent.succeeded and CHECKOUT.ORDER.APPROVED confirm a payment,
\* payment_intent.payment_failed and PAYMENT.CAPTURE.DENIED fail it.
WebhookEvent == [payment : Payment, kind : {"confirm", "fail"}]
NoDelivery == [payment |-> Nobody, kind |-> Nobody]

Step == {"idle", "begun", "guarded", "capture", "release", "confirm", "read", "paid", "mark"}

TypeOK ==
  /\ OrderTypeOK
  /\ status \in [Payment -> {"none", "pending", "succeeded", "failed"}]
  /\ captureAudit \subseteq Payment
  /\ cancelAudit \subseteq Payment
  /\ processed \subseteq WebhookEvent
  /\ eventLock \in [WebhookEvent -> Handler \cup {Nobody}]
  /\ paymentLock \in [Payment -> Handler \cup {Nobody}]
  /\ pc \in [Handler -> Step]
  /\ serving \in [Handler -> WebhookEvent \cup {NoDelivery}]
  /\ inspected \in [payment : Payment, current : BOOLEAN] \cup {Nobody}
  /\ charge \in [Payment -> {"none", "created", "approved", "denied", "captured", "voided"}]
  /\ sent \subseteq WebhookEvent
  /\ faults \in 0 .. MaxFaults
  /\ interrupted \subseteq Payment

Init ==
  /\ OrderInit
  /\ status = [p \in Payment |-> "none"]
  /\ captureAudit = {} /\ cancelAudit = {} /\ processed = {}
  /\ eventLock = [e \in WebhookEvent |-> Nobody]
  /\ paymentLock = [p \in Payment |-> Nobody]
  /\ pc = [h \in Handler |-> "idle"]
  /\ serving = [h \in Handler |-> NoDelivery]
  /\ inspected = Nobody
  /\ charge = [p \in Payment |-> "none"]
  /\ sent = {}
  /\ faults = 0
  /\ interrupted = {}

-----------------------------------------------------------------------------
Subject(h) == serving[h].payment

Without(lock, h) == [x \in DOMAIN lock |-> IF lock[x] = h THEN Nobody ELSE lock[x]]

\* A write touches updated_at, so that a reading made before it is stale.
Written(p, new) ==
  /\ status' = [status EXCEPT ![p] = new]
  /\ inspected' = IF inspected # Nobody /\ inspected.payment = p
                  THEN [inspected EXCEPT !.current = FALSE] ELSE inspected

Goto(h, step) == pc' = [pc EXCEPT ![h] = step]

\* The delivery ends: both guards are dropped.
Leave(h) ==
  /\ Goto(h, "idle")
  /\ serving' = [serving EXCEPT ![h] = NoDelivery]
  /\ eventLock' = Without(eventLock, h)
  /\ paymentLock' = Without(paymentLock, h)

\* process_stripe or process_paypal has succeeded and drops the payment's guard.
Processed(h) ==
  /\ Goto(h, "mark")
  /\ paymentLock' = Without(paymentLock, h)
  /\ UNCHANGED <<serving, eventLock>>

Continue(h, step) == Goto(h, step) /\ UNCHANGED <<serving, eventLock, paymentLock>>

elsewhere == <<captureAudit, cancelAudit, faults, interrupted>>
atProvider == <<charge, sent>>

-----------------------------------------------------------------------------
\* create_payment, under its "payment-order" lock: refused while the order has
\* a pending payment.  The provider's order or intent comes first.
CreatePayment(p) ==
  /\ status[p] = "none"
  /\ \A q \in Payment : OrderOf[q] = OrderOf[p] => status[q] # "pending"
  /\ status' = [status EXCEPT ![p] = "pending"]
  /\ charge' = [charge EXCEPT ![p] = "created"]
  /\ UNCHANGED <<orderVars, elsewhere, processed, eventLock, paymentLock, pc, serving,
                 inspected, sent>>

\* process_verified: the event's lock, then begin_processing.  An event already
\* processed is answered at once.
Begin(h, e) ==
  /\ pc[h] = "idle"
  /\ e \in sent \ processed
  /\ eventLock[e] = Nobody
  /\ Goto(h, "begun")
  /\ serving' = [serving EXCEPT ![h] = e]
  /\ eventLock' = [eventLock EXCEPT ![e] = h]
  /\ UNCHANGED <<orderVars, elsewhere, atProvider, status, processed, paymentLock, inspected>>

\* process_stripe, process_paypal: lock_operation("payment-reference").
Guard(h) ==
  /\ pc[h] = "begun"
  /\ paymentLock[Subject(h)] = Nobody
  /\ Goto(h, "guarded")
  /\ paymentLock' = [paymentLock EXCEPT ![Subject(h)] = h]
  /\ UNCHANGED <<orderVars, elsewhere, atProvider, status, processed, eventLock, serving,
                 inspected>>

\* fail_payment: a payment that succeeded keeps its status; one that failed is
\* written once more.
FailPayment(h) ==
  /\ pc[h] = "guarded"
  /\ serving[h].kind = "fail"
  /\ IF status[Subject(h)] = "succeeded" THEN UNCHANGED <<status, inspected>>
     ELSE Written(Subject(h), "failed")
  /\ Processed(h)
  /\ UNCHANGED <<orderVars, elsewhere, atProvider, processed>>

\* Mutant: the claim is read and not written.
ClaimRead(p) == UNCHANGED <<status, inspected>>
Claim(p) == Written(p, "succeeded")

\* The confirmation claim of a PayPal payment, pending -> succeeded; a payment
\* that is not pending goes on to the base's confirmation.
ClaimConfirmation(h) ==
  LET p == Subject(h) IN
  /\ pc[h] = "guarded"
  /\ serving[h].kind = "confirm"
  /\ p \in Paypal \ cancelAudit
  /\ IF status[p] = "pending"
     THEN Claim(p) /\ Continue(h, "capture")
     ELSE UNCHANGED <<status, inspected>> /\ Continue(h, "confirm")
  /\ UNCHANGED <<orderVars, elsewhere, atProvider, processed>>

\* Stripe's confirmation has no effect of its own.
SkipClaim(h) ==
  /\ pc[h] = "guarded"
  /\ serving[h].kind = "confirm"
  /\ Subject(h) \notin Paypal
  /\ Continue(h, "confirm")
  /\ UNCHANGED <<orderVars, elsewhere, atProvider, status, inspected, processed>>

\* Mutants: the error is dropped, or taken for the delivery's success.
CaptureFailureIgnored(h) == Continue(h, "confirm")
CaptureFailureDone(h) == Processed(h)
CaptureFailed(h) == Continue(h, "release")

\* capture_order.  The provider captures an approved order once; its answer may
\* be lost, and what is not answered with success is released.
CaptureOrder(h) ==
  LET p == Subject(h) IN
  /\ pc[h] = "capture"
  /\ \/ /\ charge[p] = "approved"
        /\ charge' = [charge EXCEPT ![p] = "captured"]
        /\ Continue(h, "confirm") \/ CaptureFailed(h)
        /\ UNCHANGED sent
     \/ /\ charge[p] = "approved"
        /\ charge' = [charge EXCEPT ![p] = "denied"]
        /\ sent' = sent \cup {[payment |-> p, kind |-> "fail"]}
        /\ CaptureFailed(h)
     \/ /\ CaptureFailed(h)
        /\ UNCHANGED atProvider
  /\ UNCHANGED <<orderVars, elsewhere, status, inspected, processed>>

\* Mutant: the evidence is not looked at.
ReleasableAnyway(p) == status[p] = "succeeded"
Releasable(p) == status[p] = "succeeded" /\ p \notin captureAudit

\* release_confirmation_claim, and the delivery fails.  Verified capture
\* evidence turns the release into a no-op.
ReleaseConfirmation(h) ==
  LET p == Subject(h) IN
  /\ pc[h] = "release"
  /\ IF Releasable(p) THEN Written(p, "pending") ELSE UNCHANGED <<status, inspected>>
  /\ Leave(h)
  /\ UNCHANGED <<orderVars, elsewhere, atProvider, processed>>

\* BaseEcommerceService::confirm_payment, from whatever status.
ConfirmPayment(h) ==
  LET p == Subject(h) IN
  /\ pc[h] = "confirm"
  /\ p \notin cancelAudit
  /\ IF status[p] = "succeeded" THEN UNCHANGED <<status, inspected>>
     ELSE Written(p, "succeeded")
  /\ IF p \in Mismatched THEN Processed(h) ELSE Continue(h, "read")
  /\ UNCHANGED <<orderVars, elsewhere, atProvider, processed>>

\* A recorded cancellation refuses the claim and the confirmation.
RefuseCanceled(h) ==
  /\ \/ pc[h] = "guarded" /\ serving[h].kind = "confirm" /\ Subject(h) \in Paypal
     \/ pc[h] = "confirm"
  /\ Subject(h) \in cancelAudit
  /\ Leave(h)
  /\ UNCHANGED <<orderVars, elsewhere, atProvider, status, inspected, processed>>

\* transition_paid reads the order first ...
ReadOrder(h) ==
  /\ pc[h] = "read"
  /\ IF order[OrderOf[Subject(h)]] = "pending" THEN Continue(h, "paid") ELSE Processed(h)
  /\ UNCHANGED <<orderVars, elsewhere, atProvider, status, inspected, processed>>

\* Mutant: the plain transition, without an event.
PayQuietly(o) ==
  /\ CanTransition(order[o], "paid")
  /\ order' = [order EXCEPT ![o] = "paid"]
  /\ UNCHANGED <<stock, jobs, dead, receipts, supplied>>
Pay(o) == TransitionWithEvent(o, "paid")

\* ... and pays it with its event; by then the order may have moved on.
TransitionPaid(h) ==
  /\ pc[h] = "paid"
  /\ \/ Pay(OrderOf[Subject(h)]) /\ Processed(h)
     \/ /\ ~CanTransition(order[OrderOf[Subject(h)]], "paid")
        /\ Leave(h)
        /\ UNCHANGED orderVars
  /\ UNCHANGED <<elsewhere, atProvider, status, inspected, processed>>

MarkProcessed(h) ==
  /\ pc[h] = "mark"
  /\ processed' = processed \cup {serving[h]}
  /\ Leave(h)
  /\ UNCHANGED <<orderVars, elsewhere, atProvider, status, inspected>>

-----------------------------------------------------------------------------
\* A crash under the claim leaves "succeeded" behind without a capture; without
\* the locks, another delivery finds it so while this one is still capturing.
Struck(h) ==
  /\ faults < MaxFaults
  /\ pc[h] # "idle"
  /\ faults' = faults + 1
  /\ interrupted' = IF pc[h] \in {"guarded", "capture", "release"}
                    THEN interrupted \cup {Subject(h)} ELSE interrupted
  /\ UNCHANGED <<orderVars, captureAudit, cancelAudit, atProvider, status, inspected, processed>>

\* The process dies; so does a handler whose store call fails.
Crash(h) == Struck(h) /\ Leave(h)

\* The connection of one lock breaks, or of both, and the handler does not notice.
LoseLock(h) ==
  /\ Struck(h)
  /\ UNCHANGED <<pc, serving>>
  /\ eventLock' \in {eventLock, Without(eventLock, h)}
  /\ paymentLock' \in {paymentLock, Without(paymentLock, h)}
  /\ <<eventLock', paymentLock'>> # <<eventLock, paymentLock>>

-----------------------------------------------------------------------------
atHandlers == <<processed, eventLock, paymentLock, pc, serving, faults, interrupted>>

\* reconcile_captured_payment, reconcile_voided_payment: the operator reads the
\* payment, then the provider's order ...
Inspect(p) ==
  /\ status[p] # "none"
  /\ inspected' = [payment |-> p, current |-> TRUE]
  /\ UNCHANGED <<orderVars, atHandlers, atProvider, captureAudit, cancelAudit, status>>

\* ... and records the capture it saw, unless the payment changed meanwhile.
RecordVerifiedCapture ==
  /\ inspected # Nobody
  /\ LET p == inspected.payment IN
     /\ charge[p] = "captured"
     /\ p \notin cancelAudit
     /\ inspected.current
     /\ captureAudit' = captureAudit \cup {p}
     /\ status' = [status EXCEPT ![p] = "succeeded"]
  /\ inspected' = Nobody
  /\ UNCHANGED <<orderVars, atHandlers, atProvider, cancelAudit>>

\* Mutant: a status of its own.
StatusCanceled(p) == [status EXCEPT ![p] = "cancelled"]
StatusFailed(p) == [status EXCEPT ![p] = "failed"]

\* record_verified_cancellation.
RecordVerifiedCancellation ==
  /\ inspected # Nobody
  /\ LET p == inspected.payment IN
     /\ charge[p] = "voided"
     /\ p \notin captureAudit
     /\ inspected.current
     /\ cancelAudit' = cancelAudit \cup {p}
     /\ status' = StatusFailed(p)
  /\ inspected' = Nobody
  /\ UNCHANGED <<orderVars, atHandlers, atProvider, captureAudit>>

\* The provider and the buyer.  Stripe captures on its own, PayPal when asked.
Charge(p, from, to, kind) ==
  /\ charge[p] \in from
  /\ charge' = [charge EXCEPT ![p] = to]
  /\ sent' = sent \cup {[payment |-> p, kind |-> k] : k \in kind}
  /\ UNCHANGED <<orderVars, atHandlers, captureAudit, cancelAudit, status, inspected>>

ProviderStep(p) ==
  \/ p \in Paypal /\ Charge(p, {"created", "denied"}, "approved", {"confirm"})
  \/ p \notin Paypal /\ Charge(p, {"created", "denied"}, "captured", {"confirm"})
  \/ p \notin Paypal /\ Charge(p, {"created"}, "denied", {"fail"})
  \/ Charge(p, {"created", "approved", "denied"}, "voided", {})

Next ==
  \/ TransitionOrder /\ UNCHANGED paymentVars
  \/ \E p \in Payment : CreatePayment(p) \/ Inspect(p) \/ ProviderStep(p)
  \/ RecordVerifiedCapture \/ RecordVerifiedCancellation
  \/ \E h \in Handler :
       \/ \E e \in sent : Begin(h, e)
       \/ Guard(h) \/ FailPayment(h) \/ ClaimConfirmation(h) \/ SkipClaim(h)
       \/ CaptureOrder(h) \/ ReleaseConfirmation(h) \/ ConfirmPayment(h)
       \/ RefuseCanceled(h) \/ ReadOrder(h) \/ TransitionPaid(h) \/ MarkProcessed(h)
       \/ Crash(h) \/ LoseLock(h)

Spec == Init /\ [][Next]_vars

-----------------------------------------------------------------------------
\* What the handlers do to an order is a legal transition with its event.
ImplementsOrders == OrderSpec

\* No payment is captured by two handlers at a time, also when both have lost
\* their locks: the claim alone keeps a second delivery from the provider.
OneCapturer ==
  \A h, i \in Handler :
    pc[h] = "capture" /\ pc[i] \in {"capture", "release"} /\ Subject(h) = Subject(i)
      => h = i

\* A payment's audits never contradict each other, and its record keeps saying
\* what they say through every late release, failure, claim and confirmation.
AuditsPrevail ==
  /\ captureAudit \cap cancelAudit = {}
  /\ \A p \in captureAudit : status[p] = "succeeded"
  /\ \A p \in cancelAudit : status[p] = "failed"

\* A confirmation is marked processed, and so never worked on again, only when
\* its order is out of "pending" (or its amount was wrong): nothing that failed
\* on the way is taken for done.
MarkedIsSettled ==
  \A e \in processed :
    e.kind = "confirm" /\ e.payment \notin Mismatched => order[OrderOf[e.payment]] # "pending"

\* The webhook pays an order only with captured money, unless a fault struck
\* about the payment's claim or the provider had denied the payment before.
PaidIsCaptured ==
  \A h \in Handler :
    pc[h] \in {"read", "paid"} =>
      \/ charge[Subject(h)] = "captured"
      \/ Subject(h) \in interrupted
      \/ [payment |-> Subject(h), kind |-> "fail"] \in sent
=============================================================================
