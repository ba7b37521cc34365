--------------------------- MODULE StoreCheckout ---------------------------
(***************************************************************************)
(* Checkout and payment of the TypeScript store, for one cart: the checkout *)
(* controller, the Stripe and PayPal webhooks with their ledger, and the    *)
(* payment services under both.                                             *)
(*                                                                          *)
(* A request is a sequence of awaited calls, each of them a step, and may   *)
(* stop between any two.  A call that reads a row and then updates it under *)
(* a condition is one step where the request fails if the row has changed   *)
(* in between.  The providers are external: they charge what a shopper was  *)
(* shown, and deliver an event until it is answered.                        *)
(***************************************************************************)
EXTENDS Integers, FiniteSets

CONSTANTS
  CartOrder, \* order ids, each created at most once
  Ref,       \* provider references: Stripe PaymentIntents and PayPal orders
  Paypal,    \* the PayPal orders among them
  None,
  Client,    \* bound: checkout requests served at a time
  Hook,      \* bound: webhook deliveries served at a time
  MaxEdits,  \* bound: changes of the cart
  MaxFaults  \* bound: webhook requests and captures that fail

ASSUME CheckoutAssumption ==
  /\ Paypal \subseteq Ref
  /\ None \notin CartOrder \cup Ref
  /\ MaxEdits \in Nat /\ MaxFaults \in Nat

VARIABLES
  cart,      \* whether the cart holds items
  status,    \* the status of each order
  owner,     \* the order of each payment
  payment,   \* the status of each payment
  intent,    \* what the provider knows of each reference
  shown,     \* the references whose credentials a shopper was given
  ledger,    \* how far each webhook event has come
  client, hook,
  announced, \* history: events enqueued that say an order is paid
  edits, faults

checkoutVars == <<cart, status, owner, payment, intent, shown, client, edits>>
hookVars == <<ledger, hook, announced, faults>>
storefrontVars == <<checkoutVars, hookVars>>

\* A success carries the amount and the currency of its payment, or does not.
EventKind == {"confirm", "mismatch", "fail"}
HookEvent == Ref \X EventKind
Waiting == [at |-> "idle", full |-> FALSE, order |-> None, ref |-> None]
Free == [at |-> "idle", ref |-> None, kind |-> "confirm"]

CheckoutInit ==
  /\ cart = TRUE
  /\ status = [o \in CartOrder |-> "none"]
  /\ owner = [r \in Ref |-> None]
  /\ payment = [r \in Ref |-> "none"]
  /\ intent = [r \in Ref |-> "none"]
  /\ shown = {}
  /\ ledger = [e \in HookEvent |-> "unsent"]
  /\ client = [c \in Client |-> Waiting]
  /\ hook = [d \in Hook |-> Free]
  /\ announced = [o \in CartOrder |-> 0]
  /\ edits = 0 /\ faults = 0

PendingOrders == {o \in CartOrder : status[o] = "pending"}
PendingPayments(o) == {r \in Ref : owner[r] = o /\ payment[r] = "pending"}

-----------------------------------------------------------------------------
(* The checkout controller *)

At(c, place) == client[c].at = place
Goto(c, place) == client' = [client EXCEPT ![c].at = place]
With(c, place, o, r) ==
  client' = [client EXCEPT ![c] = [at |-> place, full |-> @.full, order |-> o, ref |-> r]]
Leave(c) == client' = [client EXCEPT ![c] = Waiting]
Reads == UNCHANGED <<cart, status, owner, payment, intent, shown, edits>>

GetCart(c) ==
  /\ At(c, "idle")
  /\ client' = [client EXCEPT ![c] = [Waiting EXCEPT !.at = "find", !.full = cart]]
  /\ Reads

\* findPendingOrderIdByCartId, and what the controller concludes from it.
FindOrder(c) ==
  /\ At(c, "find")
  /\ IF PendingOrders # {}
     THEN \E o \in PendingOrders :
            With(c, IF client[c].full THEN "cancel" ELSE "lookup", o, None)
     ELSE IF client[c].full THEN Goto(c, "create") ELSE Leave(c)
  /\ Reads

\* transitionOrder to cancelled, which is legal from pending and from paid.
CancelStale(c) ==
  LET o == client[c].order IN
  /\ At(c, "cancel")
  /\ status[o] \in {"pending", "paid"}
  /\ status' = [status EXCEPT ![o] = "cancelled"]
  /\ Goto(c, "create")
  /\ UNCHANGED <<cart, owner, payment, intent, shown, edits>>

\* createOrder under the index order_cart_id_pending_unique.
CreateOrder(c) ==
  /\ At(c, "create")
  /\ IF PendingOrders = {}
     THEN \E o \in CartOrder :
            /\ status[o] = "none"
            /\ status' = [status EXCEPT ![o] = "pending"]
            /\ With(c, "lookup", o, None)
     ELSE Goto(c, "winner") /\ UNCHANGED status
  /\ UNCHANGED <<cart, owner, payment, intent, shown, edits>>

FindWinner(c) ==
  /\ At(c, "winner")
  /\ IF PendingOrders # {}
     THEN \E o \in PendingOrders : With(c, "lookup", o, None)
     ELSE Leave(c)
  /\ Reads

\* findPendingPaymentByOrderId.
FindPayment(c) ==
  LET o == client[c].order IN
  /\ At(c, "lookup")
  /\ IF PendingPayments(o) # {}
     THEN \E r \in PendingPayments(o) : With(c, "resume", o, r)
     ELSE Goto(c, "open")
  /\ Reads

\* The provider is asked for a PaymentIntent or a PayPal order.
OpenIntent(c) ==
  /\ At(c, "open")
  /\ \E r \in Ref :
       /\ intent[r] = "none"
       /\ intent' = [intent EXCEPT ![r] = "open"]
       /\ With(c, "insert", client[c].order, r)
  /\ UNCHANGED <<cart, status, owner, payment, shown, edits>>

\* Mutant: no index.
SlotFreeAnyway(o) == TRUE
\* The index payment_order_id_pending_unique.
SlotFree(o) == PendingPayments(o) = {}

InsertPayment(c) ==
  LET o == client[c].order  r == client[c].ref IN
  /\ At(c, "insert")
  /\ IF SlotFree(o)
     THEN /\ owner' = [owner EXCEPT ![r] = o]
          /\ payment' = [payment EXCEPT ![r] = "pending"]
          /\ Goto(c, "answer")
     ELSE Goto(c, "raced") /\ UNCHANGED <<owner, payment>>
  /\ UNCHANGED <<cart, status, intent, shown, edits>>

FindRaceWinner(c) ==
  LET o == client[c].order IN
  /\ At(c, "raced")
  /\ IF PendingPayments(o) # {}
     THEN \E r \in PendingPayments(o) : With(c, "resume", o, r)
     ELSE Leave(c)
  /\ Reads

\* resumePayment for Stripe, whose last validateResume refuses a cancelled
\* order, and getPayment for PayPal.
Resume(c) ==
  /\ At(c, "resume")
  /\ IF client[c].ref \in Paypal \/ status[client[c].order] # "cancelled"
     THEN Goto(c, "answer") ELSE Leave(c)
  /\ Reads

Answer(c) ==
  /\ At(c, "answer")
  /\ shown' = shown \cup {client[c].ref}
  /\ Leave(c)
  /\ UNCHANGED <<cart, status, owner, payment, intent, edits>>

\* A call fails, an item is out of stock, or the process dies.
ClientFails(c) == ~At(c, "idle") /\ Leave(c) /\ Reads

ClientStep(c) ==
  /\ \/ GetCart(c) \/ FindOrder(c) \/ CancelStale(c) \/ CreateOrder(c)
     \/ FindWinner(c) \/ FindPayment(c) \/ OpenIntent(c) \/ InsertPayment(c)
     \/ FindRaceWinner(c) \/ Resume(c) \/ Answer(c) \/ ClientFails(c)
  /\ UNCHANGED hookVars

\* addItem and removeItem.
EditCart ==
  /\ edits < MaxEdits
  /\ edits' = edits + 1
  /\ cart' = ~cart
  /\ UNCHANGED <<status, owner, payment, intent, shown, client, hookVars>>

-----------------------------------------------------------------------------
(* The providers *)

Send(e) == ledger' = [ledger EXCEPT ![e] = IF @ = "unsent" THEN "sent" ELSE @]
Provided == UNCHANGED <<cart, status, owner, payment, shown, client, edits,
                        hook, announced, faults>>

\* The event of a success, whose amount may be missing.
SendSuccess(r) == \E kind \in {"confirm", "mismatch"} : Send(<<r, kind>>)

\* The shopper confirms a PaymentIntent.
Charge(r) ==
  /\ r \in shown \ Paypal /\ intent[r] = "open"
  /\ intent' = [intent EXCEPT ![r] = "captured"]
  /\ SendSuccess(r)
  /\ Provided

\* An attempt is declined; the PaymentIntent can be tried again.
Decline(r) ==
  /\ r \in shown \ Paypal /\ intent[r] = "open"
  /\ Send(<<r, "fail">>)
  /\ UNCHANGED intent /\ Provided

\* The shopper approves a PayPal order, which is not charged yet.
Approve(r) ==
  /\ r \in shown \cap Paypal /\ intent[r] = "open"
  /\ intent' = [intent EXCEPT ![r] = "approved"]
  /\ SendSuccess(r)
  /\ Provided

-----------------------------------------------------------------------------
(* The webhook controller *)

In(d, place) == hook[d].at = place
Move(d, place) == hook' = [hook EXCEPT ![d].at = place]
Stop(d) == hook' = [hook EXCEPT ![d] = Free]
Paid(d) == owner[hook[d].ref]

\* beginProcessing: anything but a processed event is handled.
Unprocessed == {"sent", "seen"}

Begin(d, e) ==
  /\ In(d, "idle")
  /\ ledger[e] \in Unprocessed
  /\ ledger' = [ledger EXCEPT ![e] = "seen"]
  /\ hook' = [hook EXCEPT ![d] =
       [at |-> IF e[2] = "fail" THEN "fail"
               ELSE IF e[1] \in Paypal THEN "claim" ELSE "confirm",
        ref |-> e[1], kind |-> e[2]]]
  /\ UNCHANGED <<checkoutVars, announced, faults>>

SetPayment(d, s) == payment' = [payment EXCEPT ![hook[d].ref] = s]
OnPayment == UNCHANGED <<cart, status, owner, intent, shown, client, edits,
                         ledger, announced, faults>>

\* What the controller does with a confirmed payment: it compares the amount
\* and the currency, and without agreement leaves the order as it is.
Compared(d) == IF hook[d].kind = "confirm" THEN "order" ELSE "mark"

\* confirmPayment and failPayment read the payment, and write it unless it
\* had succeeded.
ReadConfirm(d) ==
  /\ In(d, "confirm")
  /\ Move(d, IF payment[hook[d].ref] = "succeeded" THEN Compared(d) ELSE "settle")
  /\ UNCHANGED payment /\ OnPayment

Settle(d) ==
  /\ In(d, "settle")
  /\ SetPayment(d, "succeeded") /\ Move(d, Compared(d))
  /\ OnPayment

ReadFail(d) ==
  /\ In(d, "fail")
  /\ Move(d, IF payment[hook[d].ref] = "succeeded" THEN "mark" ELSE "refuse")
  /\ UNCHANGED payment /\ OnPayment

Refuse(d) == In(d, "refuse") /\ SetPayment(d, "failed") /\ Move(d, "mark") /\ OnPayment

\* claimForConfirmation: WHERE status = pending.
Claimed(d) == payment[hook[d].ref] = "pending"

Claim(d) ==
  /\ In(d, "claim")
  /\ IF Claimed(d)
     THEN SetPayment(d, "succeeded") /\ Move(d, "capture")
     ELSE UNCHANGED payment /\ Move(d, "confirm")
  /\ OnPayment

\* captureOrder succeeds.  An order that was captured before may be answered
\* with a success, or with an error, since the request carries no key of its own.
Capture(d) ==
  /\ In(d, "capture")
  /\ intent[hook[d].ref] \in {"approved", "captured"}
  /\ intent' = [intent EXCEPT ![hook[d].ref] = "captured"]
  /\ Move(d, "confirm")
  /\ UNCHANGED <<cart, status, owner, payment, shown, client, edits, ledger, announced, faults>>

\* captureOrder throws: the answer is lost, the call fails, or PayPal denies
\* the capture, which it says in an event as well.
CaptureFails(d) ==
  LET r == hook[d].ref IN
  /\ In(d, "capture") /\ faults < MaxFaults
  /\ faults' = faults + 1
  /\ Move(d, "release")
  /\ \/ intent' = [intent EXCEPT ![r] = "captured"] /\ UNCHANGED ledger
     \/ UNCHANGED <<intent, ledger>>
     \/ intent[r] # "captured" /\ Send(<<r, "fail">>) /\ UNCHANGED intent
  /\ UNCHANGED <<cart, status, owner, payment, shown, client, edits, announced>>

CaptureRefused(d) ==
  /\ In(d, "capture")
  /\ intent[hook[d].ref] = "captured"
  /\ Move(d, "release")
  /\ UNCHANGED payment /\ OnPayment

\* Mutant: the error of the capture is logged only.
Swallowed(d) == Move(d, "mark")
Rethrown(d) == Stop(d)

\* releaseConfirmationClaim, which the index refuses while the order has
\* another pending payment, and the error of the capture is thrown.
Release(d) ==
  /\ In(d, "release")
  /\ IF payment[hook[d].ref] = "succeeded" /\ SlotFree(Paid(d))
     THEN SetPayment(d, "pending") ELSE UNCHANGED payment
  /\ Rethrown(d)
  /\ OnPayment

\* transitionOrderToPaid reads the order.
ReadOrder(d) ==
  /\ In(d, "order")
  /\ Move(d, IF status[Paid(d)] = "pending" THEN "pay" ELSE "mark")
  /\ UNCHANGED payment /\ OnPayment

\* Mutant: the write does not repeat the condition.
StillPendingAnyway(d) == TRUE
\* nativeUpdate WHERE status = currentStatus.
StillPending(d) == status[Paid(d)] = "pending"

\* transitionOrder to paid; otherwise it throws.
Pay(d) ==
  /\ In(d, "pay")
  /\ IF StillPending(d)
     THEN status' = [status EXCEPT ![Paid(d)] = "paid"] /\ Move(d, "enqueue")
     ELSE UNCHANGED status /\ Stop(d)
  /\ UNCHANGED <<cart, owner, payment, intent, shown, client, edits, ledger, announced, faults>>

Enqueue(d) ==
  /\ In(d, "enqueue")
  /\ announced' = [announced EXCEPT ![Paid(d)] = @ + 1]
  /\ Move(d, "clear")
  /\ UNCHANGED <<checkoutVars, ledger, faults>>

\* clearCart, whose failure is logged.
Clear(d) ==
  /\ In(d, "clear")
  /\ cart' \in {cart, FALSE}
  /\ Move(d, "mark")
  /\ UNCHANGED <<status, owner, payment, intent, shown, client, edits, ledger, announced, faults>>

\* markProcessed
Mark(d) ==
  /\ In(d, "mark")
  /\ ledger' = [ledger EXCEPT ![<<hook[d].ref, hook[d].kind>>] = "processed"]
  /\ Stop(d)
  /\ UNCHANGED <<checkoutVars, announced, faults>>

\* A call throws or the process dies: the event is not marked.
HookFails(d) ==
  /\ ~In(d, "idle") /\ faults < MaxFaults
  /\ faults' = faults + 1
  /\ Stop(d)
  /\ UNCHANGED <<checkoutVars, ledger, announced>>

Serve(d) ==
  \/ ReadConfirm(d) \/ Settle(d) \/ ReadFail(d) \/ Refuse(d) \/ Claim(d)
  \/ Capture(d) \/ CaptureRefused(d) \/ Release(d) \/ ReadOrder(d) \/ Pay(d)
  \/ Enqueue(d) \/ Clear(d) \/ Mark(d)

CheckoutNext ==
  \/ \E c \in Client : ClientStep(c)
  \/ EditCart
  \/ \E r \in Ref : Charge(r) \/ Decline(r) \/ Approve(r)
  \/ \E d \in Hook :
       \/ \E e \in HookEvent : Begin(d, e)
       \/ Serve(d) \/ CaptureFails(d) \/ HookFails(d)

CheckoutSpec == CheckoutInit /\ [][CheckoutNext]_storefrontVars

-----------------------------------------------------------------------------
ClientState ==
  [at : {"idle", "find", "cancel", "create", "winner", "lookup", "open", "insert",
         "raced", "resume", "answer"},
   full : BOOLEAN, order : CartOrder \cup {None}, ref : Ref \cup {None}]
HookState ==
  [at : {"idle", "confirm", "settle", "fail", "refuse", "claim", "capture", "release",
         "order", "pay", "enqueue", "clear", "mark"},
   ref : Ref \cup {None}, kind : EventKind]

(* Every part of the state has its type, a payment belongs to an order, and  *)
(* what a shopper was shown has a payment.                                   *)
CheckoutTypeOK ==
  /\ cart \in BOOLEAN
  /\ status \in [CartOrder -> {"none", "pending", "paid", "cancelled"}]
  /\ owner \in [Ref -> CartOrder \cup {None}]
  /\ payment \in [Ref -> {"none", "pending", "succeeded", "failed"}]
  /\ intent \in [Ref -> {"none", "open", "approved", "captured"}]
  /\ \A r \in Ref : owner[r] = None <=> payment[r] = "none"
  /\ shown \subseteq {r \in Ref : owner[r] # None}
  /\ ledger \in [HookEvent -> {"unsent", "sent", "seen", "processed"}]
  /\ client \in [Client -> ClientState]
  /\ hook \in [Hook -> HookState]
  /\ announced \in [CartOrder -> Nat]
  /\ edits \in 0 .. MaxEdits
  /\ faults \in 0 .. MaxFaults

(* An order has at most one pending payment, and the cart one pending order, *)
(* although requests look for them and create them in separate steps and a   *)
(* failed capture makes a payment pending again.                             *)
OneLivePayment ==
  /\ \A o, p \in PendingOrders : o = p
  /\ \A q, r \in Ref :
       payment[q] = "pending" /\ payment[r] = "pending" /\ owner[q] = owner[r] => q = r

(* Of all the deliveries of an approval only one is between the claim and    *)
(* the end of its capture, and the payment cannot be claimed meanwhile, not  *)
(* even when another event fails or settles it under the capture.            *)
OneCapture ==
  \A d \in Hook : hook[d].at \in {"capture", "release"} =>
    /\ payment[hook[d].ref] # "pending"
    /\ \A g \in Hook :
         hook[g].at \in {"capture", "release"} /\ hook[g].ref = hook[d].ref => g = d

(* An order is announced as paid at most once, whatever is redelivered and   *)
(* however many payments of the order succeed, and never without a success   *)
(* of the amount that one of its payments is for.                            *)
AnnouncedOnce ==
  \A o \in CartOrder :
    /\ announced[o] <= 1
    /\ announced[o] = 1 => \E r \in Ref : owner[r] = o /\ ledger[<<r, "confirm">>] # "unsent"

(* Once a success of the payment's own amount is answered for good, the      *)
(* order no longer waits for one.  After a success of another amount, or of  *)
(* none, it is meant to wait.                                                *)
NoForgottenSuccess ==
  \A r \in Ref : ledger[<<r, "confirm">>] = "processed" =>
    owner[r] \in CartOrder /\ status[owner[r]] \in {"paid", "cancelled"}

-----------------------------------------------------------------------------
(* What the code does not guarantee: TLC finds a counterexample to each. *)

Quiet == \A d \in Hook : In(d, "idle")

(* checkout.controller.ts says that a checkout for a cart that still has a   *)
(* pending order reuses that order.  A cart keeps its items until the order  *)
(* is paid, so a retry with the same items cancels the order instead.        *)
UnchangedIsReused == edits = 0 => \A o \in CartOrder : status[o] # "cancelled"

(* The webhook controller says that handling an event again is safe.  If     *)
(* the enqueue fails after the order is paid, the next delivery finds        *)
(* nothing to do and marks the event: the stock is never told.               *)
PaidIsAnnounced ==
  Quiet => \A r \in Ref :
    ledger[<<r, "confirm">>] = "processed" /\ status[owner[r]] = "paid" => announced[owner[r]] = 1

(* failPayment says that a payment that succeeded stays succeeded.           *)
SucceededStays ==
  [][\A r \in Ref : payment[r] = "succeeded" => payment'[r] # "failed"]_storefrontVars

(* PayPal's confirmPayment says that who loses the claim finds the payment   *)
(* captured by another.  It may find one whose capture is yet to fail: the   *)
(* order is paid, the approval answered, and nothing was charged.            *)
PaidIsCaptured ==
  Quiet => \A r \in Ref :
    ledger[<<r, "confirm">>] = "processed" => intent[r] = "captured"

(* checkout.controller.ts says that only a pending order is replaced.  The   *)
(* order may be paid between the lookup and the cancellation.                *)
PaidIsKept == [][\A o \in CartOrder : status[o] = "paid" => status'[o] = "paid"]_storefrontVars

(* The index on payments is there so that an order is never charged twice.   *)
ChargedOnce ==
  \A q, r \in Ref :
    intent[q] = "captured" /\ intent[r] = "captured" /\ owner[q] = owner[r] => q = r
=============================================================================
