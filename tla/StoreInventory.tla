--------------------------- MODULE StoreInventory ---------------------------
(***************************************************************************)
(* Orders and stock of the TypeScript store (blueprint/ecommerce-stripe):  *)
(* transitionOrder as the order controller and the payment webhook call    *)
(* it, the order event each of them enqueues afterwards, and worker.ts,    *)
(* which applies the events to the stock from IntervalWorker's queue.      *)
(*                                                                         *)
(* A request awaits four calls: getOrder, the read and the conditional     *)
(* write of transitionOrder, and enqueueJob.  The event carries the status *)
(* that getOrder returned and the one that was written.  A request may     *)
(* fail at each of them, or die with its process.                          *)
(***************************************************************************)
EXTENDS IntervalWorker

CONSTANTS
  Order, Variant,
  Items,    \* quantities of each order, by variant
  Stock,    \* the stock to begin with
  Request,  \* bound: requests served at a time
  Webhook,  \* those of them that serve payment webhooks
  Target,   \* statuses the operators of the instance ask for
  MaxSupply \* bound: the stock operators raise a variant to

Status == {"pending", "paid", "fulfilled", "shipped", "delivered", "cancelled"}

ASSUME StoreAssumption ==
  /\ Items \in [Order -> [Variant -> Nat]]
  /\ Stock \in [Variant -> Nat]
  /\ Webhook \subseteq Request
  /\ Target \subseteq Status
  /\ MaxSupply \in Nat

VARIABLES
  order,   \* the status of each order
  stock,   \* inventory records
  event,   \* what each enqueued event says
  request, \* how far each request has come
  supplied \* history: units of each variant put in or taken out by hand

storeVars == <<order, stock, event, request, supplied>>
inventoryVars == <<workerVars, storeVars>>

OrderEvent == [order : Order, from : Status, to : Status]
NoRequest == [at |-> "idle"]

InventoryInit ==
  /\ WorkerInit
  /\ order = [o \in Order |-> "pending"]
  /\ stock = Stock
  /\ event = <<>>
  /\ request = [q \in Request |-> NoRequest]
  /\ supplied = [v \in Variant |-> 0]

-----------------------------------------------------------------------------
ORDER_TRANSITIONS == {<<"pending", "paid">>, <<"pending", "cancelled">>,
                      <<"paid", "fulfilled">>, <<"paid", "cancelled">>,
                      <<"fulfilled", "shipped">>, <<"fulfilled", "cancelled">>,
                      <<"shipped", "delivered">>}

GoOn(q, where) == request' = [request EXCEPT ![q] = where]
AtStore == UNCHANGED <<workerVars, stock, event, supplied>>

\* getOrder.  A webhook goes on for a pending order only.
GetOrder(q, o, to) ==
  /\ request[q] = NoRequest
  /\ q \in Webhook => to = "paid" /\ order[o] = "pending"
  /\ GoOn(q, [at |-> "before", order |-> o, to |-> to, from |-> order[o]])
  /\ UNCHANGED order /\ AtStore

\* transitionOrder reads the order and refuses an illegal transition.
CheckTransition(q) ==
  LET r == request[q] IN
  /\ r.at = "before"
  /\ IF <<order[r.order], r.to>> \in ORDER_TRANSITIONS
     THEN GoOn(q, [at |-> "checked", order |-> r.order, to |-> r.to, from |-> r.from,
                   current |-> order[r.order]])
     ELSE GoOn(q, NoRequest)
  /\ UNCHANGED order /\ AtStore

\* Mutant: the write does not repeat the condition.
AffectedAnyway(r) == TRUE
\* nativeUpdate WHERE status = currentStatus.
Affected(r) == order[r.order] = r.current

WriteTransition(q) ==
  LET r == request[q] IN
  /\ r.at = "checked"
  /\ IF Affected(r)
     THEN /\ order' = [order EXCEPT ![r.order] = r.to]
          /\ GoOn(q, [at |-> "moved", order |-> r.order, to |-> r.to, from |-> r.from])
     ELSE GoOn(q, NoRequest) /\ UNCHANGED order
  /\ AtStore

EnqueueJob(q) ==
  LET r == request[q] IN
  /\ r.at = "moved"
  /\ EnqueueJobs(1)
  /\ event' = Append(event, [order |-> r.order, from |-> r.from, to |-> r.to])
  /\ GoOn(q, NoRequest)
  /\ UNCHANGED <<order, stock, supplied>>

\* A call of the request fails, or its process dies.
RequestFails(q) ==
  /\ request[q] # NoRequest
  /\ GoOn(q, NoRequest)
  /\ UNCHANGED order /\ AtStore

-----------------------------------------------------------------------------
\* The branches of processOrderEvents.
Sign(e) ==
  IF e.to = "paid" THEN -1
  ELSE IF e.to = "cancelled" /\ e.from \in {"paid", "fulfilled"} THEN 1
  ELSE 0

Applied(w, t) == event[Head(tick[w][t].rest).id]

\* adjustStock of every item: WHERE stock >= -delta.
Sufficient(e) == \A v \in Variant : stock[v] + Sign(e) * Items[e.order][v] >= 0

Adjusted(e) == [v \in Variant |-> stock[v] + Sign(e) * Items[e.order][v]]

\* An event is applied in one transaction, or changes nothing.
ApplyEvent(w, t) ==
  /\ ProcessNext(w, t, TRUE)
  /\ Sufficient(Applied(w, t))
  /\ stock' = Adjusted(Applied(w, t))
  /\ UNCHANGED <<order, event, request, supplied>>

\* Mutant: the items before the one that fails are kept.
RolledBackPartly(e) ==
  stock' = [v \in Variant |-> IF stock[v] + Sign(e) * Items[e.order][v] >= 0
                              THEN stock[v] + Sign(e) * Items[e.order][v] ELSE stock[v]]
RolledBack(e) == UNCHANGED stock

\* An item is short of stock, or the database refuses the transaction, which
\* is not committed then.
RefuseEvent(w, t) ==
  /\ ProcessNext(w, t, FALSE)
  /\ Sign(Applied(w, t)) # 0
  /\ RolledBack(Applied(w, t))
  /\ UNCHANGED <<order, event, request, supplied>>

\* An operator puts a unit in or takes one out.
AdjustStock(v, delta) ==
  /\ stock[v] + delta \in 0 .. MaxSupply
  /\ stock' = [stock EXCEPT ![v] = @ + delta]
  /\ supplied' = [supplied EXCEPT ![v] = @ + delta]
  /\ UNCHANGED <<workerVars, order, event, request>>

QueueStep(w) ==
  /\ \/ WorkerDies(w) \/ StartServer(w)
     \/ \E t \in Tick : Retrieve(w, t) \/ UpdateEvents(w, t)
  /\ UNCHANGED storeVars

InventoryNext ==
  \/ \E q \in Request :
       \/ \E o \in Order, to \in Target : GetOrder(q, o, to)
       \/ CheckTransition(q) \/ WriteTransition(q) \/ EnqueueJob(q) \/ RequestFails(q)
  \/ \E w \in Server : QueueStep(w) \/ \E t \in Tick : ApplyEvent(w, t) \/ RefuseEvent(w, t)
  \/ \E v \in Variant, delta \in {-1, 1} : AdjustStock(v, delta)

InventorySpec == InventoryInit /\ [][InventoryNext]_inventoryVars

-----------------------------------------------------------------------------
Step(place) ==
  [at : {place}, order : Order, to : Status, from : Status]

(* Every part of the state has its type: the stock of a variant is never     *)
(* negative, and a queued record is that of an enqueued event.               *)
InventoryTypeOK ==
  /\ WorkerTypeOK
  /\ order \in [Order -> Status]
  /\ stock \in [Variant -> Nat]
  /\ event \in Seq(OrderEvent) /\ Len(event) = enqueued
  /\ supplied \in [Variant -> Int]
  /\ request \in [Request -> {NoRequest} \cup Step("before") \cup Step("moved")
       \cup [at : {"checked"}, order : Order, to : Status, from : Status, current : Status]]

\* What each event that is done did to a variant.
Effects(v) == [e \in done |-> Sign(event[e]) * Items[event[e].order][v]]

(* The stock is what was put in and the effect of the events that are done,  *)
(* each of them once and as a whole: an event that failed and is tried       *)
(* again, with stock for some of its items only, leaves nothing behind.  A   *)
(* transaction that is committed although its reply is lost is outside this: *)
(* worker.ts takes it for a failure, and the event is applied again.         *)
StockMatchesDone ==
  \A v \in Variant :
    stock[v] = Stock[v] + supplied[v] + SumFunctionOnSet(Effects(v), done)

(* No transition of an order is announced twice, although requests and       *)
(* webhooks for one order read its status and write it in separate steps.    *)
OneEventPerTransition ==
  \A d, e \in DOMAIN event :
    event[d].order = event[e].order /\ event[d].to = event[e].to => d = e

-----------------------------------------------------------------------------
(* What the code does not guarantee: TLC finds a counterexample to both. *)

CancelDone(e) == e \in done /\ event[e].to = "cancelled"
PaidDone(o) == \E e \in done : event[e].order = o /\ event[e].to = "paid"

(* worker.ts says that it restocks a cancelled order only if its stock was   *)
(* decremented earlier.  It judges by the status before the cancellation,    *)
(* which does not tell whether the event of the payment was applied.         *)
RestockOnlyTaken ==
  \A e \in done : CancelDone(e) /\ Sign(event[e]) = 1 => PaidDone(event[e].order)

(* worker.ts says that it restocks whenever the stock was taken.  The event  *)
(* names the status that the controller read before transitionOrder, which   *)
(* may be older than the one that was cancelled.                             *)
TakenIsReturned ==
  \A e \in done : CancelDone(e) /\ PaidDone(event[e].order) => Sign(event[e]) = 1
=============================================================================
