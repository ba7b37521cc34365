--------------------------- MODULE OrderInventory ---------------------------
(***************************************************************************)
(* Orders, their durable events and the stock                              *)
(* (ecommerce-base: postgres.rs, events.rs, store.rs).                     *)
(*                                                                         *)
(* transition_order_with_event writes the order and enqueues its event in  *)
(* one transaction; OrderInventoryHandler applies an event to every        *)
(* variant, and records its receipt, in one transaction.  Between the two  *)
(* stands the leased job queue (JobQueueContract), of which this module    *)
(* keeps what the handler can see: events come in any order and any number *)
(* of times, also from a worker whose lease was lost and whose job is      *)
(* acknowledged or dead by then.  A call that changes no row is not an     *)
(* action.                                                                 *)
(***************************************************************************)
EXTENDS Integers, FiniteSets, Functions

CONSTANTS
  Order, Variant,
  Items,      \* quantities of each order, by variant
  Target,     \* statuses the operators of the instance ask for
  MaxSupply   \* bound: the units supplied of a variant stay in 0 .. MaxSupply

Status == {"pending", "paid", "fulfilled", "shipped", "delivered", "cancelled"}

ASSUME OrderAssumption ==
  /\ Items \in [Order -> [Variant -> Nat]]
  /\ Target \subseteq Status
  /\ MaxSupply \in Nat

VARIABLES
  order,     \* the committed status of each order
  stock,     \* inventory records
  jobs,      \* order events in the queue, delivered or not
  dead,      \* order events dead-lettered
  receipts,  \* inventory_event_receipts
  supplied   \* history: units of each variant put in by hand, first stock included

orderVars == <<order, stock, jobs, dead, receipts, supplied>>

\* An order takes each transition at most once, so the transition stands for
\* the event's fresh uuid.
OrderEvent == [order : Order, from : Status, to : Status]

OrderTypeOK ==
  /\ order \in [Order -> Status]
  /\ stock \in [Variant -> Nat]
  /\ jobs \subseteq OrderEvent
  /\ dead \subseteq OrderEvent
  /\ receipts \subseteq OrderEvent
  /\ supplied \in [Variant -> Nat]

\* OrderStatus::can_transition_to
CanTransition(from, to) ==
  <<from, to>> \in {<<"pending", "paid">>, <<"pending", "cancelled">>,
                    <<"paid", "fulfilled">>, <<"paid", "cancelled">>,
                    <<"fulfilled", "shipped">>, <<"fulfilled", "cancelled">>,
                    <<"shipped", "delivered">>}

\* Mutant: every cancellation puts the units back.
DeltaOfAnyCancel(e, v) ==
  IF e.to = "paid" THEN -Items[e.order][v]
  ELSE IF e.to = "cancelled" THEN Items[e.order][v]
  ELSE 0
\* events::deltas for one variant.
Delta(e, v) ==
  IF e.to = "paid" THEN -Items[e.order][v]
  ELSE IF e.to = "cancelled" /\ e.from \in {"paid", "fulfilled"} THEN Items[e.order][v]
  ELSE 0

-----------------------------------------------------------------------------
OrderInit ==
  /\ order = [o \in Order |-> "pending"]
  /\ supplied \in [Variant -> 0 .. MaxSupply]
  /\ stock = supplied
  /\ jobs = {} /\ dead = {} /\ receipts = {}

\* transition_order_with_event: row lock, legality, update, enqueue, commit.
TransitionWithEvent(o, to) ==
  /\ CanTransition(order[o], to)
  /\ order' = [order EXCEPT ![o] = to]
  /\ jobs' = jobs \cup {[order |-> o, from |-> order[o], to |-> to]}
  /\ UNCHANGED <<stock, dead, receipts, supplied>>

\* apply_order_event: the receipt and every delta, or neither.  A known receipt
\* answers Ok(false); too little stock of any variant is an error.
ApplyOrderEvent(e) ==
  /\ e \in (jobs \cup dead) \ receipts
  /\ \A v \in Variant : stock[v] + Delta(e, v) >= 0
  /\ stock' = [v \in Variant |-> stock[v] + Delta(e, v)]
  /\ receipts' = receipts \cup {e}
  /\ UNCHANGED <<order, jobs, dead, supplied>>

\* The runner acknowledges a job its handler answered Ok for.
AcknowledgeJob(e) ==
  /\ e \in jobs \cap receipts
  /\ jobs' = jobs \ {e}
  /\ UNCHANGED <<order, stock, dead, receipts, supplied>>

\* Errors, or workers lost with the lease, spend the job's attempts.
DeadLetterJob(e) ==
  /\ e \in jobs
  /\ jobs' = jobs \ {e}
  /\ dead' = dead \cup {e}
  /\ UNCHANGED <<order, stock, receipts, supplied>>

RetryDeadLetter(e) ==
  /\ e \in dead
  /\ dead' = dead \ {e}
  /\ jobs' = jobs \cup {e}
  /\ UNCHANGED <<order, stock, receipts, supplied>>

\* Mutant: no check of the result.
AdjustableAnyway(v, delta) == TRUE
Adjustable(v, delta) == stock[v] + delta >= 0

\* adjust_stock by one unit.  It refuses to go below zero.
AdjustStock(v, delta) ==
  /\ Adjustable(v, delta)
  /\ supplied[v] + delta \in 0 .. MaxSupply
  /\ stock' = [stock EXCEPT ![v] = @ + delta]
  /\ supplied' = [supplied EXCEPT ![v] = @ + delta]
  /\ UNCHANGED <<order, jobs, dead, receipts>>

\* POST to an order's transition route.
TransitionOrder == \E o \in Order, to \in Target : TransitionWithEvent(o, to)

OrderNext ==
  \/ TransitionOrder
  \/ \E e \in jobs \cup dead :
       \/ ApplyOrderEvent(e)
       \/ AcknowledgeJob(e)
       \/ DeadLetterJob(e)
       \/ RetryDeadLetter(e)
  \/ \E v \in Variant, delta \in {-1, 1} : AdjustStock(v, delta)

OrderSpec == OrderInit /\ [][OrderNext]_orderVars

-----------------------------------------------------------------------------
\* The orders whose quantities are out of the stock once every event is applied.
Holding == {o \in Order : order[o] \in {"paid", "fulfilled", "shipped", "delivered"}}
Wanted(v) == [o \in Order |-> Items[o][v]]

\* Events that still have to reach the stock.
Outstanding == (jobs \cup dead) \ receipts
Deltas(v) == [e \in OrderEvent |-> Delta(e, v)]

\* The stock, the orders and the queue account for every unit: what was supplied,
\* less what the orders that were paid and not cancelled hold, less what the
\* events still queued or dead will add.  So each transition reaches the stock
\* exactly once, for all of its variants together, in whatever order the events
\* come, and none is lost between the order's row and the queue.
StockAccountsForOrders ==
  \A v \in Variant :
    stock[v] = supplied[v] - SumFunctionOnSet(Wanted(v), Holding)
                           - SumFunctionOnSet(Deltas(v), Outstanding)
=============================================================================
