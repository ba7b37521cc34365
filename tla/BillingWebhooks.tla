--------------------------- MODULE BillingWebhooks ---------------------------
(***************************************************************************)
(* Durable intent for provider events whose effects cannot be undone       *)
(* (billing-base/src/services/postgres/webhooks.rs): a delivery takes the  *)
(* event's advisory lock, commits an attempt on another connection, calls  *)
(* the provider, then records the receipt and removes the attempt in the   *)
(* transaction that holds the lock.  Whatever stops it in between leaves   *)
(* the attempt, and only an operator's resolution of that very attempt     *)
(* lets the event be tried again.                                          *)
(*                                                                         *)
(* A delivery that finds the lock taken, a receipt or an attempt answers   *)
(* and changes nothing: it is not an action.                               *)
(***************************************************************************)
EXTENDS Naturals

CONSTANTS
  Event, Delivery, Attempt,
  Nil,
  MaxBreaks  \* bound on crashes and broken connections

ASSUME BillingAssumption ==
  /\ Nil \notin Event \cup Delivery \cup Attempt
  /\ MaxBreaks \in Nat

VARIABLES
  completed, \* webhook_receipts
  attempts,  \* webhook_attempts: the attempt_id of the event's row, or Nil
  lock,      \* holder of the event's advisory lock
  phase,     \* where each delivery is
  event,     \* the event it delivers
  attempt,   \* the attempt it committed
  seen,      \* <<event, attempt_id>> operators have read, however long ago
  breaks,    \* crashes and broken connections so far
  started,   \* history: attempts whose effects began
  allowed,   \* history: attempts resolved with RetryAllowed
  severed    \* history: events whose lock broke before their intent was committed

billingVars == <<completed, attempts, lock, phase, event, attempt, seen, breaks,
                 started, allowed, severed>>

Phase == {"idle", "intent", "apply", "applying", "complete"}

BillingTypeOK ==
  /\ completed \subseteq Event
  /\ attempts \in [Event -> Attempt \cup {Nil}]
  /\ lock \in [Event -> Delivery \cup {Nil}]
  /\ phase \in [Delivery -> Phase]
  /\ event \in [Delivery -> Event \cup {Nil}]
  /\ attempt \in [Delivery -> Attempt \cup {Nil}]
  /\ seen \subseteq Event \X Attempt
  /\ breaks \in 0 .. MaxBreaks
  /\ started \in [Event -> SUBSET Attempt]
  /\ allowed \in [Event -> SUBSET Attempt]
  /\ severed \subseteq Event

BillingInit ==
  /\ completed = {}
  /\ attempts = [e \in Event |-> Nil]
  /\ lock = [e \in Event |-> Nil]
  /\ phase = [d \in Delivery |-> "idle"]
  /\ event = [d \in Delivery |-> Nil]
  /\ attempt = [d \in Delivery |-> Nil]
  /\ seen = {}
  /\ breaks = 0
  /\ started = [e \in Event |-> {}]
  /\ allowed = [e \in Event |-> {}]
  /\ severed = {}

-----------------------------------------------------------------------------
Reach(d, to) == phase' = [phase EXCEPT ![d] = to]

Unlocked(d) == [e \in Event |-> IF lock[e] = d THEN Nil ELSE lock[e]]

\* The call returns or dies: its transaction, and with it the lock, is gone.
Return(d) ==
  /\ Reach(d, "idle")
  /\ event' = [event EXCEPT ![d] = Nil]
  /\ attempt' = [attempt EXCEPT ![d] = Nil]
  /\ lock' = Unlocked(d)

\* Every attempt ever committed is of one event, and its uuid is fresh.
Fresh == {a \in Attempt :
            /\ \A e \in Event : a # attempts[e] /\ a \notin started[e] \cup allowed[e]
            /\ \A d \in Delivery : a # attempt[d]
            /\ \A e \in Event : <<e, a>> \notin seen}

\* with_webhook_receipt: lock, no receipt, no attempt.
Take(d, e) ==
  /\ phase[d] = "idle"
  /\ lock[e] = Nil
  /\ e \notin completed
  /\ attempts[e] = Nil
  /\ Reach(d, "intent")
  /\ event' = [event EXCEPT ![d] = e]
  /\ lock' = [lock EXCEPT ![e] = d]
  /\ UNCHANGED <<completed, attempts, attempt, seen, breaks, started, allowed, severed>>

\* The intent, on a connection of its own.  Its primary key refuses a second
\* attempt, its commit may succeed and still be answered with an error.
CommitIntent(d, a) ==
  /\ phase[d] = "intent"
  /\ a \in Fresh
  /\ attempts[event[d]] = Nil
  /\ attempts' = [attempts EXCEPT ![event[d]] = a]
  /\ \/ /\ Reach(d, "apply")
        /\ attempt' = [attempt EXCEPT ![d] = a]
        /\ UNCHANGED <<event, lock>>
     \/ Return(d)
  /\ UNCHANGED <<completed, seen, breaks, started, allowed, severed>>

RefusedIntent(d) ==
  /\ phase[d] = "intent"
  /\ attempts[event[d]] # Nil
  /\ Return(d)
  /\ UNCHANGED <<completed, attempts, seen, breaks, started, allowed, severed>>

\* The callback's effects begin; from here on they may have happened.
StartEffects(d) ==
  /\ phase[d] = "apply"
  /\ Reach(d, "applying")
  /\ started' = [started EXCEPT ![event[d]] = @ \cup {attempt[d]}]
  /\ UNCHANGED <<completed, attempts, lock, event, attempt, seen, breaks, allowed, severed>>

\* The callback succeeds, or fails and rolls the locking transaction back.
EndEffects(d) ==
  /\ phase[d] = "applying"
  /\ \/ Reach(d, "complete") /\ UNCHANGED <<lock, event, attempt>>
     \/ Return(d)
  /\ UNCHANGED <<completed, attempts, seen, breaks, started, allowed, severed>>

\* complete_webhook and commit, or the error of a transaction that has lost its
\* connection.
Complete(d) ==
  /\ phase[d] = "complete"
  /\ IF lock[event[d]] = d
     THEN /\ completed' = completed \cup {event[d]}
          /\ attempts' = [attempts EXCEPT ![event[d]] = Nil]
     ELSE UNCHANGED <<completed, attempts>>
  /\ Return(d)
  /\ UNCHANGED <<seen, breaks, started, allowed, severed>>

Broken(d) ==
  /\ phase[d] # "idle"
  /\ breaks < MaxBreaks
  /\ breaks' = breaks + 1
  /\ UNCHANGED <<completed, attempts, seen, started, allowed>>

Die(d) == Broken(d) /\ Return(d) /\ UNCHANGED severed

\* The connection that holds the lock breaks and the callback runs on.
LoseConnection(d) ==
  /\ Broken(d)
  /\ lock[event[d]] = d
  /\ lock' = Unlocked(d)
  /\ severed' = IF phase[d] = "intent" THEN severed \cup {event[d]} ELSE severed
  /\ UNCHANGED <<phase, event, attempt>>

\* pending_webhooks, running callbacks included.
InspectReceipt(e) ==
  /\ attempts[e] # Nil
  /\ seen' = seen \cup {<<e, attempts[e]>>}
  /\ UNCHANGED <<completed, attempts, lock, phase, event, attempt, breaks, started, allowed,
                 severed>>

\* Mutant: the event's lock is not tried.
UnlockedAnyway(e) == TRUE
\* pg_try_advisory_xact_lock: nobody processes the event.
Unheld(e) == lock[e] = Nil

\* Mutant: whatever attempt there is by now.
AnyAttempt(e, a) == attempts[e] # Nil
IsCurrent(e, a) == attempts[e] = a

\* resolve_webhook, under the event's lock and for the attempt inspected.
Resolve(e, a) ==
  /\ <<e, a>> \in seen
  /\ Unheld(e)
  /\ IsCurrent(e, a)
  /\ attempts' = [attempts EXCEPT ![e] = Nil]
  /\ \/ completed' = completed \cup {e} /\ UNCHANGED allowed
     \/ allowed' = [allowed EXCEPT ![e] = @ \cup {a}] /\ UNCHANGED completed
  /\ UNCHANGED <<lock, phase, event, attempt, seen, breaks, started, severed>>

BillingNext ==
  \/ \E d \in Delivery :
       \/ \E e \in Event : Take(d, e)
       \/ \E a \in Attempt : CommitIntent(d, a)
       \/ RefusedIntent(d) \/ StartEffects(d) \/ EndEffects(d) \/ Complete(d)
       \/ Die(d) \/ LoseConnection(d)
  \/ \E e \in Event : InspectReceipt(e) \/ \E a \in Attempt : Resolve(e, a)

BillingSpec == BillingInit /\ [][BillingNext]_billingVars

-----------------------------------------------------------------------------
\* Effects are never repeated on their own: of the attempts of one event whose
\* effects began, all but one were released by an operator.  Crashes, errors,
\* answers lost and connections broken under the callback make no difference;
\* only a lock lost between the checks and the intent does.
NeverRepeated ==
  \A e \in Event \ severed :
    \A a, b \in started[e] \ allowed[e] : a = b

\* A callback that still has its lock has its attempt on record and no receipt
\* against it: no resolution, fresh or stale, was applied under it.
ActiveIsUnresolved ==
  \A d \in Delivery :
    phase[d] \in {"apply", "applying", "complete"} /\ lock[event[d]] = d =>
      attempts[event[d]] = attempt[d] /\ event[d] \notin completed
=============================================================================
