--------------------------- MODULE WorkerRetention ---------------------------
(***************************************************************************)
(* run_worker_controlled (worker-database/src/retention.rs): consumers and *)
(* the maintenance that purges terminal jobs, as two futures of one task,  *)
(* with a loop that stops both when either ends.                           *)
(*                                                                         *)
(* The consumers (run_controlled, see WorkerRunner) are reduced to what    *)
(* that loop sees of them: they claim while the control says Running and   *)
(* no stop was sent, and return when told to and their handlers are done.  *)
(* `due` are the terminal jobs past the age of their status.               *)
(***************************************************************************)
EXTENDS Naturals, FiniteSetsExt

CONSTANTS
  Enabled,    \* the statuses whose age is configured
  BatchLimit, \* RetentionPolicy.batch_limit
  MaxDue,     \* bound on terminal jobs of a status
  MaxJobs     \* bound on jobs claimed

Statuses == {"completed", "failed"}

ASSUME RetentionAssumption ==
  /\ Enabled \subseteq Statuses /\ Enabled # {}
  /\ BatchLimit \in Nat \ {0} /\ MaxDue \in Nat /\ MaxJobs \in Nat

VARIABLES
  jobControl, shutdown, \* the WorkerControl, and whether the caller's future is ready
  stop,                 \* the watch channel of the two futures
  worker, active,       \* the consumers, and how many handlers they run
  claimed,              \* jobs claimed so far
  due,
  maintenance,          \* waiting for a tick, or the status it purges
  request,              \* its purge_terminal: unsent, in flight, or answered with a count
  purged, counted,      \* jobs deleted for it (a history), RetentionReport
  open,                 \* the futures not finished yet
  stopping, error, returned

jobs == <<worker, active, claimed>>
upkeep == <<maintenance, request, purged, counted>>
loop == <<stopping, open, error, returned>>
retentionVars == <<jobControl, shutdown, stop, jobs, due, upkeep, loop>>

Unsent   == [phase |-> "unsent", count |-> 0]
InFlight == [phase |-> "sent", count |-> 0]

RetentionTypeOK ==
  /\ jobControl \in {"running", "paused", "draining"}
  /\ shutdown \in BOOLEAN /\ stop \in BOOLEAN
  /\ worker \in {"running", "failing", "ok", "error"}
  /\ active \in 0..claimed /\ claimed \in 0..MaxJobs
  /\ due \in [Statuses -> Nat]
  /\ maintenance \in Enabled \cup {"tick", "ok", "error"}
  /\ request \in [phase : {"unsent", "sent", "answered", "stray"}, count : Nat]
  /\ purged \in Nat /\ counted \in Nat
  /\ open \subseteq {"worker", "maintenance"}
  /\ stopping \in BOOLEAN /\ error \in {"none", "worker", "maintenance"}
  /\ returned \in BOOLEAN
  /\ stop => jobControl = "draining"

RetentionInit ==
  /\ jobControl = "running" /\ shutdown = FALSE /\ stop = FALSE
  /\ worker = "running" /\ active = 0 /\ claimed = 0
  /\ due \in [Statuses -> 0..MaxDue]
  /\ maintenance = "tick" /\ request = Unsent /\ purged = 0 /\ counted = 0
  /\ open = {"worker", "maintenance"}
  /\ stopping = FALSE /\ error = "none" /\ returned = FALSE

-----------------------------------------------------------------------------
(* From outside: the control's users and the caller's shutdown. *)

SetControl(state) ==
  /\ jobControl # "draining"
  /\ jobControl' = state
  /\ UNCHANGED <<shutdown, stop, jobs, due, upkeep, loop>>

Shutdown ==
  /\ shutdown' = TRUE
  /\ UNCHANGED <<jobControl, stop, jobs, due, upkeep, loop>>

-----------------------------------------------------------------------------
(* The consumers. *)

Claim ==
  /\ worker = "running" /\ jobControl = "running" /\ ~stop
  /\ claimed < MaxJobs
  /\ claimed' = claimed + 1 /\ active' = active + 1
  /\ UNCHANGED <<jobControl, shutdown, stop, worker, due, upkeep, loop>>

\* A handler ends, or the drain abandons it; its job may become terminal.
Finish ==
  /\ active > 0
  /\ active' = active - 1
  /\ \/ UNCHANGED due
     \/ \E s \in Statuses : due' = [due EXCEPT ![s] = @ + 1]
  /\ UNCHANGED <<jobControl, shutdown, stop, worker, claimed, upkeep, loop>>

WorkerFails ==
  /\ worker = "running"
  /\ worker' = "failing"
  /\ UNCHANGED <<jobControl, shutdown, stop, active, claimed, due, upkeep, loop>>

WorkerReturns ==
  /\ worker \in {"running", "failing"} /\ active = 0
  /\ worker = "failing" \/ stop \/ jobControl = "draining"
  /\ worker' = IF worker = "failing" THEN "error" ELSE "ok"
  /\ UNCHANGED <<jobControl, shutdown, stop, active, claimed, due, upkeep, loop>>

-----------------------------------------------------------------------------
(* The maintenance: run. *)

\* The statuses of a tick, in the order of the loop.
First == IF "completed" \in Enabled THEN "completed" ELSE "failed"
After(s) == IF s = "completed" /\ "failed" \in Enabled THEN "failed" ELSE "tick"

MaintenanceTick ==
  /\ maintenance = "tick" /\ ~stop
  /\ maintenance' = First /\ request' = InFlight
  /\ UNCHANGED <<jobControl, shutdown, stop, jobs, due, purged, counted, loop>>

\* purge_terminal takes effect, also when nobody waits for it any more.
Purge(s) ==
  /\ request.phase \in {"sent", "stray"}
  /\ maintenance \in Enabled => s = maintenance
  /\ LET n == Min({due[s], BatchLimit})
     IN  /\ due' = [due EXCEPT ![s] = @ - n]
         /\ purged' = purged + n
         /\ request' = IF request.phase = "sent"
                         THEN [phase |-> "answered", count |-> n] ELSE Unsent
  /\ UNCHANGED <<jobControl, shutdown, stop, jobs, maintenance, counted, loop>>

Answered ==
  /\ maintenance \in Enabled /\ request.phase = "answered" /\ ~stop
  /\ counted' = counted + request.count
  /\ maintenance' = After(maintenance)
  /\ request' = IF maintenance' = "tick" THEN Unsent ELSE InFlight
  /\ UNCHANGED <<jobControl, shutdown, stop, jobs, due, purged, loop>>

\* Storage failure or timeout: a request that is not answered may still come.
Unawaited == IF request.phase = "sent" THEN [request EXCEPT !.phase = "stray"] ELSE Unsent

PurgeFails ==
  /\ maintenance \in Enabled /\ ~stop
  /\ maintenance' = "error" /\ request' = Unawaited
  /\ UNCHANGED <<jobControl, shutdown, stop, jobs, due, purged, counted, loop>>

MaintenanceStops ==
  /\ maintenance \in Enabled \cup {"tick"} /\ stop
  /\ maintenance' = "ok" /\ request' = Unawaited
  /\ UNCHANGED <<jobControl, shutdown, stop, jobs, due, purged, counted, loop>>

-----------------------------------------------------------------------------
(* The loop of run_worker_controlled. *)

\* Mutant: only the control is drained.
StopAllDrainOnly == jobControl' = "draining" /\ stopping' = TRUE /\ stop' = stop
StopAll == jobControl' = "draining" /\ stopping' = TRUE /\ stop' = TRUE

FirstError(part, outcome) ==
  IF error = "none" /\ outcome = "error" THEN part ELSE error

SeeShutdown ==
  /\ ~stopping /\ open # {}
  /\ shutdown \/ jobControl = "draining"
  /\ StopAll
  /\ UNCHANGED <<shutdown, jobs, due, upkeep, open, error, returned>>

PartEnded(part, outcome) ==
  /\ part \in open /\ outcome \in {"ok", "error"}
  /\ open' = open \ {part}
  /\ error' = FirstError(part, outcome)
  /\ StopAll
  /\ UNCHANGED <<shutdown, jobs, due, upkeep, returned>>

ReturnReport ==
  /\ open = {} /\ ~returned
  /\ returned' = TRUE
  /\ UNCHANGED <<jobControl, shutdown, stop, jobs, due, upkeep, stopping, open, error>>

Poll == SeeShutdown \/ PartEnded("worker", worker) \/ PartEnded("maintenance", maintenance) \/ ReturnReport

RetentionNext ==
  \/ \E state \in {"running", "paused", "draining"} : SetControl(state)
  \/ Shutdown
  \/ Claim
  \/ Finish
  \/ WorkerFails
  \/ WorkerReturns
  \/ MaintenanceTick
  \/ \E s \in Enabled : Purge(s)
  \/ Answered
  \/ PurgeFails
  \/ MaintenanceStops
  \/ Poll

RetentionSpec == RetentionInit /\ [][RetentionNext]_retentionVars

(* The task is polled while one of its futures is ready; handlers end or    *)
(* are abandoned; a purge is answered or times out; the interval passes.    *)
RetentionFairness ==
  /\ WF_retentionVars(Poll) /\ WF_retentionVars(Finish) /\ WF_retentionVars(WorkerReturns)
  /\ WF_retentionVars(MaintenanceTick) /\ WF_retentionVars(MaintenanceStops)
  /\ WF_retentionVars(Answered) /\ WF_retentionVars(PurgeFails \/ \E s \in Enabled : Purge(s))

RetentionFairSpec == RetentionSpec /\ RetentionFairness

-----------------------------------------------------------------------------
(* Properties. *)

\* Nothing runs on, and a failure is what the call returns.
EndedWell ==
  /\ returned
  /\ active = 0 /\ worker \in {"ok", "error"} /\ maintenance \in {"ok", "error"}
  /\ "error" \in {worker, maintenance} => error # "none"
  /\ counted <= purged

(* retention.rs:125: "A failure in either component stops the other and      *)
(* drains handlers before returning".  When the caller shuts down, the       *)
(* control drains or either component fails, the other one is stopped,       *)
(* however it waits, and the call returns: no handler runs any more, no      *)
(* purge is waited for, a failure is what it returns, whatever the component *)
(* that ended second says, and the report counts no purge twice.             *)
EndsTogether ==
  (shutdown \/ jobControl = "draining" \/ "error" \in {worker, maintenance}) ~> EndedWell
=============================================================================
