---------------------------- MODULE WorkerRunner ----------------------------
(***************************************************************************)
(* One run of the worker runner (worker-database/src/runner.rs): the       *)
(* consumers of run_controlled under a WorkerControl (control.rs), working *)
(* on a store that keeps JobQueueContract.                                 *)
(*                                                                         *)
(* The store's steps are the contract's own actions.  Time is counted down *)
(* in every timer: the leases, the renewal ticks, the operation timeouts   *)
(* and the drain timeouts.  A request takes effect once, at any time       *)
(* before its deadline, and its reply arrives at any later time; a request *)
(* the runner gave up on may still take effect afterwards (`stray`).       *)
(*                                                                         *)
(* With Prompt, a timer that has run out is served before time goes on: a  *)
(* loaded or blocked executor is the other case.  A consumer that crashes  *)
(* is one that takes no more steps.                                        *)
(***************************************************************************)
EXTENDS Naturals, FiniteSets

CONSTANTS
  Consumer,       \* concurrent handler batches
  Job,            \* the queue's jobs, all of them due
  NoToken,
  Off,            \* no drain timeout is running
  MaxAttempts,    \* their retry budget
  BatchSize, LeaseDuration, RenewInterval, DrainTimeout,  \* RunnerConfig
  Prompt,         \* whether the executor serves expired timers in time
  MaxSignals      \* bound on pauses and resumes

(* RunnerConfig::validate. *)
ASSUME RunnerAssumption ==
  /\ MaxAttempts \in Nat \ {0} /\ BatchSize \in Nat \ {0}
  /\ RenewInterval \in Nat \ {0} /\ 3 * RenewInterval <= LeaseDuration
  /\ LeaseDuration \in Nat /\ DrainTimeout \in Nat \ {0}
  /\ Prompt \in BOOLEAN /\ MaxSignals \in Nat
  /\ Off \notin Nat

VARIABLES
  status, attempts, outcome, \* the store (see JobQueueContract)
  left,      \* time left of the lease of a processing job
  control,   \* WorkerControl: the shared WorkerState
  stopping,  \* run_controlled: the stop channel's value
  joined,    \* run_controlled: consumers whose result was collected
  failed,    \* run_controlled: whether first_error is set
  pc,        \* where each consumer is
  batch,     \* the leases of its current batch
  timer,     \* time left to its operation timeout or renewal tick
  drain,     \* time left to its drain timeout, or Off
  asked,     \* requests it waits for that have not taken effect
  reply,     \* what the requests that took effect answered, by lease
  stray,     \* requests given up on that may still take effect
  fate,      \* what its report says became of a delivery
  signals    \* pauses and resumes so far

store  == <<status, attempts, outcome, left>>
run    == <<control, stopping, joined, failed, signals>>
worker == <<pc, batch, timer, drain, asked, reply, fate>>
vars   == <<store, run, worker, stray>>

Delivery == [job : Job, attempt : 1..MaxAttempts]
Request  == [by : Consumer, op : {"renew", "ack", "fail"}, lease : Delivery]
              \cup [by : Consumer, op : {"claim"}]
Answer   == {"renewed", "acked", "retry", "dead", "lost"}
Busy     == {"working", "renewing", "settling"}

\* A delivery's token: which claim of the job it was.
Store == INSTANCE JobQueueContract WITH
  Token       <- Delivery,
  Budget      <- {MaxAttempts},
  MaxArrivals <- 0,
  maxAttempts <- [j \in Job |-> MaxAttempts],
  delayed     <- [j \in Job |-> FALSE],
  token       <- [j \in Job |-> IF status[j] = "processing"
                                  THEN [job |-> j, attempt |-> attempts[j]] ELSE NoToken],
  lapsed      <- [j \in Job |-> status[j] = "processing" /\ left[j] = 0],
  issued      <- [j \in Job |-> {d \in Delivery : d.job = j /\ d.attempt <= attempts[j]}],
  arrivals    <- 0

TypeOK ==
  /\ status \in [Job -> Store!Status] /\ attempts \in [Job -> 0..MaxAttempts]
  /\ outcome \in [Delivery -> {"open", "acked", "failed"}]
  /\ left \in [Job -> 0..LeaseDuration]
  /\ control \in {"running", "paused", "draining"}
  /\ stopping \in BOOLEAN /\ failed \in BOOLEAN /\ joined \subseteq Consumer
  /\ stopping => control = "draining"
  /\ pc \in [Consumer -> {"look", "submit", "claiming", "idle", "done", "error"} \cup Busy]
  /\ batch \in [Consumer -> SUBSET Delivery]
  /\ \A c, e \in Consumer : c # e => batch[c] \cap batch[e] = {}
  /\ timer \in [Consumer -> 0..RenewInterval]
  /\ drain \in [Consumer -> {Off} \cup 0..DrainTimeout]
  /\ asked \in [Consumer -> SUBSET Request] /\ stray \subseteq Request
  /\ \A c \in Consumer : DOMAIN reply[c] \subseteq batch[c]
  /\ \A c \in Consumer : \A d \in DOMAIN reply[c] : reply[c][d] \in Answer
  /\ fate \in [Delivery -> {"none", "received", "lost", "abandoned"} \cup Answer]

\* The run starts as many consumers as its concurrency says; the others have
\* nothing left to do.
Init ==
  /\ status \in [Job -> {"absent", "queued"}] /\ attempts = [j \in Job |-> 0]
  /\ outcome = [d \in Delivery |-> "open"] /\ left = [j \in Job |-> 0]
  /\ control = "running" /\ stopping = FALSE /\ failed = FALSE
  /\ joined \in (SUBSET Consumer) \ {Consumer}
  /\ pc = [c \in Consumer |-> IF c \in joined THEN "done" ELSE "look"] /\ batch = [c \in Consumer |-> {}]
  /\ timer = [c \in Consumer |-> 0] /\ drain = [c \in Consumer |-> Off]
  /\ asked = [c \in Consumer |-> {}] /\ reply = [c \in Consumer |-> <<>>]
  /\ stray = {} /\ fate = [d \in Delivery |-> "none"]
  /\ signals = 0

-----------------------------------------------------------------------------
(* WorkerControl::set: nothing leaves Draining. *)
SetAlways(state) == control' = state   \* mutant: drain can be undone
Set(state) == control' = IF control = "draining" THEN control ELSE state

(* pause, resume and drain, called locally or by forward_signals (a bus     *)
(* error drains).                                                           *)
Signal(state) ==
  /\ signals < MaxSignals
  /\ Set(state)
  /\ signals' = signals + 1
  /\ UNCHANGED <<store, worker, stray, stopping, joined, failed>>

(* run_controlled: the caller's shutdown or the drain stops all consumers.  *)
StopOnly == UNCHANGED control /\ stopping' = TRUE   \* mutant: the control stays
StopAll == /\ Set("draining")
           /\ stopping' = TRUE

Shutdown ==
  /\ ~stopping
  /\ StopAll
  /\ UNCHANGED <<store, worker, stray, joined, failed, signals>>

DrainSeen == control = "draining" /\ Shutdown

(* run_controlled collects a consumer's result; an error stops the others.  *)
\* Mutant: the others go on.
CollectQuietly(c) ==
  /\ pc[c] \in {"done", "error"} /\ c \notin joined
  /\ joined' = joined \cup {c}
  /\ failed' = (failed \/ pc[c] = "error")
  /\ UNCHANGED <<store, worker, stray, signals, control, stopping>>
Collect(c) ==
  /\ pc[c] \in {"done", "error"} /\ c \notin joined
  /\ joined' = joined \cup {c}
  /\ IF pc[c] = "error"
       THEN StopAll /\ failed' = TRUE
       ELSE UNCHANGED <<control, stopping, failed>>
  /\ UNCHANGED <<store, worker, stray, signals>>

Returned == joined = Consumer

-----------------------------------------------------------------------------
(* run_single.  A consumer's future ends: what it still asked for is        *)
(* dropped, and may or may not take effect.                                 *)
End(c, how) ==
  /\ pc' = [pc EXCEPT ![c] = how]
  /\ batch' = [batch EXCEPT ![c] = {}]
  /\ timer' = [timer EXCEPT ![c] = 0]
  /\ drain' = [drain EXCEPT ![c] = Off]
  /\ stray' = stray \cup asked[c]
  /\ asked' = [asked EXCEPT ![c] = {}]
  /\ reply' = [reply EXCEPT ![c] = <<>>]

Goto(c, l) == pc' = [pc EXCEPT ![c] = l]

Look(c) ==
  /\ pc[c] = "look"
  /\ control = "running"
  /\ Goto(c, "submit")
  /\ UNCHANGED <<store, run, stray, batch, timer, drain, asked, reply, fate>>

\* Draining is seen directly; a paused consumer is told by the stop channel.
LookEnds(c) ==
  /\ pc[c] = "look"
  /\ control = "draining" \/ stopping
  /\ End(c, "done")
  /\ UNCHANGED <<store, run, fate>>

\* Nothing is awaited between Look and here, but the control is shared.
SendClaim(c) ==
  /\ pc[c] = "submit"
  /\ ~stopping
  /\ Goto(c, "claiming")
  /\ timer' = [timer EXCEPT ![c] = RenewInterval]
  /\ asked' = [asked EXCEPT ![c] = {[by |-> c, op |-> "claim"]}]
  /\ UNCHANGED <<store, stray, control, stopping, joined, failed, signals,
                 batch, drain, reply, fate>>

\* The stop channel wins over a reply that is there.
CancelClaim(c) ==
  /\ pc[c] \in {"submit", "claiming", "idle"}
  /\ stopping
  /\ End(c, "done")
  /\ UNCHANGED <<store, run, fate>>

ClaimAnswered(c) == pc[c] = "claiming" /\ asked[c] = {} /\ ~stopping

ClaimedNothing(c) ==
  /\ ClaimAnswered(c) /\ batch[c] = {}
  /\ Goto(c, "idle")
  /\ timer' = [timer EXCEPT ![c] = 0]
  /\ UNCHANGED <<store, run, stray, batch, drain, asked, reply, fate>>

\* The poll interval is over, or the state changed.
Wake(c) ==
  /\ pc[c] = "idle"
  /\ ~stopping
  /\ Goto(c, "look")
  /\ UNCHANGED <<store, run, stray, batch, timer, drain, asked, reply, fate>>

\* Mutant: the first renewal is a tick late.
FirstTickLate == RenewInterval + 1
FirstTick == RenewInterval

StartWork(c) ==
  /\ ClaimAnswered(c) /\ batch[c] # {}
  /\ Goto(c, "working")
  /\ timer' = [timer EXCEPT ![c] = FirstTick]
  /\ fate' = [d \in Delivery |-> IF d \in batch[c] THEN "received" ELSE fate[d]]
  /\ UNCHANGED <<store, run, stray, batch, drain, asked, reply>>

-----------------------------------------------------------------------------
(* process, under the drain timeout once the consumer was stopped. *)
StartDrain(c) ==
  /\ pc[c] \in Busy
  /\ stopping /\ drain[c] = Off
  /\ drain' = [drain EXCEPT ![c] = DrainTimeout]
  /\ UNCHANGED <<store, run, stray, pc, batch, timer, asked, reply, fate>>

Polled(c) == ~stopping \/ drain[c] # Off

\* Sends one request for each lease of the batch: op[d] for lease d.
Ask(c, l, op) ==
  /\ Goto(c, l)
  /\ timer' = [timer EXCEPT ![c] = RenewInterval]
  /\ asked' = [asked EXCEPT ![c] =
                 {[by |-> c, op |-> op[d], lease |-> d] : d \in batch[c]}]
  /\ reply' = [reply EXCEPT ![c] = <<>>]

StartRenewal(c) ==
  /\ pc[c] = "working" /\ timer[c] = 0
  /\ Polled(c)
  /\ Ask(c, "renewing", [d \in batch[c] |-> "renew"])
  /\ UNCHANGED <<store, run, stray, batch, drain, fate>>

\* The handler ends; an error or an invalid result fails the whole batch.
WorkDone(c, bad) ==
  /\ pc[c] = "working"
  /\ Polled(c)
  /\ Ask(c, "settling",
         [d \in batch[c] |-> IF d \in bad THEN "fail" ELSE "ack"])
  /\ UNCHANGED <<store, run, stray, batch, drain, fate>>

Answered(c) == asked[c] = {} /\ Polled(c)
LostOf(c) == {d \in batch[c] : reply[c][d] = "lost"}

\* The next tick is due RenewInterval after the last one, as the timeout is.
Renewed(c) ==
  /\ pc[c] = "renewing" /\ Answered(c)
  /\ LostOf(c) = {}
  /\ Goto(c, "working")
  /\ reply' = [reply EXCEPT ![c] = <<>>]
  /\ UNCHANGED <<store, run, stray, batch, timer, drain, asked, fate>>

\* After a batch: the report, and on to the next claim unless stopped.
NextBatch(c, report) ==
  /\ End(c, IF stopping THEN "done" ELSE "look")
  /\ fate' = [d \in Delivery |-> IF d \in batch[c] THEN report[d] ELSE fate[d]]
  /\ UNCHANGED <<store, run>>

\* Mutant: only the lost leases are reported.
OnlyLost(c) == [d \in batch[c] |-> IF d \in LostOf(c) THEN "lost" ELSE fate[d]]
LostReport(c) == [d \in batch[c] |-> IF d \in LostOf(c) THEN "lost" ELSE "abandoned"]

RenewalLost(c) ==
  /\ pc[c] = "renewing" /\ Answered(c)
  /\ LostOf(c) # {}
  /\ NextBatch(c, LostReport(c))

\* Mutant: the answers of ack are not looked at.
SettledBlindly(c) ==
  /\ pc[c] = "settling" /\ Answered(c)
  /\ NextBatch(c, [d \in batch[c] |-> IF reply[c][d] = "lost" THEN "acked" ELSE reply[c][d]])
Settled(c) ==
  /\ pc[c] = "settling" /\ Answered(c)
  /\ NextBatch(c, reply[c])

DrainTimedOut(c) ==
  /\ drain[c] = 0
  /\ NextBatch(c, [d \in batch[c] |-> "abandoned"])

\* A queue operation times out or returns an error: its report is lost.
OperationFails(c) ==
  /\ \/ pc[c] = "claiming" /\ ~stopping
     \/ pc[c] \in {"renewing", "settling"} /\ Polled(c)
  /\ End(c, "error")
  /\ UNCHANGED <<store, run, fate>>

TimedOut(c) == timer[c] = 0 /\ OperationFails(c)

-----------------------------------------------------------------------------
(* The store. *)
StoreClaims(C) ==
  /\ C \subseteq Store!Claimable
  /\ Cardinality(C) <= BatchSize
  /\ left' = [j \in Job |-> IF j \in C THEN LeaseDuration ELSE left[j]]
  /\ Store!Claim(Store!Exhausted, {}, C, {},
                 [j \in C |-> [job |-> j, attempt |-> attempts[j] + 1]])

Unleased(j) == left' = [left EXCEPT ![j] = 0]

StoreAnswers(op, d, a) ==
  \/ /\ op = "renew" /\ a = "renewed"
     /\ Store!Holds(d.job, d)
     /\ left' = [left EXCEPT ![d.job] = LeaseDuration]
     /\ UNCHANGED <<status, attempts, outcome>>
  \/ /\ op = "ack" /\ a = "acked"
     /\ UNCHANGED attempts /\ Unleased(d.job)
     /\ Store!Ack(d.job, d)
  \/ /\ op = "fail"
     /\ a = IF attempts[d.job] < MaxAttempts THEN "retry" ELSE "dead"
     /\ UNCHANGED attempts /\ Unleased(d.job)
     /\ Store!Fail(d.job, d, FALSE)
  \/ /\ a = "lost"
     /\ ~Store!Holds(d.job, d)
     /\ UNCHANGED store

\* An awaited request takes effect strictly before its deadline.
InTime(c) == timer[c] > 0 \/ ~Prompt

ServeClaim(c, C) ==
  /\ pc[c] = "claiming" /\ asked[c] # {}
  /\ InTime(c)
  /\ StoreClaims(C)
  /\ batch' = [batch EXCEPT ![c] =
                 {[job |-> j, attempt |-> attempts[j] + 1] : j \in C}]
  /\ asked' = [asked EXCEPT ![c] = {}]
  /\ UNCHANGED <<run, stray, pc, timer, drain, reply, fate>>

Serve(c, r, a) ==
  /\ pc[c] \in {"renewing", "settling"} /\ r \in asked[c]
  /\ InTime(c)
  /\ StoreAnswers(r.op, r.lease, a)
  /\ asked' = [asked EXCEPT ![c] = @ \ {r}]
  /\ reply' = [reply EXCEPT ![c] =
                 [d \in DOMAIN @ \cup {r.lease} |-> IF d = r.lease THEN a ELSE @[d]]]
  /\ UNCHANGED <<run, stray, pc, batch, timer, drain, fate>>

\* Nobody waits for the reply any more.
ServeStray(r) ==
  /\ r \in stray
  /\ IF r.op = "claim" THEN \E C \in SUBSET Job : StoreClaims(C)
                       ELSE \E a \in Answer : StoreAnswers(r.op, r.lease, a)
  /\ stray' = stray \ {r}
  /\ UNCHANGED <<run, worker>>

-----------------------------------------------------------------------------
(* Time. *)
Overdue(c) == \/ pc[c] \in Busy \cup {"claiming"} /\ timer[c] = 0
              \/ drain[c] = 0
Down(n) == IF n = 0 THEN 0 ELSE n - 1

Tick ==
  /\ Prompt => \A c \in Consumer : ~Overdue(c)
  /\ timer' = [c \in Consumer |-> Down(timer[c])]
  /\ drain' = [c \in Consumer |-> IF drain[c] = Off THEN Off ELSE Down(drain[c])]
  /\ left' = [j \in Job |-> Down(left[j])]
  /\ UNCHANGED <<status, attempts, outcome, run, stray, pc, batch, asked, reply, fate>>

Step(c) ==
  \/ Look(c)
  \/ LookEnds(c)
  \/ SendClaim(c)
  \/ CancelClaim(c)
  \/ ClaimedNothing(c)
  \/ Wake(c)
  \/ StartWork(c)
  \/ StartDrain(c)
  \/ StartRenewal(c)
  \/ Renewed(c)
  \/ RenewalLost(c)
  \/ Settled(c)
  \/ DrainTimedOut(c)

Next ==
  \/ Tick
  \/ \E s \in {"running", "paused", "draining"} : Signal(s)
  \/ Shutdown
  \/ \E c \in Consumer :
       \/ Collect(c)
       \/ Step(c)
       \/ OperationFails(c)
       \/ \E bad \in SUBSET batch[c] : WorkDone(c, bad)
       \/ \E C \in SUBSET Job : ServeClaim(c, C)
       \/ \E r \in asked[c], a \in Answer : Serve(c, r, a)
  \/ \E r \in stray : ServeStray(r)

Spec == Init /\ [][Next]_vars

(* The executor keeps polling the runner and its timers fire.  Nothing is   *)
(* assumed of the store, the handlers or the bus.                           *)
Fairness ==
  /\ WF_vars(Tick) /\ WF_vars(DrainSeen)
  /\ \A c \in Consumer : WF_vars(Collect(c)) /\ WF_vars(Step(c)) /\ WF_vars(TimedOut(c))

FairSpec == Spec /\ Fairness

-----------------------------------------------------------------------------
(* Properties. *)

(* With an executor that is in time, renew_interval <= lease_duration / 3   *)
(* is enough: until a handler is settled or cancelled, no lease of its      *)
(* batch lapses, however slow the claim's and the renewals' replies are.    *)
(* So no other consumer processes the job meanwhile.                        *)
LeasesOutliveWork ==
  \A c \in Consumer : \A d \in batch[c] :
    (pc[c] = "working" \/ (pc[c] = "renewing" /\ timer[c] > 0)) =>
      Store!Holds(d.job, d)

(* A run that returns Ok reports what became of every delivery it was       *)
(* given, and what it reports is what the store did: an acknowledgement or  *)
(* failure it counts was accepted, a lease it calls lost settled nothing.   *)
ReportIsTrue ==
  Returned /\ ~failed =>
    \A d \in Delivery :
      /\ fate[d] # "received"
      /\ fate[d] = "acked" => outcome[d] = "acked"
      /\ fate[d] \in {"retry", "dead"} => outcome[d] = "failed"
      /\ fate[d] = "lost" => outcome[d] = "open"

(* A job is reported completed for one delivery only, even if an executor   *)
(* that stalls lets leases lapse under its handlers.                        *)
CompletedOnce ==
  \A d, e \in Delivery :
    d.job = e.job /\ fate[d] = "acked" /\ fate[e] = "acked" => d = e

(* A drain ends the run, whatever the handlers, the store and later signals *)
(* do; so does the error of one consumer.                                   *)
RunReturns == (control = "draining" \/ \E c \in Consumer : pc[c] = "error") ~> Returned

(* runner.rs:147: "A drain timeout cancels the handler and leaves its       *)
(* delivery recoverable after lease expiry."                                *)
AbandonedIsRecoverable ==
  \A d \in Delivery : fate[d] = "abandoned" => outcome[d] = "open"
=============================================================================
