----------------------------- MODULE KafkaWorker -----------------------------
(***************************************************************************)
(* KafkaWorker::run (worker-kafka/src/client.rs): the replicas of one      *)
(* consumer group on one partition of a queue's topic.                     *)
(*                                                                         *)
(* A replica handles one record at a time and settles it in a transaction: *)
(* the retry or dead-letter record it produces and the group offset are    *)
(* committed together.  The shared WorkerControl is read four times in an  *)
(* iteration, and another thread may change it between any two.            *)
(*                                                                         *)
(* The broker is external: the group coordinator may take the partition    *)
(* from a replica at any time, rejects the offsets of an old generation,   *)
(* and gives the partition out only when no offset commit is pending.      *)
(* Offsets count from 1; `committed` is the next record of the group.      *)
(***************************************************************************)
EXTENDS Naturals, Sequences

CONSTANTS
  Worker, Job, Nobody,
  MaxAttempts,    \* RetryPolicy.max_attempts
  MaxBuffer,      \* records kept aside while paused (1000 in the code)
  MaxSignals,     \* bound on pauses and resumes
  MaxEvictions,   \* bound on partitions taken from a replica
  MaxFailures,    \* bound on errors, uncertain commits and crashes
  MaxReruns       \* bound on further calls of run on one KafkaWorker

ASSUME KafkaAssumption ==
  /\ Nobody \notin Worker
  /\ MaxAttempts \in Nat \ {0} /\ MaxBuffer \in Nat
  /\ MaxSignals \in Nat /\ MaxEvictions \in Nat /\ MaxFailures \in Nat
  /\ MaxReruns \in Nat

VARIABLES
  log,        \* the partition's committed records
  committed,  \* the group's offset
  dead,       \* how often each job was dead-lettered
  owner, generation, \* the coordinator's view of the group
  joined,     \* the generation each replica believes to own, or 0
  epoch,      \* LoggingContext::epoch
  position,   \* the next record a replica fetches
  halted,     \* whether its partition is paused
  control, pc,
  current,    \* the delivery being processed
  verdict,    \* what the handler made of it
  buffered,   \* deliveries kept aside
  sent,       \* whether its offsets are in an open transaction
  healthy,    \* KafkaProducer::healthy
  settled,    \* history: committed transactions for an offset
  overtaken,  \* history: a record was taken before one kept aside
  signals, evictions, failures, reruns

broker  == <<log, committed, dead, settled, overtaken>>
group   == <<owner, generation>>
client  == <<joined, epoch, position, halted>>
handle  == <<sent, healthy>>
bounds  == <<signals, evictions, failures, reruns>>
vars == <<broker, group, client, control, pc, current, verdict, buffered, handle, bounds>>

Offset   == 1..Len(log)
None     == [offset |-> 0, generation |-> 0, epoch |-> 0]
Delivery == [offset : Nat, generation : Nat, epoch : Nat]

TypeOK ==
  /\ log \in Seq([job : Job, attempts : 0..(MaxAttempts - 1)])
  /\ committed \in 1..(Len(log) + 1)
  /\ dead \in [Job -> Nat]
  /\ owner \in Worker \cup {Nobody} /\ generation \in Nat
  /\ joined \in [Worker -> 0..generation]
  /\ epoch \in [Worker -> Nat]
  /\ position \in [Worker -> 1..(Len(log) + 1)]
  /\ halted \in [Worker -> BOOLEAN]
  /\ control \in [Worker -> {"running", "paused", "draining"}]
  /\ pc \in [Worker -> {"loop", "assign", "choose", "recv", "received", "start",
                        "handling", "settle", "send", "commit", "ended"}]
  /\ current \in [Worker -> Delivery]
  /\ verdict \in [Worker -> {"none", "completed", "retry", "dead"}]
  /\ buffered \in [Worker -> Seq(Delivery)]
  /\ sent \in [Worker -> BOOLEAN] /\ healthy \in [Worker -> BOOLEAN]
  /\ settled \in [1..Len(log) -> Nat] /\ overtaken \in BOOLEAN
  /\ signals \in Nat /\ evictions \in Nat /\ failures \in Nat /\ reruns \in Nat

\* The jobs were published before, each with no attempt made.
Init ==
  /\ log \in {q \in [1..2 -> [job : Job, attempts : {0}]] : q[1] # q[2]}
  /\ committed = 1 /\ dead = [j \in Job |-> 0]
  /\ owner = Nobody /\ generation = 0
  /\ joined = [w \in Worker |-> 0] /\ epoch = [w \in Worker |-> 0]
  /\ position = [w \in Worker |-> 1] /\ halted = [w \in Worker |-> FALSE]
  /\ control = [w \in Worker |-> "running"] /\ pc = [w \in Worker |-> "loop"]
  /\ current = [w \in Worker |-> None] /\ verdict = [w \in Worker |-> "none"]
  /\ buffered = [w \in Worker |-> <<>>] /\ sent = [w \in Worker |-> FALSE]
  /\ healthy = [w \in Worker |-> TRUE]
  /\ settled = [o \in 1..2 |-> 0] /\ overtaken = FALSE
  /\ signals = 0 /\ evictions = 0 /\ failures = 0 /\ reruns = 0

Goto(w, l) == pc' = [pc EXCEPT ![w] = l]

-----------------------------------------------------------------------------
(* The group coordinator and the client's rebalance callback. *)

\* The replica's session expired, it polled too late, or a member joined.
Evict ==
  /\ owner # Nobody
  /\ evictions < MaxEvictions
  /\ owner' = Nobody /\ generation' = generation + 1
  /\ evictions' = evictions + 1
  /\ UNCHANGED <<broker, client, control, pc, current, verdict, buffered, handle,
                 signals, failures, reruns>>

\* Callbacks run while the consumer is polled.
Lost(w) ==
  /\ pc[w] = "recv"
  /\ joined[w] # 0 /\ (owner # w \/ joined[w] # generation)
  /\ joined' = [joined EXCEPT ![w] = 0]
  /\ epoch' = [epoch EXCEPT ![w] = @ + 1]
  /\ UNCHANGED <<broker, group, position, halted, control, pc, current, verdict,
                 buffered, handle, bounds>>

Assigned(w) ==
  /\ pc[w] = "recv" /\ joined[w] = 0
  /\ owner = Nobody
  /\ \A v \in Worker : ~sent[v]
  /\ owner' = w /\ generation' = generation + 1
  /\ joined' = [joined EXCEPT ![w] = generation + 1]
  /\ epoch' = [epoch EXCEPT ![w] = @ + 1]
  /\ position' = [position EXCEPT ![w] = committed]
  /\ halted' = [halted EXCEPT ![w] = FALSE]
  /\ UNCHANGED <<broker, control, pc, current, verdict, buffered, handle, bounds>>

-----------------------------------------------------------------------------
(* The control, from any other thread. *)
Signal(w, state) ==
  /\ signals < MaxSignals
  /\ control[w] \notin {"draining", state}
  /\ control' = [control EXCEPT ![w] = state]
  /\ signals' = signals + 1
  /\ UNCHANGED <<broker, group, client, pc, current, verdict, buffered, handle,
                 evictions, failures, reruns>>

-----------------------------------------------------------------------------
(* One iteration of run. *)

\* run returns; DrainOnExit drains the control.  A transaction whose offsets
\* were sent stays open until Aborted.
End(w) ==
  /\ Goto(w, "ended")
  /\ control' = [control EXCEPT ![w] = "draining"]
  /\ current' = [current EXCEPT ![w] = None]
  /\ verdict' = [verdict EXCEPT ![w] = "none"]
  /\ buffered' = [buffered EXCEPT ![w] = <<>>]

Loop(w) ==
  /\ pc[w] = "loop"
  /\ IF control[w] = "draining"
       THEN End(w)
       ELSE Goto(w, "assign") /\ UNCHANGED <<control, current, verdict, buffered>>
  /\ UNCHANGED <<broker, group, client, handle, bounds>>

Assign(w) ==
  /\ pc[w] = "assign"
  /\ halted' = [halted EXCEPT ![w] =
                  IF joined[w] = 0 THEN @ ELSE control[w] = "paused"]
  /\ Goto(w, "choose")
  /\ UNCHANGED <<broker, group, joined, epoch, position, control, current, verdict,
                 buffered, handle, bounds>>

ChooseBuffered(w) ==
  /\ pc[w] = "choose"
  /\ control[w] = "running" /\ buffered[w] # <<>>
  /\ current' = [current EXCEPT ![w] = Head(buffered[w])]
  /\ buffered' = [buffered EXCEPT ![w] = Tail(@)]
  /\ Goto(w, "start")
  /\ UNCHANGED <<broker, group, client, control, verdict, handle, bounds>>

ChooseRecv(w) ==
  /\ pc[w] = "choose"
  /\ control[w] # "running" \/ buffered[w] = <<>>
  /\ Goto(w, "recv")
  /\ UNCHANGED <<broker, group, client, control, current, verdict, buffered, handle, bounds>>

\* The 100 ms are over, or a transient error was waited out.
RecvNothing(w) ==
  /\ pc[w] = "recv"
  /\ Goto(w, "loop")
  /\ UNCHANGED <<broker, group, client, control, current, verdict, buffered, handle, bounds>>

Recv(w) ==
  /\ pc[w] = "recv"
  /\ joined[w] # 0 /\ ~halted[w] /\ position[w] <= Len(log)
  /\ current' = [current EXCEPT ![w] =
       [offset |-> position[w], generation |-> joined[w], epoch |-> epoch[w]]]
  /\ position' = [position EXCEPT ![w] = @ + 1]
  /\ Goto(w, "received")
  /\ UNCHANGED <<broker, group, joined, epoch, halted, control, verdict, buffered,
                 handle, bounds>>

KeepAside(w) ==
  /\ pc[w] = "received"
  /\ control[w] # "running"
  /\ IF Len(buffered[w]) >= MaxBuffer
       THEN End(w)
       ELSE /\ buffered' = [buffered EXCEPT ![w] = Append(@, current[w])]
            /\ current' = [current EXCEPT ![w] = None]
            /\ Goto(w, "loop")
            /\ UNCHANGED <<control, verdict>>
  /\ UNCHANGED <<broker, group, client, handle, bounds>>

TakeReceived(w) ==
  /\ pc[w] = "received"
  /\ control[w] = "running"
  /\ Goto(w, "start")
  /\ overtaken' = (overtaken \/ \E i \in 1..Len(buffered[w]) :
                                  buffered[w][i].generation = current[w].generation)
  /\ UNCHANGED <<log, committed, dead, settled, group, client, control, current, verdict,
                 buffered, handle, bounds>>

SameEpoch(w) == current[w].epoch = epoch[w]

\* Epoch check before the handler, before the transaction and within it.
Checked(w, from, to) ==
  /\ pc[w] = from
  /\ IF SameEpoch(w)
       THEN Goto(w, to) /\ UNCHANGED <<control, current, verdict, buffered>>
       ELSE End(w)
  /\ UNCHANGED <<broker, group, client, handle, bounds>>

Start(w)  == Checked(w, "start", "handling")
Settle(w) == Checked(w, "settle", "send")

\* Attempts with this one.
Attempt(w) == log[current[w].offset].attempts + 1

\* Mutant: one attempt more than the policy allows.
VerdictLate(w, ok) == IF ok THEN "completed"
                      ELSE IF Attempt(w) <= MaxAttempts THEN "retry" ELSE "dead"
Verdict(w, ok) == IF ok THEN "completed"
                  ELSE IF Attempt(w) < MaxAttempts THEN "retry" ELSE "dead"

\* The handler ends or times out, also while draining.
Handle(w, ok) ==
  /\ pc[w] = "handling"
  /\ verdict' = [verdict EXCEPT ![w] = Verdict(w, ok)]
  /\ Goto(w, "settle")
  /\ UNCHANGED <<broker, group, client, control, current, buffered, handle, bounds>>

\* The drain timeout cancels the handler.
Abandon(w) ==
  /\ pc[w] = "handling"
  /\ control[w] = "draining"
  /\ End(w)
  /\ UNCHANGED <<broker, group, client, handle, bounds>>

\* Mutant: the coordinator is not asked.
AnyGeneration(w) == TRUE
Fenced(w) == owner = w /\ current[w].generation = generation

\* The handle is unhealthy until its transaction is committed.
\* send_offsets_to_transaction: the coordinator rejects an old generation.
SendOffsets(w) ==
  /\ pc[w] = "send"
  /\ healthy' = [healthy EXCEPT ![w] = FALSE]
  /\ IF healthy[w] /\ SameEpoch(w) /\ Fenced(w)
       THEN /\ sent' = [sent EXCEPT ![w] = TRUE]
            /\ Goto(w, "commit")
            /\ UNCHANGED <<control, current, verdict, buffered>>
       ELSE End(w) /\ UNCHANGED sent
  /\ UNCHANGED <<broker, group, client, bounds>>

\* The transaction's effect: the record it produced and the offset.
Apply(w) ==
  LET o == current[w].offset
      j == log[o].job
  IN  /\ log' = IF verdict[w] = "retry"
                  THEN Append(log, [job |-> j, attempts |-> Attempt(w)]) ELSE log
      /\ settled' = [i \in 1..Len(log') |->
                       IF i = o THEN settled[o] + 1
                       ELSE IF i <= Len(log) THEN settled[i] ELSE 0]
      /\ dead' = [dead EXCEPT ![j] = IF verdict[w] = "dead" THEN @ + 1 ELSE @]
      /\ committed' = o + 1
      /\ sent' = [sent EXCEPT ![w] = FALSE]
      /\ UNCHANGED overtaken

Commit(w) ==
  /\ pc[w] = "commit"
  /\ Apply(w)
  /\ healthy' = [healthy EXCEPT ![w] = TRUE]
  /\ Goto(w, "loop")
  /\ current' = [current EXCEPT ![w] = None]
  /\ verdict' = [verdict EXCEPT ![w] = "none"]
  /\ UNCHANGED <<group, client, control, buffered, bounds>>

\* Committed, but the answer is an error or a timeout.
CommitUncertain(w) ==
  /\ pc[w] = "commit" /\ failures < MaxFailures
  /\ Apply(w)
  /\ End(w)
  /\ failures' = failures + 1
  /\ UNCHANGED <<group, client, healthy, signals, evictions, reruns>>

\* Any other error, or a crash.
\* Mutant: the replica goes on with the next record.
FailGoesOn(w) ==
  /\ pc[w] # "ended" /\ failures < MaxFailures
  /\ Goto(w, "loop")
  /\ current' = [current EXCEPT ![w] = None]
  /\ verdict' = [verdict EXCEPT ![w] = "none"]
  /\ sent' = [sent EXCEPT ![w] = FALSE]
  /\ failures' = failures + 1
  /\ UNCHANGED <<broker, group, client, control, buffered, healthy, signals,
                 evictions, reruns>>
Fail(w) ==
  /\ pc[w] # "ended" /\ failures < MaxFailures
  /\ End(w)
  /\ failures' = failures + 1
  /\ UNCHANGED <<broker, group, client, handle, signals, evictions, reruns>>

\* The open transaction is aborted, by the replica, its successor with the same
\* transactional.id or the transaction timeout.
Aborted(w) ==
  /\ pc[w] # "commit" /\ sent[w]
  /\ sent' = [sent EXCEPT ![w] = FALSE]
  /\ UNCHANGED <<broker, group, client, control, pc, current, verdict, buffered,
                 healthy, bounds>>

\* Mutant: with the control of the run that ended.
RestartDrained(w) ==
  /\ pc[w] = "ended" /\ ~sent[w]
  /\ owner' = IF owner = w THEN Nobody ELSE owner
  /\ joined' = [joined EXCEPT ![w] = 0]
  /\ epoch' = [epoch EXCEPT ![w] = 0]
  /\ healthy' = [healthy EXCEPT ![w] = TRUE]
  /\ Goto(w, "loop")
  /\ UNCHANGED <<broker, generation, position, halted, control, current, verdict,
                 buffered, sent, bounds>>
\* A new KafkaWorker with the same transactional.id and a new control.
Restart(w) ==
  /\ pc[w] = "ended" /\ ~sent[w]
  /\ owner' = IF owner = w THEN Nobody ELSE owner
  /\ joined' = [joined EXCEPT ![w] = 0]
  /\ epoch' = [epoch EXCEPT ![w] = 0]
  /\ healthy' = [healthy EXCEPT ![w] = TRUE]
  /\ control' = [control EXCEPT ![w] = "running"]
  /\ Goto(w, "loop")
  /\ UNCHANGED <<broker, generation, position, halted, current, verdict, buffered,
                 sent, bounds>>

\* run again on the same KafkaWorker, with a new control: its consumer and its
\* producer handle are as the last call left them.
Rerun(w) ==
  /\ pc[w] = "ended" /\ reruns < MaxReruns
  /\ control' = [control EXCEPT ![w] = "running"]
  /\ Goto(w, "loop")
  /\ reruns' = reruns + 1
  /\ UNCHANGED <<broker, group, client, current, verdict, buffered, handle, signals,
                 evictions, failures>>

Step(w) ==
  \/ Loop(w)
  \/ Assign(w)
  \/ ChooseBuffered(w)
  \/ ChooseRecv(w)
  \/ Recv(w)
  \/ KeepAside(w)
  \/ TakeReceived(w)
  \/ Start(w)
  \/ \E ok \in BOOLEAN : Handle(w, ok)
  \/ Settle(w)
  \/ SendOffsets(w)
  \/ Commit(w)

Next ==
  \/ Evict
  \/ \E w \in Worker :
       \/ Lost(w)
       \/ Assigned(w)
       \/ \E s \in {"running", "paused", "draining"} : Signal(w, s)
       \/ Step(w)
       \/ RecvNothing(w)
       \/ Abandon(w)
       \/ CommitUncertain(w)
       \/ Fail(w)
       \/ Aborted(w)
       \/ Restart(w)
       \/ Rerun(w)

Spec == Init /\ [][Next]_vars

(* The replicas run and are restarted, handlers end (handler_timeout), and  *)
(* some 100 ms poll sees the record or the rebalance that is there.         *)
Fairness ==
  /\ \A w \in Worker : WF_vars(Step(w)) /\ WF_vars(Aborted(w)) /\ WF_vars(Restart(w))
  /\ SF_vars(\E w \in Worker : Recv(w))
  /\ SF_vars(\E w \in Worker : Lost(w))
  /\ SF_vars(\E w \in Worker : Assigned(w))

FairSpec == Spec /\ Fairness

-----------------------------------------------------------------------------
(* Properties. *)

(* The group's offset passes a record only once the record's outcome (done, *)
(* retry published or dead letter published) was committed: no crash,       *)
(* rebalance or uncertain commit loses a job.  client.rs:645: cancellation  *)
(* "leaves the offset uncommitted for another replica or a subsequent       *)
(* restart".  It is claimed while run was called once on each KafkaWorker   *)
(* (a second call goes on behind the records the first one abandoned), and  *)
(* until two pauses and resumes let a record overtake one kept aside.       *)
NothingSkipped ==
  reruns = 0 /\ ~overtaken => \A o \in Offset : o < committed => settled[o] > 0

(* No record is settled twice, so a failed job is neither retried nor       *)
(* dead-lettered twice for one attempt, even by a replica the group has     *)
(* given up on or one whose commit was reported as failed, and whatever     *)
(* second calls of run leave out - until a record was overtaken.            *)
SettledOnce == ~overtaken => \A o \in Offset : settled[o] <= 1

(* Every published job is settled in the end, although replicas fail, lose  *)
(* the partition and are restarted.                                         *)
AllSettled == committed = Len(log) + 1
EverythingSettles == <>[]AllSettled

(* client.rs:684: "Records already fetched during a pause race stay bounded *)
(* and uncommitted."                                                        *)
KeptAsideStaysUncommitted ==
  \A w \in Worker : owner = w /\ joined[w] = generation =>
    \A i \in 1..Len(buffered[w]) :
      buffered[w][i].epoch = epoch[w] => committed <= buffered[w][i].offset
=============================================================================
