--------------------------- MODULE IntervalWorker ---------------------------
(***************************************************************************)
(* The TypeScript Redis worker: RedisWorkerProducer, RedisWorkerConsumer   *)
(* and the list commands of RedisTtlCache under them.                      *)
(*                                                                         *)
(* A consumer calls setInterval: a tick is one run of its callback, and    *)
(* the timer does not wait for the previous one.  A tick pops a page off   *)
(* the list in one MULTI, has the events processed one after the other,    *)
(* and pushes the failed ones back in one MULTI.  An error in a tick is    *)
(* an unhandled rejection, which ends the process and all its ticks.       *)
(* Events are numbered in the order in which they are first enqueued.      *)
(***************************************************************************)
EXTENDS Integers, FiniteSets, SequencesExt

CONSTANTS
  Server,     \* consumer processes of one queue
  Tick,       \* bound: ticks of a process that overlap
  PageSize,   \* options.pageSize
  RetryLimit, \* the largest retryCount that is retried: 3 in the code
  MaxEvents,  \* bound: events enqueued
  MaxCrashes  \* bound: processes that die

ASSUME WorkerAssumption ==
  /\ PageSize \in Nat \ {0}
  /\ {RetryLimit, MaxEvents, MaxCrashes} \subseteq Nat

VARIABLES
  queue,    \* the Redis list, its left end first
  tick,     \* what each tick has still to process and what failed in it
  up,       \* the processes that run
  enqueued, \* events enqueued so far
  crashes,  \* processes that died so far
  done,     \* history: events processed
  tries,    \* history: how often the processing of each event was tried
  lost      \* history: events a process took with it

workerVars == <<queue, tick, up, enqueued, crashes, done, tries, lost>>

Event == 1 .. MaxEvents
QueueRecord == [id : Event, retryCount : Nat]
Idle == [busy |-> FALSE, rest |-> <<>>, failed |-> <<>>]

Ids(records) == {r.id : r \in ToSet(records)}
Held(w, t) == Ids(tick[w][t].rest) \cup Ids(tick[w][t].failed)

WorkerInit ==
  /\ queue = <<>>
  /\ tick = [w \in Server |-> [t \in Tick |-> Idle]]
  /\ up = Server
  /\ enqueued = 0 /\ crashes = 0
  /\ done = {} /\ lost = {}
  /\ tries = [e \in Event |-> 0]

-----------------------------------------------------------------------------
\* lPush of one record after the other.
Pushed(records) == Reverse(records) \o queue

Page == IF Len(queue) < PageSize THEN Len(queue) ELSE PageSize

\* The records that pageSize rPops return, in the order of the replies.
Popped == Reverse(SubSeq(queue, Len(queue) - Page + 1, Len(queue)))

\* What the list holds afterwards.
Remaining == SubSeq(queue, 1, Len(queue) - Len(Popped))

\* enqueueJob, or enqueueBatchJobs in one MULTI.
EnqueueJobs(n) ==
  /\ enqueued + n <= MaxEvents
  /\ queue' = Pushed([i \in 1 .. n |-> [id |-> enqueued + i, retryCount |-> 0]])
  /\ enqueued' = enqueued + n
  /\ UNCHANGED <<tick, up, crashes, done, tries, lost>>

\* The timer fires.  A tick that finds the list empty changes nothing.
Retrieve(w, t) ==
  /\ w \in up /\ ~tick[w][t].busy
  /\ queue # <<>>
  /\ tick' = [tick EXCEPT ![w][t] = [busy |-> TRUE, rest |-> Popped, failed |-> <<>>]]
  /\ queue' = Remaining
  /\ UNCHANGED <<up, enqueued, crashes, done, tries, lost>>

\* processEvents comes to its next event: it succeeds, or is among the failures.
ProcessNext(w, t, ok) ==
  /\ w \in up /\ tick[w][t].rest # <<>>
  /\ LET record == Head(tick[w][t].rest) IN
       /\ tries' = [tries EXCEPT ![record.id] = @ + 1]
       /\ done' = IF ok THEN done \cup {record.id} ELSE done
       /\ tick' = [tick EXCEPT
            ![w][t].rest = Tail(@),
            ![w][t].failed = IF ok THEN @ ELSE Append(@, record)]
  /\ UNCHANGED <<queue, up, enqueued, crashes, lost>>

\* Mutant: the count that is compared is the incremented one.
RetriedLess(records) == {i \in DOMAIN records : records[i].retryCount + 1 <= RetryLimit}
\* The filter of updateEvents reads the count before it is incremented.
Retried(records) == {i \in DOMAIN records : records[i].retryCount <= RetryLimit}

\* The indexes in a set, in their order: what filter leaves of a page.
InOrder(indexes) ==
  {f \in Bijection(1 .. Cardinality(indexes), indexes) :
     \A m, n \in DOMAIN f : m < n => f[m] < f[n]}

\* map increments the count of each record that is left.
Again(records, f) == [n \in DOMAIN f |-> [records[f[n]] EXCEPT !.retryCount = @ + 1]]

TickEnded(w, t) == [tick EXCEPT ![w][t] = Idle]

\* failureHandler has run: updateEvents.
UpdateEvents(w, t) ==
  /\ w \in up /\ tick[w][t].busy /\ tick[w][t].rest = <<>>
  /\ \E f \in InOrder(Retried(tick[w][t].failed)) :
       queue' = Pushed(Again(tick[w][t].failed, f))
  /\ tick' = TickEnded(w, t)
  /\ UNCHANGED <<up, enqueued, crashes, done, tries, lost>>

\* The process dies, for instance because of a rejection in one of its ticks.
WorkerDies(w) ==
  /\ w \in up /\ crashes < MaxCrashes
  /\ up' = up \ {w}
  /\ crashes' = crashes + 1
  /\ lost' = lost \cup UNION {Held(w, t) : t \in Tick}
  /\ tick' = [tick EXCEPT ![w] = [t \in Tick |-> Idle]]
  /\ UNCHANGED <<queue, enqueued, done, tries>>

StartServer(w) ==
  /\ w \notin up
  /\ up' = up \cup {w}
  /\ UNCHANGED <<queue, tick, enqueued, crashes, done, tries, lost>>

TryNext(w, t) == \E ok \in BOOLEAN : ProcessNext(w, t, ok)

WorkerNext ==
  \/ \E n \in 1 .. MaxEvents : EnqueueJobs(n)
  \/ \E w \in Server :
       \/ WorkerDies(w) \/ StartServer(w)
       \/ \E t \in Tick : Retrieve(w, t) \/ TryNext(w, t) \/ UpdateEvents(w, t)

WorkerSpec == WorkerInit /\ [][WorkerNext]_workerVars

-----------------------------------------------------------------------------
(* Every part of the state has its type, and only running ticks hold        *)
(* records.                                                                 *)
WorkerTypeOK ==
  /\ queue \in Seq(QueueRecord)
  /\ tick \in [Server -> [Tick -> [busy : BOOLEAN, rest : Seq(QueueRecord), failed : Seq(QueueRecord)]]]
  /\ \A w \in Server, t \in Tick : ~tick[w][t].busy => tick[w][t] = Idle
  /\ up \subseteq Server
  /\ enqueued \in 0 .. MaxEvents
  /\ crashes \in 0 .. MaxCrashes
  /\ done \subseteq 1 .. enqueued
  /\ lost \subseteq 1 .. enqueued
  /\ tries \in [Event -> Nat]

TickLists == {<<w, t, part>> : w \in Server, t \in Tick, part \in {"rest", "failed"}}
Copies(records, e) == {i \in DOMAIN records : records[i].id = e}

\* Where the records of an event are; <<>> is the list.
Places(e) ==
  ({<<>>} \X Copies(queue, e))
  \cup UNION {{p} \X Copies(tick[p[1]][p[2]][p[3]], e) : p \in TickLists}

(* Every event is accounted for.  One that is to be processed is in the list *)
(* or with one tick, never in two places, although ticks of one process      *)
(* overlap and several processes pop the same list; one that is nowhere any  *)
(* more was processed, was with a process that died, or failed RetryLimit + 2*)
(* times: with retryCount RetryLimit it is still given another try.          *)
EventsAccounted ==
  \A e \in 1 .. enqueued :
    \/ e \in done /\ Places(e) = {}
    \/ e \notin done /\ Cardinality(Places(e)) = 1
    \/ Places(e) = {} /\ (e \in lost \/ tries[e] = RetryLimit + 2)
=============================================================================
