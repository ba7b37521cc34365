---------------------------- MODULE KafkaPublisher ----------------------------
(***************************************************************************)
(* KafkaProducer (worker-kafka/src/client.rs): the handle through which    *)
(* jobs are published, one transaction per batch.                          *)
(*                                                                         *)
(* A call of enqueue_batch may be dropped at any await, while its commit   *)
(* goes on in a blocking thread; its transaction may be left open.  The    *)
(* healthy flag keeps later calls from it, and a fresh handle with the     *)
(* same transactional.id resolves it.  Handles are numbered in the order   *)
(* they are connected, calls stand for the batches they publish.           *)
(*                                                                         *)
(* The broker and librdkafka are external.  librdkafka refuses to begin a  *)
(* transaction in an open one, but the code does not rely on it, and so    *)
(* begin_transaction may succeed or fail here at any time.                 *)
(***************************************************************************)
EXTENDS Naturals, Sequences

CONSTANTS
  Call, NoCall,
  BatchSize, \* records of each batch
  MaxHandles \* bound on handles connected

ASSUME PublisherAssumption ==
  /\ NoCall \notin Call
  /\ BatchSize \in Nat \ {0} /\ MaxHandles \in Nat \ {0}

VARIABLES
  latest,        \* the latest handle
  lock,          \* KafkaProducer::lock
  handleHealthy, \* KafkaProducer::healthy
  txn,           \* the records of a handle's transaction
  phase,         \* what became of that transaction
  commitLog,     \* the transactions committed, in order
  callPc, of,    \* where a call is, and its handle
  sentItems,     \* records it handed to the client
  answer

brokerVars    == <<latest, txn, phase, commitLog>>
publisherVars == <<brokerVars, lock, handleHealthy, callPc, of, sentItems, answer>>

Handles == 1..MaxHandles
Item    == [call : Call, n : 1..BatchSize]

PublisherTypeOK ==
  /\ latest \in Handles
  /\ lock \in [Handles -> Call \cup {NoCall}]
  /\ handleHealthy \in [Handles -> BOOLEAN]
  /\ txn \in [Handles -> Seq(Item)]
  /\ phase \in [Handles -> {"none", "open", "committing", "committed"}]
  /\ commitLog \in Seq(Seq(Item))
  /\ callPc \in [Call -> {"new", "waiting", "sending", "committing", "aborting", "returned"}]
  /\ of \in [Call -> Handles] /\ sentItems \in [Call -> 0..BatchSize]
  /\ answer \in [Call -> {"none", "ok", "error", "dropped"}]
  /\ \A c \in Call : callPc[c] \in {"sending", "committing", "aborting"} => lock[of[c]] = c

PublisherInit ==
  /\ latest = 1
  /\ lock = [h \in Handles |-> NoCall] /\ handleHealthy = [h \in Handles |-> TRUE]
  /\ txn = [h \in Handles |-> <<>>] /\ phase = [h \in Handles |-> "none"]
  /\ commitLog = <<>>
  /\ callPc = [c \in Call |-> "new"] /\ of = [c \in Call |-> 1]
  /\ sentItems = [c \in Call |-> 0] /\ answer = [c \in Call |-> "none"]

Reach(c, l) == callPc' = [callPc EXCEPT ![c] = l]

\* enqueue_batch returns, or its future is dropped: so is the guard.
EndCall(c, a) ==
  /\ Reach(c, "returned")
  /\ answer' = [answer EXCEPT ![c] = a]
  /\ lock' = [lock EXCEPT ![of[c]] = IF @ = c THEN NoCall ELSE @]

-----------------------------------------------------------------------------
(* The broker. *)

\* Aborted transactions leave nothing.
Clear(h) ==
  /\ txn' = [txn EXCEPT ![h] = <<>>]
  /\ phase' = [phase EXCEPT ![h] = "none"]

\* The broker serves the latest handle with the transactional.id.
Live(h) == h = latest

\* A commit that was asked for arrives, whether or not its call still waits.
BrokerCommits(h) ==
  /\ phase[h] = "committing" /\ Live(h)
  /\ phase' = [phase EXCEPT ![h] = "committed"]
  /\ commitLog' = Append(commitLog, txn[h])
  /\ txn' = [txn EXCEPT ![h] = <<>>]
  /\ UNCHANGED <<latest, lock, handleHealthy, callPc, of, sentItems, answer>>

\* transaction.timeout.ms is over.
Expire(h) ==
  /\ phase[h] \in {"open", "committing"}
  /\ Clear(h)
  /\ UNCHANGED <<latest, commitLog, lock, handleHealthy, callPc, of, sentItems, answer>>

\* init_transactions with the same transactional.id: an open transaction is
\* aborted, and one that was being committed is committed or aborted.
Resolved ==
  LET h == latest
  IN  \/ /\ phase[h] = "committing"
         /\ commitLog' = Append(commitLog, txn[h])
         /\ txn' = [txn EXCEPT ![h] = <<>>]
         /\ phase' = [phase EXCEPT ![h] = "committed"]
      \/ /\ phase[h] \in {"open", "committing"}
         /\ Clear(h) /\ UNCHANGED commitLog
      \/ /\ phase[h] \in {"none", "committed"}
         /\ UNCHANGED <<txn, phase, commitLog>>

ConnectHandle ==
  /\ latest < MaxHandles
  /\ Resolved
  /\ latest' = latest + 1
  /\ UNCHANGED <<lock, handleHealthy, callPc, of, sentItems, answer>>

-----------------------------------------------------------------------------
(* enqueue_batch. *)

Enqueue(c) ==
  /\ callPc[c] = "new"
  /\ of' = [of EXCEPT ![c] = latest]
  /\ Reach(c, "waiting")
  /\ UNCHANGED <<brokerVars, lock, handleHealthy, sentItems, answer>>

LockTimeout(c) ==
  /\ callPc[c] = "waiting"
  /\ EndCall(c, "error")
  /\ UNCHANGED <<brokerVars, handleHealthy, of, sentItems>>

\* Mutant: the flag is not asked.
UsableAnyway(h) == TRUE
Usable(h) == handleHealthy[h]

\* The lock, the swap of healthy and begin_transaction.
Begin(c) ==
  /\ callPc[c] = "waiting" /\ lock[of[c]] = NoCall
  /\ handleHealthy' = [handleHealthy EXCEPT ![of[c]] = FALSE]
  /\ \/ /\ Usable(of[c])
        /\ lock' = [lock EXCEPT ![of[c]] = c]
        /\ phase' = [phase EXCEPT ![of[c]] = "open"]
        /\ Reach(c, "sending")
        /\ UNCHANGED answer
     \/ EndCall(c, "error") /\ UNCHANGED phase
  /\ UNCHANGED <<latest, txn, commitLog, of, sentItems>>

\* The broker takes records into a transaction it keeps.
Accepted(c) == Live(of[c]) /\ phase[of[c]] = "open"

Send(c) ==
  /\ callPc[c] = "sending" /\ sentItems[c] < BatchSize
  /\ Accepted(c)
  /\ txn' = [txn EXCEPT ![of[c]] = Append(@, [call |-> c, n |-> sentItems[c] + 1])]
  /\ sentItems' = [sentItems EXCEPT ![c] = @ + 1]
  /\ UNCHANGED <<latest, phase, commitLog, lock, handleHealthy, callPc, of, answer>>

\* An error, or the deadline: the last record sent may have been taken.
TransactionFails(c) ==
  /\ callPc[c] \in {"sending", "committing"}
  /\ Reach(c, "aborting")
  /\ UNCHANGED <<brokerVars, lock, handleHealthy, of, sentItems, answer>>

AskCommit(c) ==
  /\ callPc[c] = "sending" /\ sentItems[c] = BatchSize
  /\ phase' = [phase EXCEPT ![of[c]] = IF @ = "open" THEN "committing" ELSE @]
  /\ Reach(c, "committing")
  /\ UNCHANGED <<latest, txn, commitLog, lock, handleHealthy, of, sentItems, answer>>

CommitConfirmed(c) == phase[of[c]] = "committed"

Committed(c) ==
  /\ callPc[c] = "committing"
  /\ CommitConfirmed(c)
  /\ handleHealthy' = [handleHealthy EXCEPT ![of[c]] = TRUE]
  /\ EndCall(c, "ok")
  /\ UNCHANGED <<brokerVars, of, sentItems>>

\* abort: its outcome is ignored, and the flag stays down.
Abort(c) ==
  /\ callPc[c] = "aborting"
  /\ \/ phase[of[c]] \in {"open", "committing"} /\ Clear(of[c])
     \/ UNCHANGED <<txn, phase>>
  /\ EndCall(c, "error")
  /\ UNCHANGED <<latest, commitLog, handleHealthy, of, sentItems>>

\* The future is dropped at one of its awaits.
Drop(c) ==
  /\ callPc[c] \notin {"new", "returned"}
  /\ EndCall(c, "dropped")
  /\ UNCHANGED <<brokerVars, handleHealthy, of, sentItems>>

PublisherNext ==
  \/ ConnectHandle
  \/ \E h \in Handles : BrokerCommits(h) \/ Expire(h)
  \/ \E c \in Call :
       \/ Enqueue(c)
       \/ LockTimeout(c)
       \/ Begin(c)
       \/ Send(c)
       \/ TransactionFails(c)
       \/ AskCommit(c)
       \/ Committed(c)
       \/ Abort(c)
       \/ Drop(c)

PublisherSpec == PublisherInit /\ [][PublisherNext]_publisherVars

-----------------------------------------------------------------------------
(* Properties. *)

Batch(c)       == [i \in 1..BatchSize |-> [call |-> c, n |-> i]]
IsPublished(c) == \E i \in 1..Len(commitLog) : commitLog[i] = Batch(c)

(* client.rs:457: "Publishes an entire validated batch atomically in input   *)
(* order."  Whatever calls share a handle, fail or are dropped between two   *)
(* records, what is committed is one whole batch, no batch twice, and a      *)
(* batch that was reported as published is there: the answer ok is not given *)
(* to a commit that timed out, expired or was fenced.                        *)
WholeBatches ==
  /\ \A i \in 1..Len(commitLog) : \E c \in Call : commitLog[i] = Batch(c)
  /\ \A i, j \in 1..Len(commitLog) : commitLog[i] = commitLog[j] => i = j
  /\ \A c \in Call : answer[c] = "ok" => IsPublished(c)
=============================================================================
