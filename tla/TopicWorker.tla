----------------------------- MODULE TopicWorker -----------------------------
(***************************************************************************)
(* The TypeScript Kafka worker (implementations/worker/kafka): a producer  *)
(* and the replicas of one consumer group on one partition of its topic.   *)
(*                                                                         *)
(* A message carries one event: enqueueJob and the consumer's republishing *)
(* wrap it in a list, enqueueBatchJobs publishes it bare.  A failing event *)
(* is published again with one try more.                                   *)
(*                                                                         *)
(* kafkajs and the broker are external: eachMessage is called for one      *)
(* message at a time, and again for the same one when it rejects; offsets  *)
(* of messages it returned from are also committed behind its back         *)
(* (autoCommit); a partition may be taken away at any time.  The process   *)
(* function is the application's, and iterates the events it is given.     *)
(***************************************************************************)
EXTENDS Naturals, Sequences

CONSTANTS
  Consumer, NoConsumer,
  Jobs,    \* events published
  Retries, \* options.retries
  Formats, \* whether the messages published are lists of events
  MaxRebalances, MaxFaults

ASSUME TopicAssumption ==
  /\ NoConsumer \notin Consumer
  /\ Jobs \in Nat \ {0} /\ Retries \in Nat
  /\ Formats \subseteq BOOLEAN /\ Formats # {}
  /\ MaxRebalances \in Nat /\ MaxFaults \in Nat

VARIABLES
  messages,          \* the messages of the partition
  offset,            \* the group's offset: the next message
  assignee,          \* who holds the partition
  nextMessage,       \* the next message a consumer delivers
  producerConnected, \* whether its producer is
  processedMessages,
  consumerPc,
  fate,              \* history: what was done with each message first
  rebalances, faults

topicLog    == <<messages, offset>>
memory      == <<nextMessage, producerConnected, processedMessages>>
topicBounds == <<rebalances, faults>>
topicVars   == <<topicLog, assignee, memory, consumerPc, fate, topicBounds>>

Message == [retryCount : 0..(Retries + 1), list : BOOLEAN]
Fates   == {"none", "processed", "returned", "republished", "exhausted"}

TopicTypeOK ==
  /\ messages \in Seq(Message)
  /\ offset \in 1..(Len(messages) + 1)
  /\ assignee \in Consumer \cup {NoConsumer}
  /\ nextMessage \in [Consumer -> 1..(Len(messages) + 1)]
  /\ producerConnected \in [Consumer -> BOOLEAN]
  /\ processedMessages \in [Consumer -> SUBSET (1..Len(messages))]
  /\ consumerPc \in [Consumer -> {"stopped", "waiting", "processing", "processed", "failed"}]
  /\ fate \in [1..Len(messages) -> Fates]
  /\ rebalances \in 0..MaxRebalances /\ faults \in 0..MaxFaults

Enqueued(list) == [retryCount |-> 0, list |-> list]

\* Messages published since the group began: one per event.
TopicInit ==
  /\ messages \in [1..Jobs -> {Enqueued(list) : list \in Formats}]
  /\ offset = 1 /\ assignee = NoConsumer
  /\ nextMessage = [c \in Consumer |-> 1]
  /\ producerConnected = [c \in Consumer |-> FALSE]
  /\ processedMessages = [c \in Consumer |-> {}]
  /\ consumerPc = [c \in Consumer |-> "stopped"]
  /\ fate = [i \in 1..Jobs |-> "none"]
  /\ rebalances = 0 /\ faults = 0

Reached(c, l) == consumerPc' = [consumerPc EXCEPT ![c] = l]
Noted(o, f)   == [fate EXCEPT ![o] = IF @ = "none" THEN f ELSE @]
Fault         == faults < MaxFaults /\ faults' = faults + 1 /\ UNCHANGED rebalances

-----------------------------------------------------------------------------
(* The consumer group. *)

Rebalance ==
  /\ assignee # NoConsumer /\ rebalances < MaxRebalances
  /\ assignee' = NoConsumer /\ rebalances' = rebalances + 1
  /\ UNCHANGED <<topicLog, memory, consumerPc, fate, faults>>

TopicAssigned(c) ==
  /\ consumerPc[c] = "waiting" /\ assignee = NoConsumer
  /\ assignee' = c
  /\ nextMessage' = [nextMessage EXCEPT ![c] = offset]
  /\ UNCHANGED <<topicLog, producerConnected, processedMessages, consumerPc, fate, topicBounds>>

\* The owner commits the messages it returned from.
AutoCommit(c) ==
  /\ assignee = c /\ offset < nextMessage[c]
  /\ offset' = nextMessage[c]
  /\ UNCHANGED <<messages, assignee, memory, consumerPc, fate, topicBounds>>

-----------------------------------------------------------------------------
(* start and close. *)

\* setupConsumer: messages are delivered from here on.
Setup(c) ==
  /\ consumerPc[c] = "stopped"
  /\ Reached(c, "waiting")
  /\ UNCHANGED <<topicLog, assignee, memory, fate, topicBounds>>

\* Mutant: start does not connect the producer.
NeverConnected == FALSE
ProducerConnects == TRUE

ConnectProducer(c) ==
  /\ consumerPc[c] # "stopped" /\ ~producerConnected[c]
  /\ ProducerConnects
  /\ producerConnected' = [producerConnected EXCEPT ![c] = TRUE]
  /\ UNCHANGED <<topicLog, assignee, nextMessage, processedMessages, consumerPc, fate, topicBounds>>

Crash(c) ==
  /\ consumerPc[c] # "stopped" /\ Fault
  /\ Reached(c, "stopped")
  /\ assignee' = IF assignee = c THEN NoConsumer ELSE assignee
  /\ producerConnected' = [producerConnected EXCEPT ![c] = FALSE]
  /\ processedMessages' = [processedMessages EXCEPT ![c] = {}]
  /\ UNCHANGED <<topicLog, nextMessage, fate>>

-----------------------------------------------------------------------------
(* eachMessage. *)

Current(c) == messages[nextMessage[c]]

\* eachMessage returns, and the next message is delivered.
MessageDone(c) ==
  /\ Reached(c, "waiting")
  /\ nextMessage' = [nextMessage EXCEPT ![c] = @ + 1]

Deliver(c) ==
  /\ consumerPc[c] = "waiting" /\ assignee = c /\ nextMessage[c] <= Len(messages)
  /\ IF nextMessage[c] \in processedMessages[c]
       THEN MessageDone(c)
       ELSE Reached(c, "processing") /\ UNCHANGED nextMessage
  /\ UNCHANGED <<topicLog, assignee, producerConnected, processedMessages, fate, topicBounds>>

\* processEventsFunction resolves, whatever failures it returns.
ProcessEvents(c, returned) ==
  /\ consumerPc[c] = "processing" /\ Current(c).list
  /\ processedMessages' = [processedMessages EXCEPT ![c] = @ \cup {nextMessage[c]}]
  /\ fate' = Noted(nextMessage[c], IF returned THEN "returned" ELSE "processed")
  /\ Reached(c, "processed")
  /\ UNCHANGED <<topicLog, assignee, nextMessage, producerConnected, topicBounds>>

\* It throws, as it does when the message is no list; failureHandler is called.
Throw(c) ==
  /\ consumerPc[c] = "processing"
  /\ Reached(c, "failed")
  /\ UNCHANGED <<topicLog, assignee, memory, fate, topicBounds>>

\* commitOffsets, which the coordinator takes from the owner only.
CommitOffsets(c) ==
  /\ consumerPc[c] = "processed" /\ assignee = c
  /\ offset' = nextMessage[c] + 1
  /\ MessageDone(c)
  /\ UNCHANGED <<messages, assignee, producerConnected, processedMessages, fate, topicBounds>>

CommitFails(c) ==
  /\ consumerPc[c] = "processed"
  /\ \/ assignee # c /\ UNCHANGED topicBounds
     \/ Fault
  /\ Reached(c, "failed")
  /\ UNCHANGED <<topicLog, assignee, memory, fate>>

TriesLeft(c) == Current(c).retryCount <= Retries

\* The loop over the events: none to publish again, one, or no loop at all.
NotRepublished(c) ==
  /\ consumerPc[c] = "failed"
  /\ Current(c).list /\ ~TriesLeft(c)
  /\ fate' = Noted(nextMessage[c], "exhausted")
  /\ MessageDone(c)
  /\ UNCHANGED <<topicLog, assignee, producerConnected, processedMessages, topicBounds>>

Republish(c) ==
  /\ consumerPc[c] = "failed"
  /\ Current(c).list /\ TriesLeft(c) /\ producerConnected[c]
  /\ messages' = Append(messages, [Current(c) EXCEPT !.retryCount = @ + 1])
  /\ fate' = Append(Noted(nextMessage[c], "republished"), "none")
  /\ MessageDone(c)
  /\ UNCHANGED <<offset, assignee, producerConnected, processedMessages, topicBounds>>

\* Mutant: the rejection is swallowed.
RejectSwallowed(c) == MessageDone(c)
\* eachMessage rejects: the message is delivered again.
Reject(c) == Reached(c, "waiting") /\ UNCHANGED nextMessage

RepublishFails(c) ==
  /\ consumerPc[c] = "failed"
  /\ \/ ~Current(c).list /\ UNCHANGED topicBounds
     \/ TriesLeft(c) /\ ~producerConnected[c] /\ UNCHANGED topicBounds
     \/ TriesLeft(c) /\ Fault
  /\ Reject(c)
  /\ UNCHANGED <<topicLog, assignee, producerConnected, processedMessages, fate>>

ConsumerStep(c) ==
  \/ Setup(c)
  \/ ConnectProducer(c)
  \/ Deliver(c)
  \/ Throw(c)
  \/ \E returned \in BOOLEAN : ProcessEvents(c, returned)
  \/ CommitOffsets(c)
  \/ CommitFails(c)
  \/ NotRepublished(c)
  \/ Republish(c)
  \/ RepublishFails(c)

TopicNext ==
  \/ Rebalance
  \/ \E c \in Consumer : ConsumerStep(c) \/ TopicAssigned(c) \/ AutoCommit(c) \/ Crash(c)

TopicSpec == TopicInit /\ [][TopicNext]_topicVars

(* Consumers start again, the producer connects in the end, kafkajs delivers *)
(* and commits, and the group gives a free partition to a member.            *)
TopicFairness ==
  /\ WF_topicVars(\E c \in Consumer : TopicAssigned(c))
  /\ \A c \in Consumer :
       WF_topicVars(ConsumerStep(c)) /\ WF_topicVars(ConnectProducer(c)) /\ WF_topicVars(AutoCommit(c))

TopicFairSpec == TopicSpec /\ TopicFairness

-----------------------------------------------------------------------------
(* Properties. *)

(* The group's offset passes a message only once its event was processed,    *)
(* was published again, or failed in its last try and was reported: no       *)
(* crash, rebalance, failed send, failed commit or producer that is not      *)
(* connected yet loses an event.                                             *)
TopicNothingSkipped ==
  \A o \in 1..Len(messages) : o < offset =>
    \/ fate[o] \in {"processed", "returned", "republished"}
    \/ fate[o] = "exhausted" /\ messages[o].retryCount > Retries

(* The group gets past every message in the end, those it publishes again    *)
(* included, although consumers crash, lose the partition and start before   *)
(* their producer is connected (kafkaWorker.consumer.ts:195).                *)
(* kafkaWorker.consumer.ts:69 takes any message for a list of events:        *)
(* "JSON.parse(message.value.toString()) as EventEntity[]".                  *)
AllPassed == offset = Len(messages) + 1
TopicSettles == <>[]AllPassed

-----------------------------------------------------------------------------
(* What the code does not guarantee. *)

(* worker.consumer.types.ts:6: a process function returns the events it      *)
(* could not process, and worker.ts:34 of the sample worker does; such an    *)
(* event is not passed by the group as if it had been processed.             *)
ReturnedIsHandled == \A o \in 1..Len(messages) : o < offset => fate[o] # "returned"
=============================================================================
