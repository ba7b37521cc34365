------------------------------ MODULE WorkersMC ------------------------------
(* Six parts of the workers for TLC.  They share no state, so that nothing  *)
(* is learnt from interleaving them: a behaviour exercises the one it       *)
(* starts with, and the others stay as they are.                            *)
EXTENDS SignalBus, KafkaPublisher, WorkerRetention, KafkaWorker, TopicWorker,
        IntervalWorker

VARIABLE part

Parts == {"bus", "publisher", "retention", "kafka", "topic", "interval"}

workersVars == <<part, busVars, publisherVars, retentionVars, vars, topicVars, workerVars>>

\* A part that is not exercised has one initial state only.
WorkersInit ==
  /\ part \in Parts
  /\ BusInit /\ PublisherInit /\ RetentionInit /\ Init /\ TopicInit /\ WorkerInit
  /\ part # "retention" => \A s \in Statuses : due[s] = 0
  /\ part # "kafka" => log[1].job = CHOOSE j \in Job : TRUE

BusStep ==
  /\ part = "bus" /\ BusNext
  /\ UNCHANGED <<publisherVars, retentionVars, vars, topicVars, workerVars>>
PublisherStep ==
  /\ part = "publisher" /\ PublisherNext
  /\ UNCHANGED <<busVars, retentionVars, vars, topicVars, workerVars>>
RetentionStep ==
  /\ part = "retention" /\ RetentionNext
  /\ UNCHANGED <<busVars, publisherVars, vars, topicVars, workerVars>>
KafkaStep ==
  /\ part = "kafka" /\ Next
  /\ UNCHANGED <<busVars, publisherVars, retentionVars, topicVars, workerVars>>
TopicStep ==
  /\ part = "topic" /\ TopicNext
  /\ UNCHANGED <<busVars, publisherVars, retentionVars, vars, workerVars>>
IntervalStep ==
  /\ part = "interval" /\ WorkerNext
  /\ UNCHANGED <<busVars, publisherVars, retentionVars, vars, topicVars>>

WorkersNext ==
  /\ UNCHANGED part
  /\ \/ BusStep
     \/ PublisherStep
     \/ RetentionStep
     \/ KafkaStep
     \/ TopicStep
     \/ IntervalStep

WorkersSpec == WorkersInit /\ [][WorkersNext]_workersVars

\* The fairness of each module; the actions of other parts are never enabled.
Bus(A) == part = "bus" /\ A
Retention(A) == part = "retention" /\ A
Kafka(A) == part = "kafka" /\ A
Topic(A) == part = "topic" /\ A

WorkersFairness ==
  /\ WF_busVars(Bus(Listen)) /\ WF_busVars(Bus(StreamEnds))
  /\ WF_busVars(Bus(Check)) /\ WF_busVars(Bus(Recheck))
  /\ WF_busVars(Bus(DrainSeen)) /\ WF_busVars(Bus(Receive))
  /\ WF_busVars(Bus(ReceiveNothing))
  /\ WF_retentionVars(Retention(Poll)) /\ WF_retentionVars(Retention(Finish))
  /\ WF_retentionVars(Retention(WorkerReturns)) /\ WF_retentionVars(Retention(MaintenanceTick))
  /\ WF_retentionVars(Retention(MaintenanceStops)) /\ WF_retentionVars(Retention(Answered))
  /\ WF_retentionVars(Retention(PurgeFails \/ \E s \in Enabled : Purge(s)))
  /\ \A w \in Worker :
       /\ WF_vars(Kafka(Step(w))) /\ WF_vars(Kafka(Aborted(w)))
       /\ WF_vars(Kafka(Restart(w)))
  /\ SF_vars(Kafka(\E w \in Worker : Recv(w)))
  /\ SF_vars(Kafka(\E w \in Worker : Lost(w)))
  /\ SF_vars(Kafka(\E w \in Worker : Assigned(w)))
  /\ WF_topicVars(Topic(\E c \in Consumer : TopicAssigned(c)))
  /\ \A c \in Consumer :
       /\ WF_topicVars(Topic(ConsumerStep(c))) /\ WF_topicVars(Topic(ConnectProducer(c)))
       /\ WF_topicVars(Topic(AutoCommit(c)))

WorkersFairSpec == WorkersSpec /\ WorkersFairness

(* EverythingSettles and TopicSettles, of a behaviour that exercises them.  *)
JobsSettle == <>[](part = "kafka" => AllSettled)
EventsSettle == <>[](part = "topic" => AllPassed)
=============================================================================
