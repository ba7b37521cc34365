------------------------------ MODULE SignalBus ------------------------------
(***************************************************************************)
(* One RedisSignalBus (worker-redis/src/signals.rs): the listener task     *)
(* that buffers Pub/Sub publications, and forward_signals (worker-database *)
(* control.rs), which applies them to a WorkerControl.                     *)
(*                                                                         *)
(* Redis is external: it delivers the publications made while the          *)
(* subscription lives in order, and drops what is in flight when the       *)
(* connection breaks.  A "bad" publication is one decode_signal rejects.   *)
(***************************************************************************)
EXTENDS Naturals, Sequences, SequencesExt

CONSTANTS
  Capacity,    \* SignalOptions::capacity
  MaxPublished \* bound on publications

ASSUME BusAssumption == Capacity \in Nat \ {0} /\ MaxPublished \in Nat

VARIABLES
  published,   \* history: the publications made while subscribed
  wire,        \* those the listener has not read
  subscribed,  \* the subscription's connection
  listening,   \* the listener task runs (and holds the sender)
  health,      \* 0 ok, 1 disconnected, 2 invalid message, 3 overflow
  buffer,      \* the mpsc channel
  forwarding,  \* forward_signals
  taken,       \* the signal next_signal received, or "none"
  workerState, \* WorkerControl
  applied      \* history: the signals applied

busVars == <<published, wire, subscribed, listening, health, buffer, forwarding, taken,
          workerState, applied>>

BusSignal == {"pause", "resume", "drain"}
State  == [pause |-> "paused", resume |-> "running", drain |-> "draining"]

BusTypeOK ==
  /\ published \in Seq(BusSignal \cup {"bad"}) /\ wire \in Seq(BusSignal \cup {"bad"})
  /\ subscribed \in BOOLEAN /\ listening \in BOOLEAN
  /\ health \in 0..3 /\ (health = 0 <=> listening)
  /\ buffer \in Seq(BusSignal) /\ Len(buffer) <= Capacity
  /\ forwarding \in {"check", "wait", "recheck", "ok", "error"}
  /\ taken \in BusSignal \cup {"none"}
  /\ workerState \in {"running", "paused", "draining"}
  /\ applied \in Seq(BusSignal)

BusInit ==
  /\ published = <<>> /\ wire = <<>> /\ subscribed = TRUE
  /\ listening = TRUE /\ health = 0 /\ buffer = <<>>
  /\ forwarding = "check" /\ taken = "none"
  /\ workerState = "running" /\ applied = <<>>

-----------------------------------------------------------------------------
(* Redis. *)
Publish(m) ==
  /\ subscribed /\ Len(published) < MaxPublished
  /\ published' = Append(published, m)
  /\ wire' = Append(wire, m)
  /\ UNCHANGED <<subscribed, listening, health, buffer, forwarding, taken, workerState, applied>>

Disconnect ==
  /\ subscribed
  /\ subscribed' = FALSE
  /\ \E n \in 0..Len(wire) : wire' = SubSeq(wire, 1, n)
  /\ UNCHANGED <<published, listening, health, buffer, forwarding, taken, workerState, applied>>

-----------------------------------------------------------------------------
(* The listener: a message it cannot buffer ends it. *)
Stop(why) == listening' = FALSE /\ health' = why

\* Mutants: the channel is unbounded; a publication that finds it full is skipped.
BufferUnbounded(m) == buffer' = Append(buffer, m) /\ UNCHANGED <<listening, health>>
BufferSkips(m) ==
  /\ buffer' = IF Len(buffer) < Capacity THEN Append(buffer, m) ELSE buffer
  /\ UNCHANGED <<listening, health>>
Buffer(m) ==
  IF Len(buffer) < Capacity
    THEN buffer' = Append(buffer, m) /\ UNCHANGED <<listening, health>>
    ELSE Stop(3) /\ UNCHANGED buffer

Listen ==
  /\ listening /\ wire # <<>>
  /\ wire' = Tail(wire)
  /\ IF Head(wire) \in BusSignal THEN Buffer(Head(wire)) ELSE Stop(2) /\ UNCHANGED buffer
  /\ UNCHANGED <<published, subscribed, forwarding, taken, workerState, applied>>

StreamEnds ==
  /\ listening /\ wire = <<>> /\ ~subscribed
  /\ Stop(1)
  /\ UNCHANGED <<published, wire, subscribed, buffer, forwarding, taken, workerState, applied>>

-----------------------------------------------------------------------------
(* forward_signals and next_signal, which looks at the health before and    *)
(* after it waits.                                                          *)
Set(state) == workerState' = IF workerState = "draining" THEN workerState ELSE state

\* Mutant: the run goes on without its control channel.
BrokenQuietly == forwarding' = "error" /\ UNCHANGED workerState
Broken == forwarding' = "error" /\ Set("draining")

Check ==
  /\ forwarding = "check"
  /\ workerState # "draining"
  /\ IF health = 0 THEN forwarding' = "wait" /\ UNCHANGED workerState ELSE Broken
  /\ UNCHANGED <<published, wire, subscribed, listening, health, buffer, taken, applied>>

Receive ==
  /\ forwarding = "wait" /\ buffer # <<>>
  /\ taken' = Head(buffer) /\ buffer' = Tail(buffer)
  /\ forwarding' = "recheck"
  /\ UNCHANGED <<published, wire, subscribed, listening, health, workerState, applied>>

\* The wait is over, or the channel is closed; a signal there goes first.
ReceiveNothing ==
  /\ forwarding = "wait" /\ buffer = <<>>
  /\ taken' = "none"
  /\ forwarding' = "recheck"
  /\ UNCHANGED <<published, wire, subscribed, listening, health, buffer, workerState, applied>>

Recheck ==
  /\ forwarding = "recheck"
  /\ taken' = "none"
  /\ IF health # 0
       THEN Broken /\ UNCHANGED applied
       ELSE /\ forwarding' = "check"
            /\ IF taken = "none"
                 THEN UNCHANGED <<workerState, applied>>
                 ELSE Set(State[taken]) /\ applied' = Append(applied, taken)
  /\ UNCHANGED <<published, wire, subscribed, listening, health, buffer>>

\* The caller's shutdown, or a drain from elsewhere.
ShutDown ==
  /\ forwarding \in {"check", "wait"}
  /\ Set("draining")
  /\ forwarding' = "ok"
  /\ UNCHANGED <<published, wire, subscribed, listening, health, buffer, taken, applied>>

DrainSeen == workerState = "draining" /\ ShutDown

BusNext ==
  \/ \E m \in BusSignal \cup {"bad"} : Publish(m)
  \/ Disconnect
  \/ Listen
  \/ StreamEnds
  \/ Check
  \/ Receive
  \/ ReceiveNothing
  \/ Recheck
  \/ ShutDown

BusSpec == BusInit /\ [][BusNext]_busVars

(* Both tasks run, and a wait ends after 30 s.                              *)
BusFairness ==
  /\ WF_busVars(Listen) /\ WF_busVars(StreamEnds) /\ WF_busVars(Check) /\ WF_busVars(Recheck)
  /\ WF_busVars(DrainSeen) /\ WF_busVars(Receive)
  /\ WF_busVars(ReceiveNothing)

BusFairSpec == BusSpec /\ BusFairness

-----------------------------------------------------------------------------
(* Properties. *)

(* The signals applied are the first ones published, in order and without   *)
(* a gap: a late or overflowing subscriber never acts on a later signal     *)
(* having missed an earlier one.                                            *)
AppliedInOrder == IsPrefix(applied, published)

(* A publication the listener cannot pass on (overflow, garbage, a broken   *)
(* connection) ends in a drain: the worker does not go on claiming while    *)
(* it may have missed a pause.                                              *)
LossDrains == ~listening ~> workerState = "draining"
=============================================================================
