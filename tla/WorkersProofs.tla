--------------------------- MODULE WorkersProofs ----------------------------
(***************************************************************************)
(* Proofs about the workers beside the job queue, each for every value of  *)
(* its constants: SignalBus, KafkaPublisher, TopicWorker and KafkaWorker.  *)
(* The four share no variable; each part states its own invariant.         *)
(***************************************************************************)
EXTENDS SignalBus, KafkaPublisher, TopicWorker, KafkaWorker, SequenceTheorems, TLAPS

-----------------------------------------------------------------------------
(***************************************************************************)
(* SignalBus: for any capacity and any number of publications, the         *)
(* signals applied are the first published, without a gap.                 *)
(*                                                                         *)
(* What was applied, what forward_signals took, the channel and the wire,  *)
(* one after the other, are the publications (Flow): all of them while     *)
(* the connection lasts, the first ones while the listener does.           *)
(* Sequences are compared place by place.                                  *)
(***************************************************************************)
\* The entries of s are the publications after the first n.
FollowsAt(s, n) == \A i \in 1..Len(s) : n + i <= Len(published) /\ s[i] = published[n + i]

\* The places before the channel's and before the wire's first entry.
AtBuffer == Len(applied) + (IF taken = "none" THEN 0 ELSE 1)
AtWire == AtBuffer + Len(buffer)

Flow ==
  /\ taken # "none" => /\ forwarding = "recheck"
                       /\ Len(applied) < Len(published)
                       /\ taken = published[Len(applied) + 1]
  /\ FollowsAt(buffer, AtBuffer)
  /\ listening => FollowsAt(wire, AtWire)
  /\ listening /\ subscribed => AtWire + Len(wire) = Len(published)

BusInv == BusTypeOK /\ FollowsAt(applied, 0) /\ (forwarding # "error" => Flow)

LEMMA BusStarts == ASSUME BusInit PROVE BusInv
BY BusAssumption DEF BusInit, BusInv, BusTypeOK, Flow, FollowsAt, AtBuffer, AtWire, BusSignal

LEMMA BusTypeStep == ASSUME BusTypeOK, [BusNext]_busVars PROVE BusTypeOK'
<1> USE BusAssumption DEF BusTypeOK, BusSignal
<1>1. ASSUME NEW m \in BusSignal \cup {"bad"}, Publish(m) PROVE BusTypeOK'
  BY <1>1 DEF Publish
<1>2. CASE Disconnect
  <2>1. PICK n \in 0..Len(wire) : wire' = SubSeq(wire, 1, n)
    BY <1>2 DEF Disconnect
  <2>2. wire' \in Seq(BusSignal \cup {"bad"})
    BY <2>1
  <2> QED
    BY <1>2, <2>2 DEF Disconnect
<1>3. CASE Listen
  <2>1. wire' \in Seq(BusSignal \cup {"bad"}) /\ Head(wire) \in BusSignal \cup {"bad"}
    BY <1>3 DEF Listen
  <2>2. CASE /\ Head(wire) \in BusSignal /\ Len(buffer) < Capacity
             /\ buffer' = Append(buffer, Head(wire))
             /\ UNCHANGED <<listening, health>>
    <3>1. buffer' \in Seq(BusSignal) /\ Len(buffer') <= Capacity
      BY <2>2
    <3> QED
      BY <1>3, <2>1, <2>2, <3>1 DEF Listen
  <2>3. CASE (Stop(2) \/ Stop(3)) /\ UNCHANGED buffer
    <3>1. listening' = FALSE /\ health' # 0 /\ health' \in 0..3
      BY <2>3 DEF Stop
    <3>2. listening' \in BOOLEAN /\ (health' = 0 <=> listening')
      BY <3>1, Zenon
    <3> QED
      BY <1>3, <2>1, <2>3, <3>1, <3>2 DEF Listen
  <2> QED
    BY <1>3, <2>2, <2>3, Zenon DEF Listen, Buffer
<1>4. CASE StreamEnds
  <2>1. health' = 1 /\ listening' = FALSE
    BY <1>4 DEF StreamEnds, Stop
  <2>2. health' # 0 /\ health' \in 0..3
    BY <2>1
  <2>3. listening' \in BOOLEAN /\ (health' = 0 <=> listening')
    BY <2>1, <2>2, Zenon
  <2> QED
    BY <1>4, <2>2, <2>3 DEF StreamEnds
<1>5. CASE Check
  BY <1>5 DEF Check, Broken, Set
<1>6. CASE Receive
  BY <1>6 DEF Receive
<1>7. CASE ReceiveNothing
  BY <1>7 DEF ReceiveNothing
<1>8. CASE Recheck
  <2>1. taken \in BusSignal => State[taken] \in {"running", "paused", "draining"}
    BY DEF State
  <2>2. workerState' \in {"running", "paused", "draining"}
    BY <1>8, <2>1 DEF Recheck, Broken, Set
  <2>3. forwarding' \in {"check", "error"}
    BY <1>8 DEF Recheck, Broken
  <2>4. applied' = applied => applied' \in Seq(BusSignal)
    OBVIOUS
  <2>5. taken # "none" /\ applied' = Append(applied, taken) => applied' \in Seq(BusSignal)
    OBVIOUS
  <2>6. applied' \in Seq(BusSignal)
    BY <1>8, <2>4, <2>5 DEF Recheck
  <2> QED
    BY <1>8, <2>2, <2>3, <2>6 DEF Recheck
<1>9. CASE ShutDown
  BY <1>9 DEF ShutDown, Set
<1>10. CASE UNCHANGED busVars
  BY <1>10 DEF busVars
<1> QED
  BY <1>1, <1>2, <1>3, <1>4, <1>5, <1>6, <1>7, <1>8, <1>9, <1>10 DEF BusNext

\* A publication comes after those that are there.
LEMMA PublishKeeps ==
  ASSUME BusTypeOK, NEW m, published' = Append(published, m), NEW s, NEW n \in Nat,
         Len(s) \in Nat, FollowsAt(s, n)
  PROVE  \A i \in 1..Len(s) : n + i <= Len(published') /\ s[i] = published'[n + i]
<1>1. published \in Seq(BusSignal \cup {"bad"}) /\ Len(published) \in Nat
  BY DEF BusTypeOK
<1>2. /\ Len(published') = Len(published) + 1
      /\ \A i \in 1..Len(published) : published'[i] = published[i]
  BY <1>1
<1> QED
  BY <1>1, <1>2 DEF FollowsAt

LEMMA FlowStep == ASSUME BusInv, BusTypeOK', [BusNext]_busVars PROVE BusInv'
<1> USE DEF BusInv, BusTypeOK, Flow, FollowsAt, AtBuffer, AtWire
<1>1. ASSUME NEW m \in BusSignal \cup {"bad"}, Publish(m) PROVE BusInv'
  <2>1. /\ Len(published') = Len(published) + 1
        /\ \A i \in 1..Len(published) : published'[i] = published[i]
        /\ published'[Len(published) + 1] = m
    BY <1>1 DEF Publish
  <2>2. /\ Len(wire') = Len(wire) + 1
        /\ \A i \in 1..Len(wire) : wire'[i] = wire[i]
        /\ wire'[Len(wire) + 1] = m
    BY <1>1 DEF Publish
  <2>3. FollowsAt(applied, 0)'
    BY <1>1, PublishKeeps DEF Publish
  <2>4. forwarding # "error" => Flow'
    <3> SUFFICES ASSUME forwarding # "error" PROVE Flow'
      OBVIOUS
    <3>1. FollowsAt(buffer, AtBuffer)'
      <4>1. AtBuffer \in Nat /\ Len(buffer) \in Nat /\ FollowsAt(buffer, AtBuffer)
        OBVIOUS
      <4>2. \A i \in 1..Len(buffer) : /\ AtBuffer + i <= Len(published')
                                      /\ buffer[i] = published'[AtBuffer + i]
        BY <1>1, <4>1, PublishKeeps DEF Publish
      <4> QED
        BY <1>1, <4>2 DEF Publish
    <3>2. ASSUME listening PROVE FollowsAt(wire, AtWire)' /\ (AtWire + Len(wire) = Len(published))'
      <4>1. /\ AtWire \in Nat /\ Len(wire) \in Nat /\ FollowsAt(wire, AtWire)
            /\ AtWire + Len(wire) = Len(published) /\ AtWire' = AtWire
        BY <1>1, <3>2 DEF Publish
      <4>2. \A i \in 1..Len(wire) : /\ AtWire + i <= Len(published')
                                    /\ wire[i] = published'[AtWire + i]
        BY <1>1, <4>1, PublishKeeps DEF Publish
      <4> HIDE DEF BusInv, BusTypeOK, Flow, AtBuffer, AtWire
      <4>3. AtWire + Len(wire') = Len(published')
        BY <2>1, <2>2, <4>1
      <4>4. ASSUME NEW i \in 1..Len(wire')
            PROVE  AtWire + i <= Len(published') /\ wire'[i] = published'[AtWire + i]
        <5>1. CASE i \in 1..Len(wire)
          BY <2>2, <4>2, <5>1
        <5>2. CASE i = Len(wire) + 1
          <6>1. AtWire + i = Len(published) + 1
            BY <4>1, <5>2
          <6> QED
            BY <2>1, <2>2, <4>1, <4>3, <5>2, <6>1
        <5> QED
          BY <2>2, <4>1, <5>1, <5>2
      <4> QED
        BY <4>1, <4>3, <4>4
    <3>3. taken # "none" => /\ forwarding = "recheck"
                            /\ Len(applied) < Len(published')
                            /\ taken = published'[Len(applied) + 1]
      <4>1. Len(applied) \in Nat /\ Len(published) \in Nat
        OBVIOUS
      <4>2. taken # "none" => /\ forwarding = "recheck"
                              /\ Len(applied) < Len(published)
                              /\ taken = published[Len(applied) + 1]
        BY Zenon
      <4> HIDE DEF BusInv, BusTypeOK, Flow, FollowsAt
      <4> QED
        BY <2>1, <4>1, <4>2
    <3>4. UNCHANGED <<applied, taken, forwarding, listening>>
      BY <1>1 DEF Publish
    <3> HIDE DEF BusInv, BusTypeOK, FollowsAt, AtBuffer, AtWire
    <3> QED
      BY <3>1, <3>2, <3>3, <3>4, Zenon
  <2> QED
    BY <1>1, <2>3, <2>4 DEF Publish
<1>2. CASE Disconnect
  <2>1. PICK n \in 0..Len(wire) : wire' = SubSeq(wire, 1, n)
    BY <1>2 DEF Disconnect
  <2>2. /\ Len(wire') = n
        /\ \A i \in 1..n : wire'[i] = wire[i]
    BY <2>1
  <2>3. FollowsAt(applied, 0)'
    BY <1>2 DEF Disconnect
  <2>4. FollowsAt(wire, AtWire) => FollowsAt(wire, AtWire)'
    <3>1. AtWire' = AtWire /\ UNCHANGED published
      BY <1>2 DEF Disconnect
    <3> HIDE DEF BusInv, BusTypeOK, Flow, AtBuffer, AtWire
    <3> QED
      BY <2>2, <3>1
  <2>5. forwarding # "error" => Flow'
    <3>1. UNCHANGED <<published, listening, buffer, forwarding, taken, applied>> /\ subscribed' = FALSE
      BY <1>2 DEF Disconnect
    <3>2. FollowsAt(buffer, AtBuffer) => FollowsAt(buffer, AtBuffer)'
      BY <3>1
    <3> HIDE DEF BusInv, BusTypeOK, FollowsAt, AtBuffer, AtWire
    <3>3. BusInv => Flow \/ forwarding = "error"
      BY Zenon DEF BusInv
    <3> QED
      BY <2>4, <3>1, <3>2, <3>3, Zenon
  <2> QED
    BY <1>2, <2>3, <2>5 DEF Disconnect
<1>3. CASE Listen
  <2>1. /\ Len(wire') = Len(wire) - 1
        /\ \A i \in 1..Len(wire') : wire'[i] = wire[i + 1]
        /\ Head(wire) = wire[1] /\ Len(wire) > 0
    BY <1>3 DEF Listen
  <2>2. CASE /\ buffer' = Append(buffer, Head(wire))
             /\ UNCHANGED <<listening, health>>
    <3>1. /\ Len(buffer') = Len(buffer) + 1
          /\ \A i \in 1..Len(buffer) : buffer'[i] = buffer[i]
          /\ buffer'[Len(buffer) + 1] = wire[1]
      BY <2>1, <2>2
    <3>2. AtWire' = AtWire + 1 /\ AtBuffer' = AtBuffer /\ UNCHANGED published
      <4>1. UNCHANGED <<published, applied, taken>>
        BY <1>3 DEF Listen
      <4>2. AtBuffer \in Nat /\ Len(buffer) \in Nat
        OBVIOUS
      <4>3. AtBuffer' = AtBuffer
        BY <4>1
      <4>4. AtWire' = AtBuffer' + Len(buffer') /\ AtWire = AtBuffer + Len(buffer)
        OBVIOUS
      <4> HIDE DEF BusInv, BusTypeOK, Flow, FollowsAt, AtBuffer, AtWire
      <4> QED
        BY <3>1, <4>1, <4>2, <4>3, <4>4
    <3>3. AtBuffer \in Nat /\ Len(buffer) \in Nat /\ Len(wire) \in Nat
      OBVIOUS
    <3>4. ASSUME forwarding # "error"
          PROVE  /\ FollowsAt(buffer, AtBuffer)'
                 /\ FollowsAt(wire, AtWire)'
                 /\ subscribed => (AtWire + Len(wire) = Len(published))'
      <4>1. FollowsAt(buffer, AtBuffer) /\ FollowsAt(wire, AtWire)
        BY <1>3, <3>4 DEF Listen
      <4>2. subscribed => AtWire + Len(wire) = Len(published)
        BY <1>3, <3>4 DEF Listen
      <4>3. AtWire = AtBuffer + Len(buffer)
        OBVIOUS
      <4> HIDE DEF BusInv, BusTypeOK, Flow, AtBuffer, AtWire
      <4>4. FollowsAt(buffer, AtBuffer)'
        <5> SUFFICES ASSUME NEW i \in 1..Len(buffer')
                     PROVE  AtBuffer + i <= Len(published) /\ buffer'[i] = published[AtBuffer + i]
          BY <3>2
        <5>1. CASE i \in 1..Len(buffer)
          BY <3>1, <4>1, <5>1
        <5>2. CASE i = Len(buffer) + 1
          BY <2>1, <3>1, <3>3, <4>1, <4>3, <5>2
        <5> QED
          BY <3>1, <3>3, <5>1, <5>2
      <4>5. FollowsAt(wire, AtWire)'
        <5>1. Len(wire') \in Nat /\ Len(wire') = Len(wire) - 1
              /\ \A i \in 1..Len(wire') : wire'[i] = wire[i + 1]
          BY <2>1, <3>3
        <5>2. AtWire \in Nat
          BY <3>3, <4>3
        <5>3. ASSUME NEW i \in 1..Len(wire')
              PROVE  AtWire + 1 + i <= Len(published) /\ wire'[i] = published[AtWire + 1 + i]
          <6>1. i + 1 \in 1..Len(wire) /\ i \in Nat
            BY <3>3, <5>1
          <6>2. AtWire + (i + 1) = AtWire + 1 + i
            BY <5>2, <6>1
          <6> QED BY <4>1, <5>1, <6>1, <6>2
        <5> QED BY <3>2, <5>3
      <4>6. subscribed => (AtWire + Len(wire) = Len(published))'
        <5>1. subscribed' = subscribed /\ Len(wire') = Len(wire) - 1
          BY <1>3, <2>1 DEF Listen
        <5>2. AtWire \in Nat
          BY <3>3, <4>3
        <5> QED
          BY <3>2, <3>3, <4>2, <5>1, <5>2
      <4> QED
        BY <4>4, <4>5, <4>6, Zenon
    <3> QED
      BY <1>3, <2>2, <3>4 DEF Listen
  <2>3. CASE (Stop(2) \/ Stop(3)) /\ UNCHANGED buffer
    BY <1>3, <2>3 DEF Listen, Stop
  <2> QED
    BY <1>3, <2>2, <2>3, Zenon DEF Listen, Buffer
<1>4. CASE StreamEnds
  BY <1>4 DEF StreamEnds, Stop
<1>5. CASE Check
  BY <1>5 DEF Check, Broken, Set
<1>6. CASE Receive
  <2>1. /\ Len(buffer') = Len(buffer) - 1 /\ Len(buffer) > 0
        /\ \A i \in 1..Len(buffer') : buffer'[i] = buffer[i + 1]
        /\ taken' = buffer[1] /\ taken' \in BusSignal
    BY <1>6 DEF Receive
  <2>2. taken = "none" /\ taken' # "none"
    BY <1>6, <2>1 DEF Receive, BusSignal
  <2>3. AtBuffer' = AtBuffer + 1 /\ AtWire' = AtWire
    BY <1>6, <2>1, <2>2 DEF Receive
  <2>4. FollowsAt(buffer, AtBuffer)'
    BY <1>6, <2>1, <2>2 DEF Receive
  <2>5. Len(applied) < Len(published) /\ taken' = published[Len(applied) + 1]
    BY <1>6, <2>1, <2>2 DEF Receive
  <2>6. listening => FollowsAt(wire, AtWire)' /\ (subscribed => (AtWire + Len(wire) = Len(published))')
    BY <1>6, <2>1, <2>2 DEF Receive
  <2> QED
    BY <1>6, <2>2, <2>4, <2>5, <2>6 DEF Receive
<1>7. CASE ReceiveNothing
  BY <1>7 DEF ReceiveNothing
<1>8. CASE Recheck
  <2>1. CASE forwarding' = "error" /\ UNCHANGED applied
    BY <1>8, <2>1 DEF Recheck
  <2>2. CASE taken = "none" /\ UNCHANGED applied /\ forwarding' = "check"
    BY <1>8, <2>2 DEF Recheck
  <2>3. CASE taken # "none" /\ applied' = Append(applied, taken) /\ forwarding' = "check"
    <3>1. /\ Len(applied') = Len(applied) + 1
          /\ \A i \in 1..Len(applied) : applied'[i] = applied[i]
          /\ applied'[Len(applied) + 1] = taken
      BY <2>3
    <3>2. AtBuffer' = AtBuffer
      BY <1>8, <2>3, <3>1 DEF Recheck
    <3>3. FollowsAt(applied, 0)'
      BY <1>8, <2>3, <3>1 DEF Recheck
    <3>4. FollowsAt(buffer, AtBuffer)' /\ (listening => FollowsAt(wire, AtWire)')
      BY <1>8, <2>3, <3>2 DEF Recheck
    <3> QED
      BY <1>8, <2>3, <3>2, <3>3, <3>4 DEF Recheck
  <2> QED
    BY <1>8, <2>1, <2>2, <2>3 DEF Recheck, Broken
<1>9. CASE ShutDown
  BY <1>9 DEF ShutDown, Set
<1>10. CASE UNCHANGED busVars
  BY <1>10 DEF busVars
<1> QED
  BY <1>1, <1>2, <1>3, <1>4, <1>5, <1>6, <1>7, <1>8, <1>9, <1>10 DEF BusNext

LEMMA BusInvAlways == BusSpec => []BusInv
<1>1. BusInv /\ [BusNext]_busVars => BusInv'
  BY BusTypeStep, FlowStep DEF BusInv
<1> QED
  BY BusStarts, <1>1, PTL DEF BusSpec

\* The listener, its channel and forward_signals have their types; the channel
\* holds its capacity at most, and the health is bad exactly when the listener
\* has ended.
THEOREM BusTypeCorrect == BusSpec => []BusTypeOK
BY BusInvAlways, PTL DEF BusInv

\* The signals applied are the first published, in order and without a gap,
\* whatever overflows, breaks or is rejected on the way.
THEOREM AppliedInOrderCorrect == BusSpec => []AppliedInOrder
<1>1. BusInv => AppliedInOrder
  <2> SUFFICES ASSUME BusInv PROVE IsPrefix(applied, published)
    BY DEF AppliedInOrder
  <2>1. applied \in Seq(BusSignal) /\ published \in Seq(BusSignal \cup {"bad"})
    BY DEF BusInv, BusTypeOK
  <2>2. Len(applied) <= Len(published)
    BY <2>1 DEF BusInv, FollowsAt
  <2>3. \A i \in 1..Len(applied) : applied[i] = published[i]
    BY <2>1 DEF BusInv, FollowsAt
  <2>4. SubSeq(applied, 1, Len(applied)) = SubSeq(published, 1, Len(applied))
    BY <2>1, <2>2, <2>3
  <2> QED
    BY <2>2, <2>4 DEF IsPrefix
<1> QED
  BY <1>1, BusInvAlways, PTL

-----------------------------------------------------------------------------
(***************************************************************************)
(* KafkaPublisher: for any calls and handles, what a consumer that reads   *)
(* only what is committed gets of a batch is the whole of it, or nothing.  *)
(*                                                                         *)
(* An open transaction holds the first records of one call's batch, that   *)
(* call is still at work on it (HandleOK, CallOK), and no transaction is   *)
(* left open behind a healthy handle.                                      *)
(***************************************************************************)
Prefix(c, k) == [i \in 1..k |-> [call |-> c, n |-> i]]
Active(c) == callPc[c] \in {"sending", "committing", "aborting"}

HandleOK(h) ==
  /\ phase[h] \in {"none", "committed"} => txn[h] = <<>>
  /\ phase[h] \in {"open", "committing"} => ~handleHealthy[h]
  /\ phase[h] = "committing" => \E c \in Call :
       /\ of[c] = h /\ txn[h] = Batch(c) /\ ~IsPublished(c)
       /\ callPc[c] \in {"committing", "aborting", "returned"}

CallOK(c) ==
  /\ callPc[c] \in {"new", "waiting"} => sentItems[c] = 0
  /\ IsPublished(c) => callPc[c] \in {"committing", "aborting", "returned"}
  /\ Active(c) => ~handleHealthy[of[c]] /\ (IsPublished(c) <=> phase[of[c]] = "committed")
  /\ Active(c) /\ phase[of[c]] = "open" => txn[of[c]] = Prefix(c, sentItems[c])
  /\ Active(c) /\ phase[of[c]] = "committing" => txn[of[c]] = Batch(c)
  /\ callPc[c] = "sending" => phase[of[c]] \in {"none", "open"}
  /\ callPc[c] = "committing" => phase[of[c]] # "open"

HandlesOK == \A h \in Handles : HandleOK(h)
CallsOK == \A c \in Call : CallOK(c)
PublisherInv == PublisherTypeOK /\ HandlesOK /\ CallsOK /\ WholeBatches

LEMMA BatchIsPrefix == ASSUME NEW c PROVE Batch(c) = Prefix(c, BatchSize)
  BY DEF Batch, Prefix

LEMMA BatchNamesCall == ASSUME NEW c, NEW d, Batch(c) = Batch(d) PROVE c = d
  <1>1. Batch(c)[1] = [call |-> c, n |-> 1] /\ Batch(d)[1] = [call |-> d, n |-> 1]
    BY PublisherAssumption DEF Batch
  <1>2. [call |-> c, n |-> 1].call = [call |-> d, n |-> 1].call
    BY <1>1
  <1> QED BY <1>2

LEMMA PrefixIsSeq == ASSUME NEW c \in Call, NEW k \in 0..BatchSize PROVE Prefix(c, k) \in Seq(Item)
  <1>1. \A i \in 1..k : [call |-> c, n |-> i] \in Item
    BY PublisherAssumption DEF Item
  <1> QED BY <1>1, PublisherAssumption DEF Prefix

LEMMA PrefixGrows ==
  ASSUME NEW c \in Call, NEW k \in 0..BatchSize, k < BatchSize
  PROVE  Append(Prefix(c, k), [call |-> c, n |-> k + 1]) = Prefix(c, k + 1)
  <1> DEFINE s == Append(Prefix(c, k), [call |-> c, n |-> k + 1])
  <1>1. Prefix(c, k) \in Seq(Item) /\ Prefix(c, k + 1) \in Seq(Item)
    BY PrefixIsSeq, PublisherAssumption
  <1>2. [call |-> c, n |-> k + 1] \in Item
    BY PublisherAssumption DEF Item
  <1>3. Len(Prefix(c, k)) = k /\ Len(Prefix(c, k + 1)) = k + 1
    BY PublisherAssumption DEF Prefix
  <1>4. s \in Seq(Item) /\ Len(s) = k + 1
    BY <1>1, <1>2, <1>3
  <1>5. ASSUME NEW i \in 1..(k + 1) PROVE s[i] = Prefix(c, k + 1)[i]
    <2>1. CASE i = k + 1
      BY <1>1, <1>2, <1>3, <2>1 DEF Prefix
    <2>2. CASE i # k + 1
      BY <1>1, <1>2, <1>3, <2>2 DEF Prefix
    <2> QED BY <2>1, <2>2
  <1> QED BY <1>1, <1>3, <1>4, <1>5

LEMMA PublisherInitInv == PublisherInit => PublisherInv
  <1> SUFFICES ASSUME PublisherInit PROVE PublisherInv OBVIOUS
  <1> USE PublisherAssumption DEF PublisherInit
  <1>1. PublisherTypeOK BY DEF PublisherTypeOK, Handles, Item
  <1>2. HandlesOK BY DEF HandlesOK, HandleOK
  <1>0. Len(commitLog) = 0 BY DEF PublisherInit
  <1>3. \A c \in Call : ~IsPublished(c) BY <1>0, 1..0 = {} DEF IsPublished
  <1>4. CallsOK BY <1>3 DEF CallsOK, CallOK, Active, Handles
  <1>5. WholeBatches BY <1>0, 1..0 = {} DEF WholeBatches
  <1> QED BY <1>1, <1>2, <1>4, <1>5 DEF PublisherInv

LEMMA EndCallTyped ==
  ASSUME PublisherTypeOK, NEW c \in Call, NEW a \in {"ok", "error", "dropped"}, EndCall(c, a),
         UNCHANGED <<latest, of, sentItems, commitLog>>,
         handleHealthy' \in [Handles -> BOOLEAN], txn' \in [Handles -> Seq(Item)],
         phase' \in [Handles -> {"none", "open", "committing", "committed"}]
  PROVE  PublisherTypeOK'
  <1>1. /\ lock' = [lock EXCEPT ![of[c]] = IF @ = c THEN NoCall ELSE @]
        /\ callPc' = [callPc EXCEPT ![c] = "returned"]
        /\ answer' = [answer EXCEPT ![c] = a]
    BY DEF EndCall, Reach
  <1>2. ASSUME NEW d \in Call, callPc'[d] \in {"sending", "committing", "aborting"}
        PROVE  lock'[of[d]] = d
    BY <1>1, <1>2 DEF PublisherTypeOK
  <1>3. lock' \in [Handles -> Call \cup {NoCall}]
    BY <1>1 DEF PublisherTypeOK
  <1>4. /\ callPc' \in [Call -> {"new", "waiting", "sending", "committing", "aborting", "returned"}]
        /\ answer' \in [Call -> {"none", "ok", "error", "dropped"}]
    BY <1>1 DEF PublisherTypeOK
  <1> QED BY <1>2, <1>3, <1>4 DEF PublisherTypeOK

LEMMA PublisherTypeStep == PublisherTypeOK /\ [PublisherNext]_publisherVars => PublisherTypeOK'
  <1> SUFFICES ASSUME PublisherTypeOK, [PublisherNext]_publisherVars PROVE PublisherTypeOK'
    OBVIOUS
  <1> USE PublisherAssumption
  <1>0. /\ handleHealthy \in [Handles -> BOOLEAN] /\ txn \in [Handles -> Seq(Item)]
        /\ phase \in [Handles -> {"none", "open", "committing", "committed"}]
        /\ of \in [Call -> Handles]
    BY DEF PublisherTypeOK
  <1>00. <<>> \in Seq(Item)
    OBVIOUS
  <1>01. ASSUME NEW h \in Handles, Clear(h)
         PROVE  /\ txn' \in [Handles -> Seq(Item)]
                /\ phase' \in [Handles -> {"none", "open", "committing", "committed"}]
    <2>1. txn' = [txn EXCEPT ![h] = <<>>] /\ phase' = [phase EXCEPT ![h] = "none"]
      BY <1>01 DEF Clear
    <2>2. txn' \in [Handles -> Seq(Item)]
      BY <1>0, <1>00, <2>1
    <2> QED BY <1>0, <2>1, <2>2
  <1>1. CASE UNCHANGED publisherVars
    BY <1>1 DEF publisherVars, brokerVars, PublisherTypeOK
  <1>2. ASSUME NEW h \in Handles PROVE txn[h] \in Seq(Item) /\ Append(commitLog, txn[h]) \in Seq(Seq(Item))
    BY DEF PublisherTypeOK
  <1>3. CASE ConnectHandle
    <2>1. latest \in Handles /\ <<>> \in Seq(Item)
      BY DEF PublisherTypeOK
    <2>2. /\ txn' \in [Handles -> Seq(Item)] /\ commitLog' \in Seq(Seq(Item))
          /\ phase' \in [Handles -> {"none", "open", "committing", "committed"}]
      <3>1. commitLog \in Seq(Seq(Item))
        BY DEF PublisherTypeOK
      <3>2. CASE Clear(latest) /\ UNCHANGED commitLog
        BY <1>01, <2>1, <3>1, <3>2
      <3>3. CASE UNCHANGED <<txn, phase, commitLog>>
        BY <1>0, <3>1, <3>3
      <3>4. CASE /\ commitLog' = Append(commitLog, txn[latest])
                 /\ txn' = [txn EXCEPT ![latest] = <<>>]
                 /\ phase' = [phase EXCEPT ![latest] = "committed"]
        <4>1. txn' \in [Handles -> Seq(Item)]
          BY <1>0, <1>00, <2>1, <3>4
        <4>2. commitLog' \in Seq(Seq(Item))
          BY <1>2, <2>1, <3>4
        <4> QED BY <1>0, <3>4, <4>1, <4>2
      <3> QED BY <1>3, <3>2, <3>3, <3>4 DEF ConnectHandle, Resolved
    <2>3. latest' \in Handles
      BY <1>3, <2>1 DEF ConnectHandle, Handles
    <2> QED BY <1>3, <2>2, <2>3 DEF ConnectHandle, PublisherTypeOK
  <1>4. ASSUME NEW h \in Handles, BrokerCommits(h) PROVE PublisherTypeOK'
    BY <1>2, <1>4 DEF BrokerCommits, PublisherTypeOK
  <1>5. ASSUME NEW h \in Handles, Expire(h) PROVE PublisherTypeOK'
    BY <1>5 DEF Expire, Clear, PublisherTypeOK
  <1> USE DEF Handles
  <1>6. ASSUME NEW c \in Call, Enqueue(c) PROVE PublisherTypeOK'
    BY <1>6 DEF Enqueue, Reach, brokerVars, PublisherTypeOK
  <1>7. ASSUME NEW c \in Call, LockTimeout(c) PROVE PublisherTypeOK'
    <2>1. UNCHANGED <<brokerVars, handleHealthy, of, sentItems>> /\ EndCall(c, "error")
      BY <1>7 DEF LockTimeout
    <2> QED BY <1>0, <2>1, EndCallTyped DEF brokerVars
  <1>8. ASSUME NEW c \in Call, Begin(c) PROVE PublisherTypeOK'
    <2>1. CASE EndCall(c, "error") /\ UNCHANGED phase
      <3>1. handleHealthy' \in [Handles -> BOOLEAN] /\ UNCHANGED <<latest, txn, commitLog, of, sentItems>>
        BY <1>0, <1>8 DEF Begin
      <3> QED BY <1>0, <2>1, <3>1, EndCallTyped
    <2>2. CASE /\ lock' = [lock EXCEPT ![of[c]] = c]
               /\ phase' = [phase EXCEPT ![of[c]] = "open"]
               /\ Reach(c, "sending")
               /\ UNCHANGED answer
      BY <1>8, <2>2 DEF Begin, Reach, PublisherTypeOK
    <2> QED BY <1>8, <2>1, <2>2 DEF Begin
  <1>9. ASSUME NEW c \in Call, Send(c) PROVE PublisherTypeOK'
    <2>1. [call |-> c, n |-> sentItems[c] + 1] \in Item /\ sentItems[c] + 1 \in 0..BatchSize
      BY <1>9 DEF Send, PublisherTypeOK, Item
    <2> QED BY <1>9, <2>1 DEF Send, PublisherTypeOK
  <1>10. ASSUME NEW c \in Call, TransactionFails(c) PROVE PublisherTypeOK'
    BY <1>10 DEF TransactionFails, Reach, brokerVars, PublisherTypeOK
  <1>11. ASSUME NEW c \in Call, AskCommit(c) PROVE PublisherTypeOK'
    BY <1>11 DEF AskCommit, Reach, PublisherTypeOK
  <1>12. ASSUME NEW c \in Call, Committed(c) PROVE PublisherTypeOK'
    <2>1. /\ UNCHANGED <<brokerVars, of, sentItems>> /\ EndCall(c, "ok")
          /\ handleHealthy' = [handleHealthy EXCEPT ![of[c]] = TRUE]
      BY <1>12 DEF Committed
    <2>2. handleHealthy' \in [Handles -> BOOLEAN]
      BY <1>0, <2>1
    <2> QED BY <1>0, <2>1, <2>2, EndCallTyped DEF brokerVars
  <1>13. ASSUME NEW c \in Call, Abort(c) PROVE PublisherTypeOK'
    <2>1. /\ UNCHANGED <<latest, commitLog, handleHealthy, of, sentItems>> /\ EndCall(c, "error")
          /\ Clear(of[c]) \/ UNCHANGED <<txn, phase>>
      BY <1>13 DEF Abort
    <2>2. txn' \in [Handles -> Seq(Item)]
          /\ phase' \in [Handles -> {"none", "open", "committing", "committed"}]
      <3>1. CASE Clear(of[c])
        BY <1>0, <1>01, <3>1
      <3>2. CASE UNCHANGED <<txn, phase>>
        BY <1>0, <3>2
      <3> QED BY <2>1, <3>1, <3>2
    <2> QED BY <1>0, <2>1, <2>2, EndCallTyped
  <1>14. ASSUME NEW c \in Call, Drop(c) PROVE PublisherTypeOK'
    <2>1. UNCHANGED <<brokerVars, handleHealthy, of, sentItems>> /\ EndCall(c, "dropped")
      BY <1>14 DEF Drop
    <2> QED BY <1>0, <2>1, EndCallTyped DEF brokerVars
  <1> QED
    BY <1>1, <1>3, <1>4, <1>5, <1>6, <1>7, <1>8, <1>9, <1>10, <1>11, <1>12, <1>13, <1>14
       DEF PublisherNext

(* No commit, no change of what is published. *)
LEMMA PublishedStays ==
  ASSUME UNCHANGED commitLog
  PROVE  \A d : IsPublished(d)' <=> IsPublished(d)
  BY DEF IsPublished, Batch

LEMMA PublishedGrows ==
  ASSUME PublisherTypeOK, NEW c \in Call, commitLog' = Append(commitLog, Batch(c))
  PROVE  /\ Len(commitLog') = Len(commitLog) + 1
         /\ \A i \in 1..Len(commitLog) : commitLog'[i] = commitLog[i]
         /\ commitLog'[Len(commitLog) + 1] = Batch(c)
         /\ \A d \in Call : IsPublished(d)' <=> IsPublished(d) \/ d = c
  <1>1. commitLog \in Seq(Seq(Item)) /\ Batch(c) \in Seq(Item)
    BY BatchIsPrefix, PrefixIsSeq, PublisherAssumption DEF PublisherTypeOK
  <1>2. /\ Len(commitLog') = Len(commitLog) + 1 /\ Len(commitLog) \in Nat
        /\ \A i \in 1..Len(commitLog) : commitLog'[i] = commitLog[i]
        /\ commitLog'[Len(commitLog) + 1] = Batch(c)
    BY <1>1
  <1>3. ASSUME NEW d \in Call, IsPublished(d) PROVE IsPublished(d)'
    <2>1. PICK i \in 1..Len(commitLog) : commitLog[i] = Batch(d)
      BY <1>3 DEF IsPublished
    <2>2. i \in 1..Len(commitLog') /\ commitLog'[i] = Batch(d)
      BY <1>2, <2>1
    <2> QED BY <2>2 DEF IsPublished, Batch
  <1>4. IsPublished(c)'
    <2>1. Len(commitLog) + 1 \in 1..Len(commitLog')
      BY <1>2
    <2> QED BY <1>2, <2>1 DEF IsPublished, Batch
  <1>5. ASSUME NEW d \in Call, IsPublished(d)', d # c PROVE IsPublished(d)
    <2>1. PICK i \in 1..Len(commitLog') : commitLog'[i] = Batch(d)
      BY <1>5 DEF IsPublished, Batch
    <2>2. i # Len(commitLog) + 1
      BY <1>2, <1>5, <2>1, BatchNamesCall
    <2>3. i \in 1..Len(commitLog) /\ commitLog[i] = Batch(d)
      BY <1>2, <2>1, <2>2
    <2> QED BY <2>3 DEF IsPublished
  <1> QED BY <1>2, <1>3, <1>4, <1>5

(* The broker carries out a commit that was asked for. *)
LEMMA CommitStep ==
  ASSUME PublisherInv, NEW h \in Handles, phase[h] = "committing",
         commitLog' = Append(commitLog, txn[h]), txn' = [txn EXCEPT ![h] = <<>>],
         phase' = [phase EXCEPT ![h] = "committed"],
         UNCHANGED <<lock, handleHealthy, callPc, of, sentItems, answer>>
  PROVE  HandlesOK' /\ CallsOK' /\ WholeBatches'
  <1> USE DEF PublisherInv
  <1>1. PICK c \in Call : /\ of[c] = h /\ txn[h] = Batch(c) /\ ~IsPublished(c)
                          /\ callPc[c] \in {"committing", "aborting", "returned"}
    BY DEF HandlesOK, HandleOK
  <1>2. commitLog' = Append(commitLog, Batch(c))
    BY <1>1
  <1>3. \A d \in Call : IsPublished(d)' <=> IsPublished(d) \/ d = c
    BY <1>2, PublishedGrows
  <1>4. \A g \in Handles : /\ phase'[g] = IF g = h THEN "committed" ELSE phase[g]
                          /\ txn'[g] = IF g = h THEN <<>> ELSE txn[g]
    BY DEF PublisherTypeOK
  <1>5. ASSUME NEW g \in Handles PROVE HandleOK(g)'
    <2>1. CASE g = h
      BY <1>4, <2>1 DEF HandleOK
    <2>2. CASE g # h
      <3>1. HandleOK(g) /\ phase'[g] = phase[g] /\ txn'[g] = txn[g]
        BY <1>4, <2>2 DEF HandlesOK
      <3>2. ASSUME phase[g] = "committing"
            PROVE  \E d \in Call : /\ of'[d] = g /\ txn'[g] = Batch(d) /\ ~IsPublished(d)'
                                   /\ callPc'[d] \in {"committing", "aborting", "returned"}
        <4>1. PICK d \in Call : /\ of[d] = g /\ txn[g] = Batch(d) /\ ~IsPublished(d)
                                /\ callPc[d] \in {"committing", "aborting", "returned"}
          BY <3>1, <3>2 DEF HandleOK
        <4>2. ~IsPublished(d)'
          BY <1>1, <1>3, <2>2, <4>1
        <4> QED BY <3>1, <4>1, <4>2
      <3> QED BY <3>1, <3>2 DEF HandleOK, Batch
    <2> QED BY <2>1, <2>2
  <1>6. ASSUME NEW d \in Call PROVE CallOK(d)'
    <2>1. CallOK(d) /\ of[d] \in Handles
      BY DEF CallsOK, PublisherTypeOK
    <2>2. CASE d = c
      BY <1>1, <1>3, <1>4, <2>1, <2>2 DEF CallOK, Active
    <2>3. CASE d # c /\ of[d] = h
      <3>1. ~Active(d)
        BY <1>1, <2>1, <2>3, BatchNamesCall DEF CallOK
      <3> QED BY <1>3, <2>1, <2>3, <3>1 DEF CallOK, Active
    <2>4. CASE d # c /\ of[d] # h
      BY <1>3, <1>4, <2>1, <2>4 DEF CallOK, Active, Prefix, Batch
    <2> QED BY <2>2, <2>3, <2>4
  <1>7. WholeBatches'
    <2>1. /\ Len(commitLog') = Len(commitLog) + 1 /\ Len(commitLog) \in Nat
          /\ \A i \in 1..Len(commitLog) : commitLog'[i] = commitLog[i]
          /\ commitLog'[Len(commitLog) + 1] = Batch(c)
      BY <1>2, PublishedGrows DEF PublisherTypeOK
    <2>2. \A i \in 1..Len(commitLog) : commitLog[i] # Batch(c)
      BY <1>1 DEF IsPublished
    <2>3. ASSUME NEW i \in 1..Len(commitLog') PROVE \E d \in Call : commitLog'[i] = Batch(d)
      BY <2>1 DEF WholeBatches
    <2>4. ASSUME NEW i \in 1..Len(commitLog'), NEW j \in 1..Len(commitLog'),
                 commitLog'[i] = commitLog'[j]
          PROVE  i = j
      <3>1. CASE i \in 1..Len(commitLog) /\ j \in 1..Len(commitLog)
        BY <2>1, <2>4, <3>1 DEF WholeBatches
      <3>2. CASE i = Len(commitLog) + 1 \/ j = Len(commitLog) + 1
        BY <2>1, <2>2, <2>4, <3>2
      <3> QED BY <2>1, <3>1, <3>2
    <2>5. \A d \in Call : answer[d] = "ok" => IsPublished(d)'
      BY <1>3 DEF WholeBatches
    <2> QED BY <2>3, <2>4, <2>5 DEF WholeBatches, Batch
  <1> QED BY <1>5, <1>6, <1>7 DEF HandlesOK, CallsOK

(* A transaction is aborted. *)
LEMMA ClearStep ==
  ASSUME PublisherInv, NEW h \in Handles, phase[h] \in {"open", "committing"}, Clear(h),
         UNCHANGED <<commitLog, lock, handleHealthy, callPc, of, sentItems, answer>>
  PROVE  HandlesOK' /\ CallsOK' /\ WholeBatches'
  <1> USE DEF PublisherInv
  <1>1. \A d : IsPublished(d)' <=> IsPublished(d)
    BY PublishedStays
  <1>2. \A g \in Handles : /\ phase'[g] = IF g = h THEN "none" ELSE phase[g]
                          /\ txn'[g] = IF g = h THEN <<>> ELSE txn[g]
    BY DEF PublisherTypeOK, Clear
  <1>3. ASSUME NEW g \in Handles PROVE HandleOK(g)'
    BY <1>1, <1>2 DEF HandlesOK, HandleOK, Batch
  <1>4. ASSUME NEW d \in Call PROVE CallOK(d)'
    <2>1. CallOK(d) /\ of[d] \in Handles
      BY DEF CallsOK, PublisherTypeOK
    <2> QED BY <1>1, <1>2, <2>1 DEF CallOK, Active, Batch, Prefix
  <1>5. WholeBatches'
    BY <1>1 DEF WholeBatches, Batch
  <1> QED BY <1>3, <1>4, <1>5 DEF HandlesOK, CallsOK

(* The lock lets one call into a handle. *)
LEMMA OthersElsewhere ==
  ASSUME PublisherTypeOK, NEW c \in Call, NEW d \in Call, c # d, Active(d),
         lock[of[c]] \in {c, NoCall}
  PROVE  of[d] # of[c]
  BY PublisherAssumption DEF PublisherTypeOK, Active

(* A call returns or is dropped. *)
LEMMA EndStep ==
  ASSUME PublisherInv, NEW c \in Call, NEW a \in {"ok", "error", "dropped"}, EndCall(c, a),
         callPc[c] \notin {"new", "returned"}, a = "ok" => IsPublished(c),
         UNCHANGED <<commitLog, of, sentItems>>,
         \/ UNCHANGED <<txn, phase>>
         \/ Clear(of[c]) /\ phase[of[c]] \in {"open", "committing"} /\ Active(c),
         \/ UNCHANGED handleHealthy
         \/ handleHealthy' = [handleHealthy EXCEPT ![of[c]] = FALSE]
         \/ /\ handleHealthy' = [handleHealthy EXCEPT ![of[c]] = TRUE]
            /\ Active(c) /\ phase[of[c]] = "committed" /\ UNCHANGED <<txn, phase>>
  PROVE  HandlesOK' /\ CallsOK' /\ WholeBatches'
  <1> USE DEF PublisherInv
  <1>1. \A d : IsPublished(d)' <=> IsPublished(d)
    BY PublishedStays
  <1>2. \A d \in Call : /\ callPc'[d] = IF d = c THEN "returned" ELSE callPc[d]
                        /\ answer'[d] = IF d = c THEN a ELSE answer[d]
    BY DEF PublisherTypeOK, EndCall, Reach
  <1>3. of[c] \in Handles
    BY DEF PublisherTypeOK
  <1>4. ASSUME NEW g \in Handles
        PROVE  /\ g # of[c] => /\ phase'[g] = phase[g] /\ txn'[g] = txn[g]
                               /\ handleHealthy'[g] = handleHealthy[g]
               /\ \/ phase'[g] = phase[g] /\ txn'[g] = txn[g]
                  \/ g = of[c] /\ phase'[g] = "none" /\ txn'[g] = <<>> /\ Active(c)
               /\ handleHealthy'[g] => \/ handleHealthy[g]
                                       \/ phase'[g] = "committed" /\ Active(c) /\ g = of[c]
    <2>1. /\ g \in DOMAIN phase /\ g \in DOMAIN txn /\ g \in DOMAIN handleHealthy
          /\ of[c] \in Handles
      BY <1>3 DEF PublisherTypeOK
    <2>2. /\ g # of[c] => phase'[g] = phase[g] /\ txn'[g] = txn[g]
          /\ \/ phase'[g] = phase[g] /\ txn'[g] = txn[g]
             \/ g = of[c] /\ phase'[g] = "none" /\ txn'[g] = <<>> /\ Active(c)
      BY <1>3, <2>1 DEF PublisherTypeOK, Clear
    <2>3. /\ g # of[c] => handleHealthy'[g] = handleHealthy[g]
          /\ handleHealthy'[g] => \/ handleHealthy[g]
                                  \/ phase[of[c]] = "committed" /\ UNCHANGED phase
                                     /\ Active(c) /\ g = of[c]
      BY <1>3 DEF PublisherTypeOK
    <2> QED BY <2>2, <2>3
  <1>5. ASSUME NEW g \in Handles PROVE HandleOK(g)'
    <2>1. HandleOK(g)
      BY DEF HandlesOK
    <2>2. ASSUME phase'[g] = "committing"
          PROVE  \E d \in Call : /\ of'[d] = g /\ txn'[g] = Batch(d) /\ ~IsPublished(d)'
                                 /\ callPc'[d] \in {"committing", "aborting", "returned"}
      <3>1. phase[g] = "committing" /\ txn'[g] = txn[g]
        BY <1>4, <2>2
      <3>2. PICK d \in Call : /\ of[d] = g /\ txn[g] = Batch(d) /\ ~IsPublished(d)
                              /\ callPc[d] \in {"committing", "aborting", "returned"}
        BY <2>1, <3>1 DEF HandleOK
      <3> QED BY <1>1, <1>2, <3>1, <3>2
    <2>3. phase'[g] \in {"none", "committed"} => txn'[g] = <<>>
      BY <1>4, <2>1 DEF HandleOK
    <2>4. phase'[g] \in {"open", "committing"} => ~handleHealthy'[g]
      BY <1>4, <2>1 DEF HandleOK
    <2> QED BY <2>2, <2>3, <2>4 DEF HandleOK, Batch
  <1>6. ASSUME NEW d \in Call PROVE CallOK(d)'
    <2>1. CallOK(d) /\ of[d] \in Handles
      BY DEF CallsOK, PublisherTypeOK
    <2>2. CASE d = c
      BY <1>2, <2>2 DEF CallOK, Active
    <2>3. CASE d # c /\ ~Active(d)
      BY <1>1, <1>2, <2>1, <2>3 DEF CallOK, Active
    <2>4. CASE d # c /\ Active(d) /\ of[d] # of[c]
      BY <1>1, <1>2, <1>4, <2>1, <2>4 DEF CallOK, Active, Prefix, Batch
    <2>5. CASE d # c /\ Active(d) /\ of[d] = of[c]
      <3>1. ~Active(c)
        BY <2>5 DEF PublisherTypeOK, Active
      <3>2. phase'[of[d]] = phase[of[d]] /\ txn'[of[d]] = txn[of[d]] /\ ~handleHealthy'[of[d]]
        BY <1>4, <2>1, <2>5, <3>1 DEF CallOK
      <3> QED BY <1>1, <1>2, <2>1, <2>5, <3>2 DEF CallOK, Active, Prefix, Batch
    <2> QED BY <2>2, <2>3, <2>4, <2>5
  <1>7. WholeBatches'
    BY <1>1, <1>2 DEF WholeBatches, Batch
  <1> QED BY <1>5, <1>6, <1>7 DEF HandlesOK, CallsOK

LEMMA BeginStep ==
  ASSUME PublisherInv, NEW c \in Call, Begin(c)
  PROVE  HandlesOK' /\ CallsOK' /\ WholeBatches'
  <1> USE DEF PublisherInv
  <1>1. CASE EndCall(c, "error") /\ UNCHANGED phase
    <2>1. /\ callPc[c] = "waiting" /\ UNCHANGED <<commitLog, of, sentItems, txn, phase>>
          /\ handleHealthy' = [handleHealthy EXCEPT ![of[c]] = FALSE]
      BY <1>1 DEF Begin
    <2> HIDE DEF PublisherInv
    <2> QED BY <1>1, <2>1, EndStep
  <1>2. CASE /\ Usable(of[c])
             /\ lock' = [lock EXCEPT ![of[c]] = c]
             /\ phase' = [phase EXCEPT ![of[c]] = "open"]
             /\ Reach(c, "sending")
             /\ UNCHANGED answer
    <2>1. /\ callPc[c] = "waiting" /\ lock[of[c]] = NoCall /\ handleHealthy[of[c]]
          /\ handleHealthy' = [handleHealthy EXCEPT ![of[c]] = FALSE]
          /\ UNCHANGED <<txn, commitLog, of, sentItems, answer>>
      BY <1>2 DEF Begin, Usable
    <2>2. of[c] \in Handles
      BY DEF PublisherTypeOK
    <2>3. \A g \in Handles : /\ phase'[g] = IF g = of[c] THEN "open" ELSE phase[g]
                             /\ handleHealthy'[g] = IF g = of[c] THEN FALSE ELSE handleHealthy[g]
      BY <1>2, <2>1 DEF PublisherTypeOK
    <2>4. \A d \in Call : callPc'[d] = IF d = c THEN "sending" ELSE callPc[d]
      BY <1>2 DEF PublisherTypeOK, Reach
    <2>5. \A d : IsPublished(d)' <=> IsPublished(d)
      BY <2>1, PublishedStays
    <2>6. ASSUME NEW g \in Handles PROVE HandleOK(g)'
      <3>1. HandleOK(g)
        BY DEF HandlesOK
      <3>2. CASE g = of[c]
        BY <2>3, <3>2 DEF HandleOK
      <3>3. CASE g # of[c]
        BY <2>1, <2>3, <2>4, <2>5, <3>1, <3>3 DEF HandleOK, Batch
      <3> QED BY <3>2, <3>3
    <2>7. ASSUME NEW d \in Call PROVE CallOK(d)'
      <3>1. CallOK(d) /\ of[d] \in Handles
        BY DEF CallsOK, PublisherTypeOK
      <3>2. CASE d = c
        <4>1. sentItems[c] = 0 /\ ~IsPublished(c)
          BY <2>1, <3>1, <3>2 DEF CallOK
        <4>2. txn[of[c]] = <<>>
          BY <2>1, <2>2 DEF HandlesOK, HandleOK, PublisherTypeOK
        <4>3. Prefix(c, 0) = <<>>
          BY DEF Prefix
        <4> QED BY <2>1, <2>3, <2>4, <2>5, <3>1, <3>2, <4>1, <4>2, <4>3 DEF CallOK, Active, Prefix
      <3>3. CASE d # c /\ ~Active(d)
        BY <2>1, <2>4, <2>5, <3>1, <3>3 DEF CallOK, Active
      <3>4. CASE d # c /\ Active(d)
        <4>1. of[d] # of[c]
          BY <2>1, <3>4, OthersElsewhere
        <4> QED BY <2>1, <2>3, <2>4, <2>5, <3>1, <3>4, <4>1 DEF CallOK, Active, Prefix, Batch
      <3> QED BY <3>2, <3>3, <3>4
    <2>8. WholeBatches'
      <3>1. UNCHANGED <<commitLog, answer>>
        BY <2>1
      <3> QED BY <2>5, <3>1 DEF WholeBatches, Batch
    <2> QED BY <2>6, <2>7, <2>8 DEF HandlesOK, CallsOK
  <1> QED BY <1>1, <1>2 DEF Begin

LEMMA SendStep ==
  ASSUME PublisherInv, NEW c \in Call, Send(c)
  PROVE  HandlesOK' /\ CallsOK' /\ WholeBatches'
  <1> USE DEF PublisherInv
  <1>1. /\ callPc[c] = "sending" /\ sentItems[c] < BatchSize /\ phase[of[c]] = "open"
        /\ txn' = [txn EXCEPT ![of[c]] = Append(@, [call |-> c, n |-> sentItems[c] + 1])]
        /\ sentItems' = [sentItems EXCEPT ![c] = @ + 1]
        /\ UNCHANGED <<phase, commitLog, lock, handleHealthy, callPc, of, answer>>
    BY DEF Send, Accepted
  <1>2. of[c] \in Handles /\ sentItems[c] \in 0..BatchSize
    BY DEF PublisherTypeOK
  <1>3. /\ \A d \in Call : sentItems'[d] = IF d = c THEN sentItems[c] + 1 ELSE sentItems[d]
        /\ \A g \in Handles : txn'[g] = IF g = of[c]
             THEN Append(txn[g], [call |-> c, n |-> sentItems[c] + 1]) ELSE txn[g]
    BY <1>1 DEF PublisherTypeOK
  <1>4. txn'[of[c]] = Prefix(c, sentItems'[c])
    <2>1. txn[of[c]] = Prefix(c, sentItems[c])
      BY <1>1 DEF CallsOK, CallOK, Active
    <2>2. sentItems[c] \in 0..BatchSize /\ sentItems[c] < BatchSize
      BY <1>1, <1>2
    <2>3. Append(Prefix(c, sentItems[c]), [call |-> c, n |-> sentItems[c] + 1])
            = Prefix(c, sentItems[c] + 1)
      BY <2>2, PrefixGrows
    <2>4. /\ txn'[of[c]] = Append(txn[of[c]], [call |-> c, n |-> sentItems[c] + 1])
          /\ sentItems'[c] = sentItems[c] + 1
      BY <1>2, <1>3
    <2> QED BY <2>1, <2>3, <2>4
  <1>5. \A d : IsPublished(d)' <=> IsPublished(d)
    BY <1>1, PublishedStays
  <1>6. ASSUME NEW g \in Handles PROVE HandleOK(g)'
    <2>1. HandleOK(g)
      BY DEF HandlesOK
    <2> QED BY <1>1, <1>3, <1>5, <2>1 DEF HandleOK, Batch
  <1>7. ASSUME NEW d \in Call PROVE CallOK(d)'
    <2>1. CallOK(d) /\ of[d] \in Handles
      BY DEF CallsOK, PublisherTypeOK
    <2>2. CASE d = c
      BY <1>1, <1>4, <1>5, <2>1, <2>2 DEF CallOK, Active, Prefix
    <2>3. CASE d # c /\ ~Active(d)
      BY <1>1, <1>3, <1>5, <2>1, <2>3 DEF CallOK, Active
    <2>4. CASE d # c /\ Active(d)
      <3>1. lock[of[c]] = c
        BY <1>1 DEF PublisherTypeOK
      <3>2. of[d] # of[c]
        BY <2>4, <3>1, OthersElsewhere
      <3> QED BY <1>1, <1>3, <1>5, <2>1, <2>4, <3>2 DEF CallOK, Active, Prefix, Batch
    <2> QED BY <2>2, <2>3, <2>4
  <1>8. WholeBatches'
    BY <1>1, <1>5 DEF WholeBatches, Batch
  <1> QED BY <1>6, <1>7, <1>8 DEF HandlesOK, CallsOK

LEMMA AskCommitStep ==
  ASSUME PublisherInv, NEW c \in Call, AskCommit(c)
  PROVE  HandlesOK' /\ CallsOK' /\ WholeBatches'
  <1> USE DEF PublisherInv
  <1>1. /\ callPc[c] = "sending" /\ sentItems[c] = BatchSize
        /\ phase' = [phase EXCEPT ![of[c]] = IF @ = "open" THEN "committing" ELSE @]
        /\ callPc' = [callPc EXCEPT ![c] = "committing"]
        /\ UNCHANGED <<txn, commitLog, lock, handleHealthy, of, sentItems, answer>>
    BY DEF AskCommit, Reach
  <1>2. of[c] \in Handles /\ Active(c) /\ CallOK(c)
    BY <1>1 DEF PublisherTypeOK, Active, CallsOK
  <1>3. phase[of[c]] \in {"none", "open"} /\ ~IsPublished(c)
    BY <1>1, <1>2 DEF CallOK
  <1>4. phase[of[c]] = "open" => txn[of[c]] = Batch(c)
    BY <1>1, <1>2, BatchIsPrefix DEF CallOK
  <1>5. /\ \A d \in Call : callPc'[d] = IF d = c THEN "committing" ELSE callPc[d]
        /\ \A g \in Handles : g # of[c] => phase'[g] = phase[g]
        /\ phase'[of[c]] = IF phase[of[c]] = "open" THEN "committing" ELSE phase[of[c]]
    BY <1>1, <1>2 DEF PublisherTypeOK
  <1>6. \A d : IsPublished(d)' <=> IsPublished(d)
    BY <1>1, PublishedStays
  <1>7. ASSUME NEW g \in Handles PROVE HandleOK(g)'
    <2>1. HandleOK(g)
      BY DEF HandlesOK
    <2>2. CASE g = of[c]
      <3>1. phase'[g] = "committing" => txn[g] = Batch(c)
        BY <1>3, <1>4, <1>5, <2>2
      <3>2. phase'[g] \in {"none", "committing"} /\ (phase'[g] = "none" => phase[g] = "none")
            /\ (phase'[g] = "committing" => phase[g] = "open")
        BY <1>3, <1>5, <2>2
      <3>3. phase'[g] = "committing" =>
              \E d \in Call : /\ of'[d] = g /\ txn'[g] = Batch(d) /\ ~IsPublished(d)'
                             /\ callPc'[d] \in {"committing", "aborting", "returned"}
        BY <1>1, <1>3, <1>5, <1>6, <2>2, <3>1
      <3>4. /\ phase'[g] \in {"none", "committed"} => txn'[g] = <<>>
            /\ phase'[g] \in {"open", "committing"} => ~handleHealthy'[g]
        BY <1>1, <2>1, <3>2 DEF HandleOK
      <3> QED BY <3>3, <3>4 DEF HandleOK, Batch
    <2>3. CASE g # of[c]
      <3>1. phase'[g] = phase[g] /\ txn'[g] = txn[g] /\ handleHealthy'[g] = handleHealthy[g]
        BY <1>1, <1>5, <2>3
      <3>2. phase'[g] \in {"none", "committed"} => txn'[g] = <<>>
        BY <2>1, <3>1 DEF HandleOK
      <3>3. phase'[g] \in {"open", "committing"} => ~handleHealthy'[g]
        BY <2>1, <3>1 DEF HandleOK
      <3>4. ASSUME phase'[g] = "committing"
            PROVE  \E d \in Call : /\ of'[d] = g /\ txn'[g] = Batch(d) /\ ~IsPublished(d)'
                                    /\ callPc'[d] \in {"committing", "aborting", "returned"}
        <4>1. PICK d \in Call : /\ of[d] = g /\ txn[g] = Batch(d) /\ ~IsPublished(d)
                                /\ callPc[d] \in {"committing", "aborting", "returned"}
          BY <2>1, <3>1, <3>4 DEF HandleOK
        <4>2. /\ of'[d] = g /\ txn'[g] = Batch(d) /\ ~IsPublished(d)'
              /\ callPc'[d] \in {"committing", "aborting", "returned"}
          BY <1>1, <1>5, <1>6, <3>1, <4>1
        <4> QED BY <4>2
      <3> QED BY <3>2, <3>3, <3>4 DEF HandleOK, Batch
    <2> QED BY <2>2, <2>3
  <1>8. ASSUME NEW d \in Call PROVE CallOK(d)'
    <2>1. CallOK(d) /\ of[d] \in Handles
      BY DEF CallsOK, PublisherTypeOK
    <2>2. CASE d = c
      BY <1>1, <1>3, <1>4, <1>5, <1>6, <2>1, <2>2 DEF CallOK, Active, Prefix, Batch
    <2>3. CASE d # c /\ ~Active(d)
      BY <1>1, <1>5, <1>6, <2>1, <2>3 DEF CallOK, Active
    <2>4. CASE d # c /\ Active(d)
      <3>1. lock[of[c]] = c
        BY <1>1 DEF PublisherTypeOK
      <3>2. of[d] # of[c]
        BY <2>4, <3>1, OthersElsewhere
      <3> QED BY <1>1, <1>5, <1>6, <2>1, <2>4, <3>2 DEF CallOK, Active, Prefix, Batch
    <2> QED BY <2>2, <2>3, <2>4
  <1>9. WholeBatches'
    BY <1>1, <1>6 DEF WholeBatches, Batch
  <1> QED BY <1>7, <1>8, <1>9 DEF HandlesOK, CallsOK

(* Enqueue and TransactionFails move one call and touch no handle. *)
LEMMA QuietStep ==
  ASSUME PublisherInv, NEW c \in Call, Enqueue(c) \/ TransactionFails(c)
  PROVE  HandlesOK' /\ CallsOK' /\ WholeBatches'
  <1> USE DEF PublisherInv
  <1>1. UNCHANGED <<latest, txn, phase, commitLog, lock, handleHealthy, sentItems, answer>>
    BY DEF Enqueue, TransactionFails, brokerVars
  <1>2. \A d : IsPublished(d)' <=> IsPublished(d)
    BY <1>1, PublishedStays
  <1>3. \A d \in Call : d # c => callPc'[d] = callPc[d] /\ of'[d] = of[d]
    BY DEF Enqueue, TransactionFails, Reach, PublisherTypeOK
  <1>4. \/ callPc[c] = "new" /\ callPc'[c] = "waiting"
        \/ callPc[c] \in {"sending", "committing"} /\ callPc'[c] = "aborting" /\ of'[c] = of[c]
    BY DEF Enqueue, TransactionFails, Reach, PublisherTypeOK
  <1>5. ASSUME NEW g \in Handles PROVE HandleOK(g)'
    <2>1. HandleOK(g)
      BY DEF HandlesOK
    <2>2. ASSUME phase[g] = "committing"
          PROVE  \E d \in Call : /\ of'[d] = g /\ txn[g] = Batch(d) /\ ~IsPublished(d)'
                                 /\ callPc'[d] \in {"committing", "aborting", "returned"}
      <3>1. PICK d \in Call : /\ of[d] = g /\ txn[g] = Batch(d) /\ ~IsPublished(d)
                              /\ callPc[d] \in {"committing", "aborting", "returned"}
        BY <2>1, <2>2 DEF HandleOK
      <3>2. of'[d] = of[d] /\ callPc'[d] \in {"committing", "aborting", "returned"}
        BY <1>3, <1>4, <3>1
      <3> QED BY <1>2, <3>1, <3>2
    <2> QED BY <1>1, <2>1, <2>2 DEF HandleOK, Batch
  <1>6. ASSUME NEW d \in Call PROVE CallOK(d)'
    <2>1. CallOK(d)
      BY DEF CallsOK
    <2>2. CASE d = c
      BY <1>1, <1>2, <1>4, <2>1, <2>2 DEF CallOK, Active, Batch, Prefix
    <2>3. CASE d # c
      BY <1>1, <1>2, <1>3, <2>1, <2>3 DEF CallOK, Active, Batch, Prefix
    <2> QED BY <2>2, <2>3
  <1>7. WholeBatches'
    BY <1>1, <1>2 DEF WholeBatches, Batch
  <1> QED BY <1>5, <1>6, <1>7 DEF HandlesOK, CallsOK

LEMMA PublisherStepInv == PublisherInv /\ [PublisherNext]_publisherVars => PublisherInv'
  <1> SUFFICES ASSUME PublisherInv, [PublisherNext]_publisherVars PROVE PublisherInv'
    OBVIOUS
  <1>1. PublisherTypeOK'
    BY PublisherTypeStep DEF PublisherInv
  <1> DEFINE Goal == HandlesOK' /\ CallsOK' /\ WholeBatches'
  <1>2. ASSUME UNCHANGED publisherVars PROVE Goal
    <2>1. UNCHANGED <<txn, phase, commitLog, lock, handleHealthy, callPc, of, sentItems, answer>>
      BY <1>2 DEF publisherVars, brokerVars
    <2>2. \A d : IsPublished(d)' <=> IsPublished(d)
      BY <2>1, PublishedStays
    <2>3. HandlesOK'
      BY <2>1, <2>2 DEF PublisherInv, HandlesOK, HandleOK, Batch
    <2>4. CallsOK'
      BY <2>1, <2>2 DEF PublisherInv, CallsOK, CallOK, Active, Batch, Prefix
    <2>5. WholeBatches'
      BY <2>1, <2>2 DEF PublisherInv, WholeBatches, Batch
    <2> QED BY <2>3, <2>4, <2>5
  <1>3. ASSUME ConnectHandle PROVE Goal
    <2>1. latest \in Handles
      BY DEF PublisherInv, PublisherTypeOK
    <2>2. UNCHANGED <<lock, handleHealthy, callPc, of, sentItems, answer>> /\ Resolved
      BY <1>3 DEF ConnectHandle
    <2>3. CASE /\ phase[latest] = "committing"
               /\ commitLog' = Append(commitLog, txn[latest])
               /\ txn' = [txn EXCEPT ![latest] = <<>>]
               /\ phase' = [phase EXCEPT ![latest] = "committed"]
      BY <2>1, <2>2, <2>3, CommitStep
    <2>4. CASE phase[latest] \in {"open", "committing"} /\ Clear(latest) /\ UNCHANGED commitLog
      BY <2>1, <2>2, <2>4, ClearStep
    <2>5. CASE UNCHANGED <<txn, phase, commitLog>>
      <3>1. \A d : IsPublished(d)' <=> IsPublished(d)
        BY <2>5, PublishedStays
      <3>2. HandlesOK'
        BY <2>2, <2>5, <3>1 DEF PublisherInv, HandlesOK, HandleOK, Batch
      <3>3. CallsOK'
        BY <2>2, <2>5, <3>1 DEF PublisherInv, CallsOK, CallOK, Active, Batch, Prefix
      <3>4. WholeBatches'
        BY <2>2, <2>5, <3>1 DEF PublisherInv, WholeBatches, Batch
      <3> QED BY <3>2, <3>3, <3>4
    <2> QED BY <2>2, <2>3, <2>4, <2>5 DEF Resolved
  <1>4. ASSUME NEW h \in Handles, BrokerCommits(h) PROVE Goal
    BY <1>4, CommitStep DEF BrokerCommits
  <1>5. ASSUME NEW h \in Handles, Expire(h) PROVE Goal
    BY <1>5, ClearStep DEF Expire
  <1>6. ASSUME NEW c \in Call, Enqueue(c) \/ TransactionFails(c) PROVE Goal
    BY <1>6, QuietStep
  <1>7. ASSUME NEW c \in Call, LockTimeout(c) PROVE Goal
    BY <1>7, EndStep DEF LockTimeout, brokerVars
  <1>8. ASSUME NEW c \in Call, Begin(c) PROVE Goal
    BY <1>8, BeginStep
  <1>9. ASSUME NEW c \in Call, Send(c) PROVE Goal
    BY <1>9, SendStep
  <1>10. ASSUME NEW c \in Call, AskCommit(c) PROVE Goal
    BY <1>10, AskCommitStep
  <1>11. ASSUME NEW c \in Call, Committed(c) PROVE Goal
    <2>1. /\ callPc[c] = "committing" /\ phase[of[c]] = "committed" /\ EndCall(c, "ok")
          /\ handleHealthy' = [handleHealthy EXCEPT ![of[c]] = TRUE]
          /\ UNCHANGED <<txn, phase, commitLog, of, sentItems>>
      BY <1>11 DEF Committed, CommitConfirmed, brokerVars
    <2>2. Active(c) /\ IsPublished(c)
      BY <2>1 DEF PublisherInv, CallsOK, CallOK, Active
    <2> QED BY <2>1, <2>2, EndStep
  <1>12. ASSUME NEW c \in Call, Abort(c) PROVE Goal
    <2>1. /\ callPc[c] = "aborting" /\ EndCall(c, "error")
          /\ UNCHANGED <<commitLog, handleHealthy, of, sentItems>>
          /\ \/ phase[of[c]] \in {"open", "committing"} /\ Clear(of[c])
             \/ UNCHANGED <<txn, phase>>
      BY <1>12 DEF Abort
    <2>2. Active(c)
      BY <2>1 DEF Active
    <2> QED BY <2>1, <2>2, EndStep
  <1>13. ASSUME NEW c \in Call, Drop(c) PROVE Goal
    BY <1>13, EndStep DEF Drop, brokerVars
  <1> HIDE DEF Goal
  <1>14. Goal
    BY <1>2, <1>3, <1>4, <1>5, <1>6, <1>7, <1>8, <1>9, <1>10, <1>11, <1>12, <1>13
       DEF PublisherNext, Goal
  <1> QED BY <1>1, <1>14 DEF PublisherInv, Goal

(* What the publishing transactions commit is one whole batch each, no batch  *)
(* twice, and every batch reported as published is among them: for any number *)
(* of calls, handles and records, whatever is dropped, fails, times out or    *)
(* expires between two of enqueue_batch's steps.                              *)
THEOREM WholeBatchesCorrect == PublisherSpec => []WholeBatches
  <1>1. PublisherInit => PublisherInv
    BY PublisherInitInv
  <1>2. PublisherInv /\ [PublisherNext]_publisherVars => PublisherInv'
    BY PublisherStepInv
  <1>3. PublisherInv => WholeBatches
    BY DEF PublisherInv
  <1> QED BY <1>1, <1>2, <1>3, PTL DEF PublisherSpec

-----------------------------------------------------------------------------
(***************************************************************************)
(* TopicWorker: for any messages and consumers, no message before the      *)
(* group's offset was left without an end.                                 *)
(*                                                                         *)
(* Whatever a consumer has behind it was handled (Behind): the offset the  *)
(* group committed, the next message of the consumer that has the          *)
(* partition, and all that any consumer remembers as processed.            *)
(***************************************************************************)
Handled(o) == fate[o] # "none"

\* What the owner has behind it was handled, and so was what any consumer
\* remembers as processed; nothing is given up before its last try.
Behind ==
  /\ \A o \in 1..Len(messages) : o < offset => Handled(o)
  /\ \A c \in Consumer : assignee = c =>
       \A o \in 1..Len(messages) : o < nextMessage[c] => Handled(o)
  /\ \A c \in Consumer : \A o \in processedMessages[c] : Handled(o)
  /\ \A c \in Consumer : consumerPc[c] = "processed" => nextMessage[c] \in processedMessages[c]
  /\ \A c \in Consumer : consumerPc[c] \in {"processing", "processed", "failed"} =>
       nextMessage[c] \in 1..Len(messages)
  /\ \A o \in 1..Len(messages) : fate[o] = "exhausted" => messages[o].retryCount > Retries

TopicInv == TopicTypeOK /\ Behind

(* The first messages are lists or not, with no try made. *)
LEMMA TopicInitInv == TopicInit => TopicInv
  <1> SUFFICES ASSUME TopicInit PROVE TopicInv OBVIOUS
  <1> USE TopicAssumption DEF TopicInit
  <1>1. \A list \in Formats : Enqueued(list) \in Message
    BY DEF Enqueued, Message
  <1>2. messages \in [1..Jobs -> Message]
    BY <1>1
  <1>3. messages \in Seq(Message) /\ Len(messages) = Jobs
    BY <1>2
  <1>4. TopicTypeOK
    BY <1>3 DEF TopicTypeOK, Fates
  <1>5. Behind
    BY <1>3 DEF Behind
  <1> QED BY <1>4, <1>5 DEF TopicInv

(* A handled message stays so: only the first fate is kept. *)
LEMMA HandledStays ==
  ASSUME NEW m \in Nat, fate \in [1..m -> Fates], NEW n \in 1..m,
         NEW f \in Fates \ {"none"}
  PROVE  /\ Noted(n, f) \in [1..m -> Fates]
         /\ Noted(n, f)[n] = IF fate[n] = "none" THEN f ELSE fate[n]
         /\ \A o \in 1..m : /\ fate[o] # "none" => Noted(n, f)[o] = fate[o]
                            /\ o # n => Noted(n, f)[o] = fate[o]
  <1>1. \A o \in 1..m : Noted(n, f)[o] = IF o = n /\ fate[o] = "none" THEN f ELSE fate[o]
    BY DEF Noted
  <1>2. Noted(n, f) \in [1..m -> Fates]
    BY DEF Noted
  <1>3. Noted(n, f)[n] = IF fate[n] = "none" THEN f ELSE fate[n]
    BY <1>1
  <1>4. ASSUME NEW o \in 1..m
        PROVE  fate[o] # "none" => Noted(n, f)[o] = fate[o]
    BY <1>1
  <1>5. ASSUME NEW o \in 1..m
        PROVE  o # n => Noted(n, f)[o] = fate[o]
    BY <1>1
  <1> QED BY <1>2, <1>3, <1>4, <1>5

LEMMA OneTryMore ==
  ASSUME NEW x \in Message, x.retryCount <= Retries
  PROVE  [x EXCEPT !.retryCount = @ + 1] \in Message
  BY TopicAssumption DEF Message

LEMMA TopicStepInv == TopicInv /\ [TopicNext]_topicVars => TopicInv'
  <1> SUFFICES ASSUME TopicInv, [TopicNext]_topicVars PROVE TopicInv' OBVIOUS
  <1> USE TopicAssumption DEF TopicInv
  <1>1. CASE UNCHANGED topicVars
    BY <1>1 DEF topicVars, topicLog, memory, topicBounds, TopicTypeOK, Behind, Handled
  <1>2. CASE Rebalance
    <2> USE <1>2 DEF Rebalance, topicLog, memory, topicBounds
    <2>1. TopicTypeOK' BY DEF TopicTypeOK
    <2>2. Behind' BY DEF TopicTypeOK, Behind, Handled
    <2> QED BY <2>1, <2>2
  <1>3. ASSUME NEW c \in Consumer, TopicAssigned(c) PROVE TopicInv'
    <2> USE <1>3 DEF TopicAssigned, topicLog, memory, topicBounds
    <2>1. TopicTypeOK' BY DEF TopicTypeOK
    <2>2. Behind' BY DEF TopicTypeOK, Behind, Handled
    <2> QED BY <2>1, <2>2
  <1>4. ASSUME NEW c \in Consumer, AutoCommit(c) PROVE TopicInv'
    <2> USE <1>4 DEF AutoCommit, topicLog, memory, topicBounds
    <2>1. TopicTypeOK' BY DEF TopicTypeOK
    <2>2. Behind' BY DEF TopicTypeOK, Behind, Handled
    <2> QED BY <2>1, <2>2
  <1>5. ASSUME NEW c \in Consumer, Setup(c) PROVE TopicInv'
    <2> USE <1>5 DEF Setup, Reached, topicLog, memory, topicBounds
    <2>1. TopicTypeOK' BY DEF TopicTypeOK
    <2>2. Behind' BY DEF TopicTypeOK, Behind, Handled
    <2> QED BY <2>1, <2>2
  <1>6. ASSUME NEW c \in Consumer, ConnectProducer(c) PROVE TopicInv'
    <2> USE <1>6 DEF ConnectProducer, topicLog, memory, topicBounds
    <2>1. TopicTypeOK' BY DEF TopicTypeOK
    <2>2. Behind' BY DEF TopicTypeOK, Behind, Handled
    <2> QED BY <2>1, <2>2
  <1>7. ASSUME NEW c \in Consumer, Crash(c) PROVE TopicInv'
    <2> USE <1>7 DEF Crash, Fault, Reached, topicLog, memory, topicBounds
    <2>1. TopicTypeOK' BY DEF TopicTypeOK
    <2>2. Behind' BY DEF TopicTypeOK, Behind, Handled
    <2> QED BY <2>1, <2>2
  <1>8. ASSUME NEW c \in Consumer, Deliver(c) PROVE TopicInv'
    <2>0. /\ nextMessage[c] \in 1..Len(messages)
          /\ UNCHANGED <<messages, offset, assignee, producerConnected, processedMessages, fate,
                         rebalances, faults>>
      BY <1>8 DEF Deliver, topicLog, topicBounds, TopicTypeOK
    <2>1. \A o : Handled(o)' <=> Handled(o)
      BY <2>0 DEF Handled
    <2>2. CASE nextMessage[c] \in processedMessages[c]
      <3>1. /\ nextMessage' = [nextMessage EXCEPT ![c] = nextMessage[c] + 1]
            /\ consumerPc' = [consumerPc EXCEPT ![c] = "waiting"]
        BY <1>8, <2>2 DEF Deliver, MessageDone, Reached
      <3>2. TopicTypeOK' BY <2>0, <3>1 DEF TopicTypeOK
      <3>3. Handled(nextMessage[c]) BY <2>2 DEF Behind
      <3>4. Behind' BY <2>0, <2>1, <3>1, <3>3 DEF TopicTypeOK, Behind
      <3> QED BY <3>2, <3>4
    <2>3. CASE nextMessage[c] \notin processedMessages[c]
      <3>1. UNCHANGED nextMessage /\ consumerPc' = [consumerPc EXCEPT ![c] = "processing"]
        BY <1>8, <2>3 DEF Deliver, Reached
      <3>2. TopicTypeOK' BY <2>0, <3>1 DEF TopicTypeOK
      <3>4. Behind' BY <2>0, <2>1, <3>1 DEF TopicTypeOK, Behind
      <3> QED BY <3>2, <3>4
    <2> QED BY <2>2, <2>3
  <1>9. ASSUME NEW c \in Consumer, Throw(c) PROVE TopicInv'
    <2> USE <1>9 DEF Throw, Reached, topicLog, memory, topicBounds
    <2>1. TopicTypeOK' BY DEF TopicTypeOK
    <2>2. Behind' BY DEF TopicTypeOK, Behind, Handled
    <2> QED BY <2>1, <2>2
  <1>10. ASSUME NEW c \in Consumer, NEW returned \in BOOLEAN, ProcessEvents(c, returned)
         PROVE TopicInv'
    <2> DEFINE n == nextMessage[c]
               f == IF returned THEN "returned" ELSE "processed"
    <2>1. /\ n \in 1..Len(messages)
          /\ processedMessages' = [processedMessages EXCEPT ![c] = @ \cup {n}]
          /\ fate' = Noted(n, f)
          /\ consumerPc' = [consumerPc EXCEPT ![c] = "processed"]
          /\ UNCHANGED <<messages, offset, assignee, nextMessage, producerConnected,
                         rebalances, faults>>
      BY <1>10 DEF ProcessEvents, Reached, topicLog, topicBounds, Behind
    <2>2. f \in Fates /\ f \notin {"none", "exhausted"}
      BY DEF Fates
    <2> HIDE DEF n, f
    <2>3. Len(messages) \in Nat /\ fate \in [1..Len(messages) -> Fates]
      BY DEF TopicTypeOK
    <2>4. /\ fate' \in [1..Len(messages) -> Fates]
          /\ fate'[n] = IF fate[n] = "none" THEN f ELSE fate[n]
          /\ \A o \in 1..Len(messages) : /\ fate[o] # "none" => fate'[o] = fate[o]
                                         /\ o # n => fate'[o] = fate[o]
      BY <2>1, <2>2, <2>3, HandledStays
    <2>5. fate'[n] # "none" /\ \A o \in 1..Len(messages) : Handled(o) => Handled(o)'
      BY <2>2, <2>4 DEF Handled
    <2>6. \A o \in 1..Len(messages) : fate'[o] = "exhausted" => fate[o] = "exhausted"
      BY <2>1, <2>2, <2>4
    <2>7. TopicTypeOK'
      BY <2>1, <2>4 DEF TopicTypeOK, n
    <2>8. Behind'
      BY <2>1, <2>5, <2>6 DEF TopicTypeOK, Behind, Handled, n
    <2> QED BY <2>7, <2>8
  <1>11. ASSUME NEW c \in Consumer, CommitOffsets(c) PROVE TopicInv'
    <2>1. /\ nextMessage[c] \in 1..Len(messages) /\ assignee = c
          /\ Handled(nextMessage[c])
          /\ offset' = nextMessage[c] + 1
          /\ nextMessage' = [nextMessage EXCEPT ![c] = nextMessage[c] + 1]
          /\ consumerPc' = [consumerPc EXCEPT ![c] = "waiting"]
          /\ UNCHANGED <<messages, assignee, producerConnected, processedMessages, fate,
                         rebalances, faults>>
      BY <1>11 DEF CommitOffsets, MessageDone, Reached, topicBounds, Behind
    <2>2. \A o : Handled(o)' <=> Handled(o)
      BY <2>1 DEF Handled
    <2>3. TopicTypeOK' BY <2>1 DEF TopicTypeOK
    <2>4. Behind' BY <2>1, <2>2 DEF TopicTypeOK, Behind
    <2> QED BY <2>3, <2>4
  <1>12. ASSUME NEW c \in Consumer, CommitFails(c) PROVE TopicInv'
    <2> USE <1>12 DEF CommitFails, Fault, Reached, topicLog, memory, topicBounds
    <2>1. TopicTypeOK' BY DEF TopicTypeOK
    <2>2. Behind' BY DEF TopicTypeOK, Behind, Handled
    <2> QED BY <2>1, <2>2
  <1>13. ASSUME NEW c \in Consumer, NotRepublished(c) PROVE TopicInv'
    <2> DEFINE n == nextMessage[c]
    <2>1. /\ n \in 1..Len(messages) /\ ~(messages[n].retryCount <= Retries)
          /\ fate' = Noted(n, "exhausted")
          /\ nextMessage' = [nextMessage EXCEPT ![c] = n + 1]
          /\ consumerPc' = [consumerPc EXCEPT ![c] = "waiting"]
          /\ UNCHANGED <<messages, offset, assignee, producerConnected, processedMessages,
                         rebalances, faults>>
      BY <1>13 DEF NotRepublished, MessageDone, Reached, TriesLeft, Current, topicLog,
                   topicBounds, Behind
    <2>2. messages \in Seq(Message) /\ messages[n] \in Message
      BY <2>1 DEF TopicTypeOK
    <2>3. messages[n].retryCount > Retries
      BY <2>1, <2>2 DEF Message
    <2> HIDE DEF n
    <2>4. Len(messages) \in Nat /\ fate \in [1..Len(messages) -> Fates] /\ "exhausted" \in Fates
      BY DEF TopicTypeOK, Fates
    <2>5. /\ fate' \in [1..Len(messages) -> Fates]
          /\ fate'[n] = IF fate[n] = "none" THEN "exhausted" ELSE fate[n]
          /\ \A o \in 1..Len(messages) : /\ fate[o] # "none" => fate'[o] = fate[o]
                                         /\ o # n => fate'[o] = fate[o]
      BY <2>1, <2>4, HandledStays
    <2>6. fate'[n] # "none" /\ \A o \in 1..Len(messages) : Handled(o) => Handled(o)'
      BY <2>5 DEF Handled
    <2>7. \A o \in 1..Len(messages) : fate'[o] = "exhausted" => messages[o].retryCount > Retries
      BY <2>3, <2>5 DEF Behind
    <2>8. TopicTypeOK'
      BY <2>1, <2>5 DEF TopicTypeOK
    <2>9. Behind'
      BY <2>1, <2>6, <2>7 DEF TopicTypeOK, Behind, Handled, n
    <2> QED BY <2>8, <2>9
  <1>14. ASSUME NEW c \in Consumer, Republish(c) PROVE TopicInv'
    <2> DEFINE n == nextMessage[c]
               again == [messages[n] EXCEPT !.retryCount = @ + 1]
               noted == Noted(n, "republished")
    <2>1. /\ n \in 1..Len(messages) /\ messages[n].retryCount <= Retries
          /\ messages' = Append(messages, again)
          /\ fate' = Append(noted, "none")
          /\ nextMessage' = [nextMessage EXCEPT ![c] = n + 1]
          /\ consumerPc' = [consumerPc EXCEPT ![c] = "waiting"]
          /\ UNCHANGED <<offset, assignee, producerConnected, processedMessages,
                         rebalances, faults>>
      BY <1>14 DEF Republish, MessageDone, Reached, TriesLeft, Current, topicBounds, Behind
    <2>2. messages \in Seq(Message) /\ messages[n] \in Message
      BY <2>1 DEF TopicTypeOK
    <2>3. again \in Message
      BY <2>1, <2>2, OneTryMore
    <2>4. /\ Len(messages) \in Nat /\ fate \in [1..Len(messages) -> Fates]
          /\ "republished" \in Fates /\ "none" \in Fates
      BY DEF TopicTypeOK, Fates
    <2> HIDE DEF n, again
    <2>5. /\ messages' \in Seq(Message) /\ Len(messages') = Len(messages) + 1
          /\ \A o \in 1..Len(messages) : messages'[o] = messages[o]
      BY <2>1, <2>2, <2>3
    <2>6. /\ noted \in [1..Len(messages) -> Fates] /\ noted[n] # "none"
          /\ \A o \in 1..Len(messages) : /\ fate[o] # "none" => noted[o] = fate[o]
                                         /\ noted[o] = "exhausted" => fate[o] = "exhausted"
      <3>1. n \in 1..Len(messages)
        BY <2>1
      <3>2. /\ noted \in [1..Len(messages) -> Fates]
            /\ noted[n] = IF fate[n] = "none" THEN "republished" ELSE fate[n]
            /\ \A o \in 1..Len(messages) : /\ fate[o] # "none" => noted[o] = fate[o]
                                           /\ o # n => noted[o] = fate[o]
        <4>1. "republished" \in Fates \ {"none"}
          BY <2>4
        <4> QED BY <2>4, <3>1, <4>1, HandledStays
      <3> HIDE DEF noted
      <3> QED BY <3>2
    <2> HIDE DEF noted
    <2>7. noted \in Seq(Fates) /\ Len(noted) = Len(messages)
      BY <2>4, <2>6
    <2>8. /\ fate' \in Seq(Fates) /\ Len(fate') = Len(messages) + 1
          /\ \A o \in 1..Len(messages) : fate'[o] = noted[o]
          /\ fate'[Len(messages) + 1] = "none"
      BY <2>1, <2>4, <2>7
    <2>9. fate' \in [1..Len(messages') -> Fates]
      BY <2>5, <2>8
    <2>10. fate'[n] # "none" /\ \A o \in 1..Len(messages) : Handled(o) => Handled(o)'
      BY <2>1, <2>6, <2>8 DEF Handled
    <2>11. \A o \in 1..Len(messages') : fate'[o] = "exhausted" =>
             messages'[o].retryCount > Retries
      <3> SUFFICES ASSUME NEW o \in 1..Len(messages'), fate'[o] = "exhausted"
                   PROVE  messages'[o].retryCount > Retries
        OBVIOUS
      <3>1. o \in 1..Len(messages)
        BY <2>4, <2>5, <2>8
      <3>2. fate[o] = "exhausted"
        BY <2>6, <2>8, <3>1
      <3> QED BY <2>5, <3>1, <3>2 DEF Behind
    <2>12. TopicTypeOK'
      BY <2>1, <2>4, <2>5, <2>9 DEF TopicTypeOK
    <2>13. Behind'
      <3>1. ASSUME NEW o \in 1..Len(messages'), o < offset'
            PROVE  Handled(o)'
        <4>1. o \in 1..Len(messages) /\ o < offset
          BY <2>1, <2>4, <2>5, <3>1 DEF TopicTypeOK
        <4>2. Handled(o)
          BY <4>1 DEF Behind
        <4> QED BY <2>10, <4>1, <4>2
      <3>2. ASSUME NEW d \in Consumer, assignee' = d,
                   NEW o \in 1..Len(messages'), o < nextMessage'[d]
            PROVE  Handled(o)'
        <4>1. assignee = d /\ nextMessage[d] \in 1..(Len(messages) + 1)
          BY <2>1, <3>2 DEF TopicTypeOK
        <4>2. nextMessage'[d] = IF d = c THEN n + 1 ELSE nextMessage[d]
          BY <2>1 DEF TopicTypeOK
        <4>3. o \in 1..Len(messages) /\ (o = n \/ o < nextMessage[d])
          BY <2>1, <2>4, <2>5, <3>2, <4>1, <4>2 DEF n
        <4>4. CASE o < nextMessage[d]
          <5>1. Handled(o)
            BY <4>1, <4>3, <4>4 DEF Behind
          <5> QED BY <2>10, <4>3, <5>1
        <4>5. CASE o = n
          BY <2>10, <4>5 DEF Handled
        <4> QED BY <4>3, <4>4, <4>5
      <3>3. \A d \in Consumer : \A o \in processedMessages'[d] : Handled(o)'
        BY <2>1, <2>4, <2>10 DEF TopicTypeOK, Behind, Handled
      <3>4. \A d \in Consumer :
              /\ consumerPc'[d] = "processed" => nextMessage'[d] \in processedMessages'[d]
              /\ consumerPc'[d] \in {"processing", "processed", "failed"} =>
                   nextMessage'[d] \in 1..Len(messages')
        BY <2>1, <2>4, <2>5 DEF TopicTypeOK, Behind
      <3> QED BY <3>1, <3>2, <3>3, <3>4, <2>11 DEF Behind
    <2> QED BY <2>12, <2>13
  <1>15. ASSUME NEW c \in Consumer, RepublishFails(c) PROVE TopicInv'
    <2> USE <1>15 DEF RepublishFails, Reject, Fault, Reached, topicLog, topicBounds
    <2>1. TopicTypeOK' BY DEF TopicTypeOK
    <2>2. Behind' BY DEF TopicTypeOK, Behind, Handled
    <2> QED BY <2>1, <2>2
  <1> QED
    BY <1>1, <1>2, <1>3, <1>4, <1>5, <1>6, <1>7, <1>8, <1>9, <1>10, <1>11, <1>12,
       <1>13, <1>14, <1>15 DEF TopicNext, ConsumerStep

THEOREM TopicNothingSkippedCorrect == TopicSpec => []TopicNothingSkipped
  <1>1. TopicInv => TopicNothingSkipped
    BY DEF TopicInv, TopicTypeOK, Fates, Behind, Handled, TopicNothingSkipped
  <1> QED BY <1>1, TopicInitInv, TopicStepInv, PTL DEF TopicSpec

-----------------------------------------------------------------------------
(***************************************************************************)
(* KafkaWorker: for any workers, records and number of rebalances, the     *)
(* group's offset skips no record that is open, and none is settled twice  *)
(* in one life of its worker.                                              *)
(*                                                                         *)
(* KafkaOrder says where the records are: what the owner of the partition  *)
(* holds, keeps aside and will fetch next follow one another without a     *)
(* gap from what is settled, and what another worker still holds is of an  *)
(* earlier generation, whose commits are refused.  It holds until a        *)
(* record overtakes one that was kept aside (overtaken): the properties    *)
(* are stated for the behaviours, and the time, in which none has.         *)
(***************************************************************************)
TakenAt == {"start", "handling", "settle", "send", "commit"}
Serves(w) == pc[w] \in TakenAt /\ current[w].generation = generation

\* The offset that follows what the owner is at, and the end of what it fetched.
Upcoming(w) == IF Serves(w) THEN current[w].offset + 1 ELSE committed
Fetched(w)  == IF pc[w] = "received" THEN current[w].offset ELSE position[w]

\* The owner keeps aside, in order and without a gap, what it fetched last; of
\* what it fetched before, nothing is open unless run was called again.
InLine(w) == \E m \in 0..Len(buffered[w]) :
  /\ \A i \in 1..Len(buffered[w]) : (buffered[w][i].generation = generation) <=> (i > m)
  /\ \A i \in 1..Len(buffered[w]) :
       i > m => buffered[w][i].offset + Len(buffered[w]) + 1 = Fetched(w) + i
  /\ Upcoming(w) + Len(buffered[w]) <= Fetched(w) + m
  /\ reruns = 0 /\ pc[w] # "ended" => Upcoming(w) + Len(buffered[w]) = Fetched(w) + m

\* An offset that may be committed next.
IsNext(o) == committed <= o /\ (reruns = 0 => o = committed)

OwnerOK(w) == owner = w =>
  /\ joined[w] = generation /\ InLine(w)
  /\ Serves(w) => IsNext(current[w].offset)

DeliveryOK(w) ==
  /\ pc[w] \in TakenAt \cup {"received"} => current[w].offset \in Offset
  /\ pc[w] = "received" => current[w].generation = joined[w] /\ current[w].offset + 1 = position[w]
  /\ current[w].generation <= generation
  /\ \A i \in 1..Len(buffered[w]) :
       buffered[w][i].offset \in Offset /\ buffered[w][i].generation <= generation

VerdictOK(w) ==
  /\ pc[w] \notin {"settle", "send", "commit"} => verdict[w] = "none"
  /\ verdict[w] = "retry" => current[w].offset \in Offset /\ Attempt(w) < MaxAttempts

SentOK(w) ==
  /\ sent[w] => ~healthy[w] /\ owner \in {w, Nobody}
  /\ pc[w] = "commit" =>
       sent[w] /\ IsNext(current[w].offset) /\ (owner = w => current[w].generation = generation)

KafkaTypes == TypeOK /\ \A w \in Worker : DeliveryOK(w) /\ VerdictOK(w)

WorkerOK(w) == OwnerOK(w) /\ SentOK(w)
OneSends == \A v, w \in Worker : sent[v] /\ sent[w] => v = w
LogSettled ==
  /\ \A o \in Offset : settled[o] <= 1
  /\ \A o \in Offset : o >= committed => settled[o] = 0
  /\ reruns = 0 => \A o \in Offset : o < committed => settled[o] = 1
KafkaOrder == OneSends /\ LogSettled /\ \A w \in Worker : WorkerOK(w)

KafkaInv == KafkaTypes /\ (~overtaken => KafkaOrder)

-----------------------------------------------------------------------------
(* Types. *)

LEMMA DeliveriesTyped ==
  ASSUME TypeOK, NEW v \in Worker
  PROVE  /\ current[v].offset \in Nat /\ current[v].generation \in Nat
         /\ Len(buffered[v]) \in Nat
         /\ \A i \in 1..Len(buffered[v]) :
              buffered[v][i].offset \in Nat /\ buffered[v][i].generation \in Nat
  <1>1. current[v] \in Delivery /\ buffered[v] \in Seq(Delivery)
    BY DEF TypeOK
  <1>2. \A i \in 1..Len(buffered[v]) : buffered[v][i] \in Delivery
    BY <1>1
  <1>3. \A d \in Delivery : d.offset \in Nat /\ d.generation \in Nat
    BY DEF Delivery
  <1>4. Len(buffered[v]) \in Nat
    BY <1>1
  <1> QED BY <1>1, <1>2, <1>3, <1>4

LEMMA KafkaTypesInit == Init => KafkaTypes
  <1> SUFFICES ASSUME Init PROVE KafkaTypes
    OBVIOUS
  <1> DEFINE Rec == [job : Job, attempts : 0..(MaxAttempts - 1)]
  <1>1. log \in [1..2 -> Rec]
    BY KafkaAssumption DEF Init
  <1> HIDE DEF Rec
  <1>2. log \in Seq(Rec) /\ Len(log) = 2
    <2>1. PICK n \in Nat : n = 2
      OBVIOUS
    <2>2. log \in [1..n -> Rec]
      BY <1>1, <2>1
    <2>3. log \in Seq(Rec) /\ Len(log) = n
      BY <2>2
    <2> QED BY <2>1, <2>3
  <1>3. \A w \in Worker : current[w] = None /\ buffered[w] = <<>> /\ pc[w] = "loop" /\ verdict[w] = "none"
    BY DEF Init
  <1>4. None \in Delivery /\ <<>> \in Seq(Delivery)
    BY DEF None, Delivery
  <1>5. current \in [Worker -> Delivery] /\ buffered \in [Worker -> Seq(Delivery)]
    BY <1>4 DEF Init
  <1>6. settled \in [1..Len(log) -> Nat] /\ dead \in [Job -> Nat] /\ overtaken \in BOOLEAN
    BY <1>2 DEF Init
  <1>7. /\ joined \in [Worker -> 0..generation] /\ position \in [Worker -> 1..(Len(log) + 1)]
        /\ committed \in 1..(Len(log) + 1)
    BY <1>2 DEF Init
  <1>8. TypeOK
    BY <1>2, <1>5, <1>6, <1>7 DEF Init, TypeOK, Rec
  <1>9. ASSUME NEW w \in Worker PROVE DeliveryOK(w) /\ VerdictOK(w)
    <2>1. generation = 0 /\ None.generation = 0 /\ Len(buffered[w]) = 0
      BY <1>3 DEF Init, None
    <2> QED BY <1>3, <2>1 DEF DeliveryOK, VerdictOK, TakenAt
  <1> QED BY <1>8, <1>9 DEF KafkaTypes

(* What a worker keeps stays in the log while the log and the generation grow. *)
LEMMA KeepsTyped ==
  ASSUME KafkaTypes, NEW v \in Worker,
         pc'[v] = pc[v], current'[v] = current[v], buffered'[v] = buffered[v],
         verdict'[v] = verdict[v], joined'[v] = joined[v], position'[v] = position[v],
         generation' \in Nat, generation' >= generation,
         Len(log') \in Nat, Len(log') >= Len(log), \A o \in Offset : log'[o] = log[o]
  PROVE  DeliveryOK(v)' /\ VerdictOK(v)'
  <1>1. TypeOK /\ DeliveryOK(v) /\ VerdictOK(v)
    BY DEF KafkaTypes
  <1>2. /\ current[v].generation \in Nat /\ generation \in Nat /\ Len(log) \in Nat
        /\ \A i \in 1..Len(buffered[v]) : buffered[v][i].generation \in Nat
    <2>1. generation \in Nat /\ Len(log) \in Nat
      BY <1>1 DEF TypeOK
    <2> QED BY <1>1, <2>1, DeliveriesTyped
  <1>3. Offset \subseteq Offset'
    BY <1>2 DEF Offset
  <1>4. DeliveryOK(v)'
    BY <1>1, <1>2, <1>3 DEF DeliveryOK
  <1>5. VerdictOK(v)'
    BY <1>1, <1>3 DEF VerdictOK, Attempt
  <1> QED BY <1>4, <1>5

LEMMA EndTyped ==
  ASSUME KafkaTypes, NEW w \in Worker, End(w), generation' = generation
  PROVE  /\ pc' \in [Worker -> {"loop", "assign", "choose", "recv", "received", "start",
                               "handling", "settle", "send", "commit", "ended"}]
         /\ control' \in [Worker -> {"running", "paused", "draining"}]
         /\ current' \in [Worker -> Delivery]
         /\ verdict' \in [Worker -> {"none", "completed", "retry", "dead"}]
         /\ buffered' \in [Worker -> Seq(Delivery)]
         /\ DeliveryOK(w)' /\ VerdictOK(w)'
         /\ pc'[w] = "ended" /\ current'[w] = None /\ buffered'[w] = <<>>
         /\ \A v \in Worker \ {w} : /\ pc'[v] = pc[v] /\ current'[v] = current[v]
                                    /\ verdict'[v] = verdict[v] /\ buffered'[v] = buffered[v]
  <1>1. None \in Delivery /\ TypeOK
    BY DEF None, Delivery, KafkaTypes
  <1>2. /\ pc'[w] = "ended" /\ current'[w] = None /\ verdict'[w] = "none" /\ buffered'[w] = <<>>
    BY <1>1 DEF End, Goto, TypeOK
  <1>3. DeliveryOK(w)'
    BY <1>1, <1>2 DEF DeliveryOK, TakenAt, None, TypeOK
  <1>4. VerdictOK(w)'
    BY <1>2 DEF VerdictOK
  <1> QED BY <1>1, <1>2, <1>3, <1>4 DEF End, Goto, TypeOK

(* What Apply does to the log. *)
LEMMA ApplyTyped ==
  ASSUME KafkaTypes, NEW w \in Worker, pc[w] = "commit", Apply(w)
  PROVE  /\ log' \in Seq([job : Job, attempts : 0..(MaxAttempts - 1)])
         /\ Len(log') \in Nat /\ Len(log') >= Len(log) /\ \A o \in Offset : log'[o] = log[o]
         /\ committed' = current[w].offset + 1 /\ committed' \in 1..(Len(log') + 1)
         /\ dead' \in [Job -> Nat] /\ settled' \in [1..Len(log') -> Nat]
         /\ sent' \in [Worker -> BOOLEAN]
         /\ sent'[w] = FALSE /\ \A v \in Worker \ {w} : sent'[v] = sent[v]
         /\ \A i \in 1..Len(log') : settled'[i] =
              IF i = current[w].offset THEN settled[i] + 1 ELSE IF i <= Len(log) THEN settled[i] ELSE 0
  <1> DEFINE o == current[w].offset
             Rec == [job : Job, attempts : 0..(MaxAttempts - 1)]
             r == [job |-> log[o].job, attempts |-> Attempt(w)]
  <1>1. TypeOK /\ DeliveryOK(w) /\ VerdictOK(w)
    BY DEF KafkaTypes
  <1>2. o \in 1..Len(log) /\ Len(log) \in Nat /\ log \in Seq(Rec)
    BY <1>1 DEF DeliveryOK, TakenAt, Offset, TypeOK
  <1> HIDE DEF Rec
  <1>3. log[o] \in Rec
    BY <1>2
  <1> USE DEF Rec
  <1>4. log[o].job \in Job /\ log[o].attempts \in Nat
    BY <1>3
  <1>5. log' \in Seq(Rec) /\ Len(log') \in Nat /\ Len(log') >= Len(log) /\ \A i \in Offset : log'[i] = log[i]
    <2>1. CASE verdict[w] = "retry"
      <3>1. Attempt(w) \in 0..(MaxAttempts - 1)
        BY <1>1, <1>4, <2>1, KafkaAssumption DEF VerdictOK, Attempt
      <3>2. r \in Rec
        BY <1>4, <3>1
      <3>3. log' = Append(log, r)
        BY <2>1 DEF Apply
      <3> HIDE DEF r, Rec
      <3> QED BY <1>2, <3>2, <3>3 DEF Offset
    <2>2. CASE verdict[w] # "retry"
      <3>1. log' = log
        BY <2>2 DEF Apply
      <3> QED BY <1>2, <3>1
    <2> QED BY <2>1, <2>2
  <1>6. settled' = [i \in 1..Len(log') |-> IF i = o THEN settled[o] + 1
                       ELSE IF i <= Len(log) THEN settled[i] ELSE 0]
    BY DEF Apply
  <1>7. settled \in [1..Len(log) -> Nat] /\ dead \in [Job -> Nat] /\ sent \in [Worker -> BOOLEAN]
    BY <1>1 DEF TypeOK
  <1>8. settled' \in [1..Len(log') -> Nat]
    <2> DEFINE new(i) == IF i = o THEN settled[o] + 1
                         ELSE IF i <= Len(log) THEN settled[i] ELSE 0
    <2>1. ASSUME NEW i \in 1..Len(log') PROVE new(i) \in Nat
      <3>1. CASE i <= Len(log)
        <4>1. i \in 1..Len(log)
          BY <1>2, <1>5, <3>1
        <4>2. settled[i] \in Nat /\ settled[o] \in Nat
          BY <1>2, <1>7, <4>1
        <4> QED BY <4>2
      <3>2. CASE ~(i <= Len(log))
        BY <1>2, <3>2
      <3> QED BY <3>1, <3>2
    <2>2. settled' = [i \in 1..Len(log') |-> new(i)]
      BY <1>6
    <2> HIDE DEF new
    <2> QED BY <2>1, <2>2
  <1>9. dead' \in [Job -> Nat]
    <2>1. dead' = [dead EXCEPT ![log[o].job] = IF verdict[w] = "dead" THEN @ + 1 ELSE @]
      BY DEF Apply
    <2> QED BY <1>4, <1>7, <2>1
  <1>10. sent' = [sent EXCEPT ![w] = FALSE] /\ committed' = o + 1
    BY DEF Apply
  <1>11. committed' \in 1..(Len(log') + 1)
    <2>1. o \in Nat /\ 1 <= o /\ o <= Len(log')
      BY <1>2, <1>5
    <2>2. committed' = o + 1 /\ Len(log') \in Nat
      BY <1>5, <1>10
    <2> QED BY <2>1, <2>2
  <1> QED BY <1>5, <1>6, <1>7, <1>8, <1>9, <1>10, <1>11

\* TypeOK in four parts, for the steps that disturb several of them.
TypedLog ==
  /\ log \in Seq([job : Job, attempts : 0..(MaxAttempts - 1)])
  /\ committed \in 1..(Len(log) + 1) /\ dead \in [Job -> Nat]
  /\ settled \in [1..Len(log) -> Nat]
TypedGroup ==
  /\ owner \in Worker \cup {Nobody} /\ generation \in Nat
  /\ joined \in [Worker -> 0..generation] /\ epoch \in [Worker -> Nat]
  /\ position \in [Worker -> 1..(Len(log) + 1)] /\ halted \in [Worker -> BOOLEAN]
TypedLoop ==
  /\ control \in [Worker -> {"running", "paused", "draining"}]
  /\ pc \in [Worker -> {"loop", "assign", "choose", "recv", "received", "start",
                        "handling", "settle", "send", "commit", "ended"}]
  /\ current \in [Worker -> Delivery]
  /\ verdict \in [Worker -> {"none", "completed", "retry", "dead"}]
  /\ buffered \in [Worker -> Seq(Delivery)]
TypedRest ==
  /\ sent \in [Worker -> BOOLEAN] /\ healthy \in [Worker -> BOOLEAN] /\ overtaken \in BOOLEAN
  /\ signals \in Nat /\ evictions \in Nat /\ failures \in Nat /\ reruns \in Nat

LEMMA TypeOKParts ==
  /\ TypeOK => TypedLog /\ TypedGroup /\ TypedLoop /\ TypedRest
  /\ TypedLog' /\ TypedGroup' /\ TypedLoop' /\ TypedRest' => TypeOK'
BY DEF TypeOK, TypedLog, TypedGroup, TypedLoop, TypedRest

LEMMA TypeOKStep == KafkaTypes /\ Next => TypeOK'
  <1> SUFFICES ASSUME KafkaTypes, Next PROVE TypeOK'
    OBVIOUS
  <1> USE KafkaAssumption
  <1>0. /\ TypeOK /\ None \in Delivery
        /\ \A w \in Worker : DeliveryOK(w) /\ VerdictOK(w)
    BY DEF KafkaTypes, None, Delivery
  <1>t. TypedLog /\ TypedGroup /\ TypedLoop /\ TypedRest
    BY <1>0, TypeOKParts
  <1>1. CASE Evict
    <2>p. TypedLog'
      BY <1>1, <1>t DEF TypedLog, Evict, broker, client, handle
    <2>q. TypedGroup'
      BY <1>1, <1>t DEF TypedGroup, TypedLog, Evict, broker, client, handle
    <2>r. TypedLoop'
      BY <1>1, <1>t DEF TypedLoop, Evict, broker, client, handle
    <2>s. TypedRest'
      BY <1>1, <1>t DEF TypedRest, Evict, broker, client, handle
    <2> QED BY <2>p, <2>q, <2>r, <2>s, TypeOKParts
  <1>2. ASSUME NEW w \in Worker, Lost(w) PROVE TypeOK'
    <2>1. joined' \in [Worker -> 0..generation'] /\ epoch' \in [Worker -> Nat]
      BY <1>2, <1>t DEF TypedGroup, Lost, group
    <2> QED BY <1>0, <1>2, <2>1 DEF TypeOK, Lost, broker, group, handle, bounds
  <1>3. ASSUME NEW w \in Worker, Assigned(w) PROVE TypeOK'
    <2>p. TypedLog'
      BY <1>3, <1>t DEF TypedLog, Assigned, broker, handle, bounds
    <2>q. TypedGroup'
      <3>1. generation' = generation + 1 /\ 0..generation \subseteq 0..generation'
            /\ generation + 1 \in 0..generation'
        BY <1>3, <1>t DEF TypedGroup, Assigned
      <3>2. joined' \in [Worker -> 0..generation']
        BY <1>3, <1>t, <3>1 DEF TypedGroup, Assigned
      <3>3. position' \in [Worker -> 1..(Len(log') + 1)]
        BY <1>3, <1>t DEF TypedGroup, TypedLog, Assigned, broker
      <3> QED BY <1>3, <1>t, <3>1, <3>2, <3>3 DEF TypedGroup, Assigned
    <2>r. TypedLoop'
      BY <1>3, <1>t DEF TypedLoop, Assigned, broker, handle, bounds
    <2>s. TypedRest'
      BY <1>3, <1>t DEF TypedRest, Assigned, broker, handle, bounds
    <2> QED BY <2>p, <2>q, <2>r, <2>s, TypeOKParts
  <1>4. ASSUME NEW w \in Worker, NEW s \in {"running", "paused", "draining"}, Signal(w, s) PROVE TypeOK'
    <2>p. TypedLog'
      BY <1>4, <1>t DEF TypedLog, Signal, broker, group, client, handle
    <2>q. TypedGroup'
      BY <1>4, <1>t DEF TypedGroup, TypedLog, Signal, broker, group, client, handle
    <2>r. TypedLoop'
      BY <1>4, <1>t DEF TypedLoop, Signal, broker, group, client, handle
    <2>s. TypedRest'
      BY <1>4, <1>t DEF TypedRest, Signal, broker, group, client, handle
    <2> QED BY <2>p, <2>q, <2>r, <2>s, TypeOKParts
  <1>5. ASSUME NEW w \in Worker, Loop(w) \/ Start(w) \/ Settle(w) \/ Abandon(w) \/ Fail(w) PROVE TypeOK'
    <2>1. CASE End(w)
      <3>1. generation' = generation
        BY <1>5 DEF Loop, Start, Settle, Checked, Abandon, Fail, group
      <3>2. failures' \in Nat
        <4>1. failures \in Nat
          BY <1>0 DEF TypeOK
        <4>2. failures' = failures \/ failures' = failures + 1
          BY <1>5 DEF Loop, Start, Settle, Checked, Abandon, Fail, bounds
        <4> QED BY <4>1, <4>2
      <3> QED BY <1>0, <1>5, <2>1, <3>1, <3>2, EndTyped
              DEF TypeOK, Loop, Start, Settle, Checked, Abandon, Fail, broker, group, client, handle, bounds
    <2>2. CASE ~End(w)
      BY <1>0, <1>5, <2>2
         DEF TypeOK, Loop, Start, Settle, Checked, Abandon, Fail, Goto, broker, group, client, handle, bounds
    <2> QED BY <2>1, <2>2
  <1>6. ASSUME NEW w \in Worker, Assign(w) PROVE TypeOK'
    BY <1>0, <1>6 DEF TypeOK, Assign, Goto, broker, group, handle, bounds
  <1>7. ASSUME NEW w \in Worker, ChooseBuffered(w) PROVE TypeOK'
    <2>1. Head(buffered[w]) \in Delivery /\ Tail(buffered[w]) \in Seq(Delivery)
      <3>1. buffered[w] \in Seq(Delivery) /\ buffered[w] # <<>>
        BY <1>0, <1>7 DEF TypeOK, ChooseBuffered
      <3> QED BY <3>1
    <2> QED BY <1>0, <1>7, <2>1 DEF TypeOK, ChooseBuffered, Goto, broker, group, client, handle, bounds
  <1>8. ASSUME NEW w \in Worker, ChooseRecv(w) \/ RecvNothing(w) PROVE TypeOK'
    BY <1>0, <1>8 DEF TypeOK, ChooseRecv, RecvNothing, Goto, broker, group, client, handle, bounds
  <1>9. ASSUME NEW w \in Worker, Recv(w) PROVE TypeOK'
    <2>1. [offset |-> position[w], generation |-> joined[w], epoch |-> epoch[w]] \in Delivery
      BY <1>0 DEF TypeOK, Delivery
    <2>2. position[w] + 1 \in 1..(Len(log) + 1)
      <3>1. position[w] \in 1..(Len(log) + 1) /\ Len(log) \in Nat
        BY <1>0 DEF TypeOK
      <3>2. position[w] <= Len(log)
        BY <1>9 DEF Recv
      <3> QED BY <3>1, <3>2
    <2> QED BY <1>0, <1>9, <2>1, <2>2 DEF TypeOK, Recv, Goto, broker, group, handle, bounds
  <1>10. ASSUME NEW w \in Worker, KeepAside(w) PROVE TypeOK'
    <2>1. CASE End(w)
      <3>1. generation' = generation
        BY <1>10 DEF KeepAside, group
      <3> QED BY <1>0, <1>10, <2>1, <3>1, EndTyped
              DEF TypeOK, KeepAside, broker, group, client, handle, bounds
    <2>2. CASE ~End(w)
      <3>1. buffered' = [buffered EXCEPT ![w] = Append(@, current[w])]
            /\ current' = [current EXCEPT ![w] = None] /\ pc' = [pc EXCEPT ![w] = "loop"]
            /\ UNCHANGED <<control, verdict>>
        BY <1>10, <2>2 DEF KeepAside, Goto
      <3>2. Append(buffered[w], current[w]) \in Seq(Delivery)
        BY <1>0 DEF TypeOK
      <3>3. buffered' \in [Worker -> Seq(Delivery)] /\ current' \in [Worker -> Delivery]
        BY <1>0, <3>1, <3>2 DEF TypeOK
      <3> QED BY <1>0, <1>10, <3>1, <3>3
              DEF TypeOK, KeepAside, broker, group, client, handle, bounds
    <2> QED BY <2>1, <2>2
  <1>11. ASSUME NEW w \in Worker, TakeReceived(w) PROVE TypeOK'
    BY <1>0, <1>11 DEF TypeOK, TakeReceived, Goto, group, client, handle, bounds
  <1>12. ASSUME NEW w \in Worker, NEW ok \in BOOLEAN, Handle(w, ok) PROVE TypeOK'
    BY <1>0, <1>12 DEF TypeOK, Handle, Verdict, Goto, broker, group, client, handle, bounds
  <1>13. ASSUME NEW w \in Worker, SendOffsets(w) PROVE TypeOK'
    <2>1. CASE End(w)
      <3>1. generation' = generation
        BY <1>13 DEF SendOffsets, group
      <3>2. TypedLog' /\ TypedGroup'
        BY <1>13, <1>t DEF TypedLog, TypedGroup, SendOffsets, broker, group, client, bounds
      <3>3. TypedLoop'
        BY <2>1, <3>1, EndTyped DEF TypedLoop
      <3>4. TypedRest'
        BY <1>13, <1>t DEF TypedRest, SendOffsets, broker, bounds
      <3> QED BY <3>2, <3>3, <3>4, TypeOKParts
    <2>2. CASE ~End(w)
      BY <1>0, <1>13, <2>2 DEF TypeOK, SendOffsets, Goto, broker, group, client, bounds
    <2> QED BY <2>1, <2>2
  <1>14. ASSUME NEW w \in Worker, Commit(w) PROVE TypeOK'
    <2>1. pc[w] = "commit" /\ Apply(w)
      BY <1>14 DEF Commit
    <2>2. position' \in [Worker -> 1..(Len(log') + 1)]
      <3>1. position' = position /\ Len(log) \in Nat /\ Len(log') \in Nat /\ Len(log') >= Len(log)
        <4>1. position' = position
          BY <1>14 DEF Commit, client
        <4>2. Len(log) \in Nat
          BY <1>0 DEF TypeOK
        <4>3. Len(log') \in Nat /\ Len(log') >= Len(log)
          BY <2>1, ApplyTyped
        <4> QED BY <4>1, <4>2, <4>3
      <3>2. 1..(Len(log) + 1) \subseteq 1..(Len(log') + 1)
        BY <3>1
      <3> QED BY <1>0, <3>1, <3>2 DEF TypeOK
    <2> QED BY <1>0, <1>14, <2>1, <2>2, ApplyTyped
            DEF TypeOK, Commit, Apply, Goto, group, client, bounds
  <1>15. ASSUME NEW w \in Worker, CommitUncertain(w) PROVE TypeOK'
    <2>1. pc[w] = "commit" /\ Apply(w) /\ End(w) /\ generation' = generation
      BY <1>15 DEF CommitUncertain, group
    <2>2. position' \in [Worker -> 1..(Len(log') + 1)]
      <3>1. position' = position /\ Len(log) \in Nat /\ Len(log') \in Nat /\ Len(log') >= Len(log)
        <4>1. position' = position
          BY <1>15 DEF CommitUncertain, client
        <4>2. Len(log) \in Nat
          BY <1>0 DEF TypeOK
        <4>3. Len(log') \in Nat /\ Len(log') >= Len(log)
          BY <2>1, ApplyTyped
        <4> QED BY <4>1, <4>2, <4>3
      <3>2. 1..(Len(log) + 1) \subseteq 1..(Len(log') + 1)
        BY <3>1
      <3> QED BY <1>0, <3>1, <3>2 DEF TypeOK
    <2>3. overtaken' = overtaken
      BY <2>1 DEF Apply
    <2>4. /\ failures' \in Nat /\ evictions' \in Nat /\ signals' \in Nat /\ reruns' \in Nat
          /\ joined' \in [Worker -> 0..generation'] /\ epoch' \in [Worker -> Nat]
          /\ halted' \in [Worker -> BOOLEAN] /\ healthy' \in [Worker -> BOOLEAN]
          /\ owner' \in Worker \cup {Nobody} /\ generation' \in Nat
      BY <1>0, <1>15 DEF TypeOK, CommitUncertain, group, client
    <2> QED BY <2>1, <2>2, <2>3, <2>4, <1>0, ApplyTyped, EndTyped DEF TypeOK
  <1>16. ASSUME NEW w \in Worker, Aborted(w) PROVE TypeOK'
    BY <1>0, <1>16 DEF TypeOK, Aborted, broker, group, client, bounds
  <1>17. ASSUME NEW w \in Worker, Restart(w) PROVE TypeOK'
    <2>p. TypedLog'
      BY <1>0, <1>17, <1>t DEF TypedLog, Restart, Goto, broker, bounds
    <2>q. TypedGroup'
      BY <1>0, <1>17, <1>t DEF TypedGroup, TypedLog, Restart, Goto, broker, bounds
    <2>r. TypedLoop'
      BY <1>0, <1>17, <1>t DEF TypedLoop, Restart, Goto, broker, bounds
    <2>s. TypedRest'
      BY <1>0, <1>17, <1>t DEF TypedRest, Restart, Goto, broker, bounds
    <2> QED BY <2>p, <2>q, <2>r, <2>s, TypeOKParts
  <1>18. ASSUME NEW w \in Worker, Rerun(w) PROVE TypeOK'
    <2>p. TypedLog'
      BY <1>18, <1>t DEF TypedLog, Rerun, Goto, broker, group, client, handle
    <2>q. TypedGroup'
      BY <1>18, <1>t DEF TypedGroup, TypedLog, Rerun, Goto, broker, group, client, handle
    <2>r. TypedLoop'
      BY <1>18, <1>t DEF TypedLoop, Rerun, Goto, broker, group, client, handle
    <2>s. TypedRest'
      BY <1>18, <1>t DEF TypedRest, Rerun, Goto, broker, group, client, handle
    <2> QED BY <2>p, <2>q, <2>r, <2>s, TypeOKParts
  <1> QED BY <1>1, <1>2, <1>3, <1>4, <1>5, <1>6, <1>7, <1>8, <1>9, <1>10, <1>11, <1>12, <1>13,
             <1>14, <1>15, <1>16, <1>17, <1>18 DEF Next, Step

(* What a worker's deliveries and verdict say stays true, whoever acts. *)
LEMMA DeliveriesStep == KafkaTypes /\ Next => \A v \in Worker : DeliveryOK(v)' /\ VerdictOK(v)'
  <1> SUFFICES ASSUME KafkaTypes, Next, NEW v \in Worker PROVE DeliveryOK(v)' /\ VerdictOK(v)'
    OBVIOUS
  <1> DEFINE Goal == DeliveryOK(v)' /\ VerdictOK(v)'
  <1>0. /\ TypeOK /\ DeliveryOK(v) /\ VerdictOK(v) /\ None \in Delivery
        /\ generation \in Nat /\ Len(log) \in Nat /\ Offset = 1..Len(log)
    <2>1. TypeOK /\ DeliveryOK(v) /\ VerdictOK(v)
      BY DEF KafkaTypes
    <2>2. generation \in Nat /\ Len(log) \in Nat
      BY <2>1 DEF TypeOK
    <2> QED BY <2>1, <2>2 DEF None, Delivery, Offset
  <1>t. /\ current[v].offset \in Nat /\ current[v].generation \in Nat
        /\ Len(buffered[v]) \in Nat
        /\ \A i \in 1..Len(buffered[v]) :
              buffered[v][i].offset \in Nat /\ buffered[v][i].generation \in Nat
    BY <1>0, DeliveriesTyped
  \* The worker's place stays, or moves between places that promise the same.
  <1>a. ASSUME current'[v] = current[v], buffered'[v] = buffered[v], verdict'[v] = verdict[v],
               joined'[v] = joined[v], position'[v] = position[v], log' = log,
               generation' = generation,
               \/ pc'[v] \in TakenAt /\ pc[v] \in TakenAt \cup {"received"}
               \/ pc'[v] \notin TakenAt \cup {"received"},
               \/ pc'[v] \in {"settle", "send", "commit"}
               \/ pc[v] \notin {"settle", "send", "commit"}
        PROVE  Goal
    <2>1. Offset' = Offset
      BY <1>a DEF Offset
    <2>2. DeliveryOK(v)'
      BY <1>0, <1>a, <2>1 DEF DeliveryOK, TakenAt
    <2>3. VerdictOK(v)'
      BY <1>0, <1>a, <2>1 DEF VerdictOK, Attempt
    <2> QED BY <2>2, <2>3
  <1>b. ASSUME pc'[v] = pc[v], current'[v] = current[v], buffered'[v] = buffered[v],
               verdict'[v] = verdict[v], joined'[v] = joined[v], position'[v] = position[v],
               log' = log, generation' \in Nat, generation' >= generation
        PROVE  Goal
    BY <1>0, <1>b, KeepsTyped
  <1> HIDE DEF Goal
  <1>1. ASSUME Evict PROVE Goal
    <2>1. /\ log' = log /\ generation' = generation + 1 /\ joined' = joined /\ position' = position
          /\ current' = current /\ buffered' = buffered /\ verdict' = verdict /\ pc' = pc
      BY <1>1 DEF Evict, broker, client
    <2>2. generation' \in Nat /\ generation' >= generation
      BY <1>0, <2>1
    <2> QED BY <1>b, <2>1, <2>2
  <1>2. ASSUME NEW w \in Worker, Lost(w) PROVE Goal
    <2>1. CASE v = w
      <3>1. DeliveryOK(v)' /\ VerdictOK(v)'
        BY <1>0, <1>2, <2>1 DEF Lost, DeliveryOK, VerdictOK, Attempt, Offset, TakenAt, TypeOK, broker, group, handle
      <3> QED BY <3>1 DEF Goal
    <2>2. CASE v # w
      BY <1>0, <1>2, <1>b, <2>2 DEF Lost, TypeOK, broker, group, handle
    <2> QED BY <2>1, <2>2
  <1>3. ASSUME NEW w \in Worker, Assigned(w) PROVE Goal
    <2>1. CASE v = w
      <3>0. /\ pc'[v] = "recv" /\ current' = current /\ buffered' = buffered /\ verdict' = verdict
            /\ pc[v] = "recv" /\ log' = log /\ generation' = generation + 1 /\ Offset' = Offset
        BY <1>3, <2>1 DEF Assigned, broker, Offset
      <3>1. DeliveryOK(v)'
        BY <1>0, <1>t, <3>0 DEF DeliveryOK, TakenAt
      <3>2. VerdictOK(v)'
        BY <1>0, <3>0 DEF VerdictOK
      <3> QED BY <3>1, <3>2 DEF Goal
    <2>2. CASE v # w
      BY <1>0, <1>3, <1>b, <2>2 DEF Assigned, TypeOK, broker, handle
    <2> QED BY <2>1, <2>2
  <1>4. ASSUME NEW w \in Worker, NEW s \in {"running", "paused", "draining"}, Signal(w, s) PROVE Goal
    BY <1>0, <1>4, <1>b DEF Signal, broker, group, client, handle
  <1>5. ASSUME NEW w \in Worker,
               \/ Loop(w) \/ Start(w) \/ Settle(w) \/ Abandon(w) \/ Fail(w) \/ KeepAside(w)
               \/ SendOffsets(w),
               End(w)
        PROVE  Goal
    <2>1. /\ generation' = generation /\ log' = log /\ joined' = joined /\ position' = position
      BY <1>5 DEF Loop, Start, Settle, Checked, Abandon, Fail, KeepAside, SendOffsets, group, broker, client
    <2>2. CASE v = w
      BY <1>5, <2>1, <2>2, EndTyped DEF Goal
    <2>3. CASE v # w
      BY <1>0, <1>5, <1>b, <2>1, <2>3, EndTyped
    <2> QED BY <2>2, <2>3
  <1>6. ASSUME NEW w \in Worker, Loop(w) \/ Start(w) \/ Settle(w), ~End(w) PROVE Goal
    <2>1. /\ generation' = generation /\ log' = log /\ joined' = joined /\ position' = position
          /\ current' = current /\ verdict' = verdict /\ buffered' = buffered
      BY <1>6 DEF Loop, Start, Settle, Checked, group, broker, client
    <2>2. \/ pc[w] = "loop" /\ pc' = [pc EXCEPT ![w] = "assign"]
          \/ pc[w] = "start" /\ pc' = [pc EXCEPT ![w] = "handling"]
          \/ pc[w] = "settle" /\ pc' = [pc EXCEPT ![w] = "send"]
      BY <1>6 DEF Loop, Start, Settle, Checked, Goto
    <2>3. CASE v = w
      BY <1>0, <1>a, <2>1, <2>2, <2>3 DEF TakenAt, TypeOK
    <2>4. CASE v # w
      <3>1. pc'[v] = pc[v]
        BY <1>0, <2>2, <2>4 DEF TypeOK
      <3>2. generation' \in Nat /\ generation' >= generation
        BY <1>0, <2>1 DEF TypeOK
      <3>3. /\ current'[v] = current[v] /\ verdict'[v] = verdict[v]
            /\ buffered'[v] = buffered[v] /\ log' = log
            /\ joined'[v] = joined[v] /\ position'[v] = position[v]
        BY <2>1
      <3> QED BY <1>b, <2>4, <3>1, <3>2, <3>3
    <2> QED BY <2>3, <2>4
  <1>7. ASSUME NEW w \in Worker, Assign(w) \/ ChooseRecv(w) \/ RecvNothing(w) \/ TakeReceived(w) PROVE Goal
    <2>1. /\ generation' = generation /\ log' = log /\ joined' = joined /\ position' = position
          /\ current' = current /\ verdict' = verdict /\ buffered' = buffered
      BY <1>7 DEF Assign, ChooseRecv, RecvNothing, TakeReceived, group, broker, client
    <2>2. \/ pc[w] = "assign" /\ pc' = [pc EXCEPT ![w] = "choose"]
          \/ pc[w] = "choose" /\ pc' = [pc EXCEPT ![w] = "recv"]
          \/ pc[w] = "recv" /\ pc' = [pc EXCEPT ![w] = "loop"]
          \/ pc[w] = "received" /\ pc' = [pc EXCEPT ![w] = "start"]
      BY <1>7 DEF Assign, ChooseRecv, RecvNothing, TakeReceived, Goto
    <2>3. CASE v = w
      BY <1>0, <1>a, <2>1, <2>2, <2>3 DEF TakenAt, TypeOK
    <2>4. CASE v # w
      <3>1. pc'[v] = pc[v]
        BY <1>0, <2>2, <2>4 DEF TypeOK
      <3>2. generation' \in Nat /\ generation' >= generation
        BY <1>0, <2>1 DEF TypeOK
      <3>3. /\ current'[v] = current[v] /\ verdict'[v] = verdict[v]
            /\ buffered'[v] = buffered[v] /\ log' = log
            /\ joined'[v] = joined[v] /\ position'[v] = position[v]
        BY <2>1
      <3> QED BY <1>b, <2>4, <3>1, <3>2, <3>3
    <2> QED BY <2>3, <2>4
  <1>8. ASSUME NEW w \in Worker, ChooseBuffered(w) PROVE Goal
    <2>1. /\ generation' = generation /\ log' = log /\ joined' = joined /\ position' = position
          /\ verdict' = verdict /\ current' = [current EXCEPT ![w] = Head(buffered[w])]
          /\ buffered' = [buffered EXCEPT ![w] = Tail(@)] /\ pc' = [pc EXCEPT ![w] = "start"]
          /\ pc[w] = "choose" /\ buffered[w] # <<>>
      BY <1>8 DEF ChooseBuffered, Goto, group, broker, client
    <2>2. CASE v = w
      <3>1. /\ current'[v] = buffered[v][1] /\ buffered'[v] = Tail(buffered[v]) /\ pc'[v] = "start"
            /\ buffered[v] \in Seq(Delivery) /\ buffered[v] # <<>> /\ Offset' = Offset
        BY <1>0, <2>1, <2>2 DEF TypeOK, Offset
      <3>2. /\ 1 \in 1..Len(buffered[v]) /\ Len(Tail(buffered[v])) = Len(buffered[v]) - 1
            /\ \A i \in 1..Len(Tail(buffered[v])) :
                 Tail(buffered[v])[i] = buffered[v][i + 1] /\ i + 1 \in 1..Len(buffered[v])
        BY <3>1
      <3>3. DeliveryOK(v)'
        BY <1>0, <2>1, <3>1, <3>2 DEF DeliveryOK
      <3>4. VerdictOK(v)'
        BY <1>0, <2>1, <2>2, <3>1 DEF VerdictOK
      <3> QED BY <3>3, <3>4 DEF Goal
    <2>3. CASE v # w
      BY <1>0, <1>b, <2>1, <2>3 DEF TypeOK
    <2> QED BY <2>2, <2>3
  <1>9. ASSUME NEW w \in Worker, Recv(w) PROVE Goal
    <2>1. /\ generation' = generation /\ log' = log /\ joined' = joined
          /\ position' = [position EXCEPT ![w] = @ + 1]
          /\ verdict' = verdict /\ buffered' = buffered /\ pc' = [pc EXCEPT ![w] = "received"]
          /\ current' = [current EXCEPT ![w] =
               [offset |-> position[w], generation |-> joined[w], epoch |-> epoch[w]]]
          /\ pc[w] = "recv" /\ position[w] <= Len(log)
      BY <1>9 DEF Recv, Goto, group, broker
    <2>2. CASE v = w
      <3>1. /\ current'[v].offset = position[v] /\ current'[v].generation = joined[v]
            /\ position'[v] = position[v] + 1 /\ pc'[v] = "received" /\ buffered'[v] = buffered[v]
            /\ position[v] \in 1..Len(log) /\ joined[v] <= generation /\ joined'[v] = joined[v]
            /\ Offset' = Offset
        BY <1>0, <2>1, <2>2 DEF TypeOK, Offset
      <3>2. DeliveryOK(v)'
        BY <1>0, <2>1, <3>1 DEF DeliveryOK
      <3>3. VerdictOK(v)'
        BY <1>0, <2>1, <2>2, <3>1 DEF VerdictOK
      <3> QED BY <3>2, <3>3 DEF Goal
    <2>3. CASE v # w
      BY <1>0, <1>b, <2>1, <2>3 DEF TypeOK
    <2> QED BY <2>2, <2>3
  <1>10. ASSUME NEW w \in Worker, KeepAside(w), ~End(w) PROVE Goal
    <2>1. /\ generation' = generation /\ log' = log /\ joined' = joined /\ position' = position
          /\ verdict' = verdict /\ buffered' = [buffered EXCEPT ![w] = Append(@, current[w])]
          /\ pc' = [pc EXCEPT ![w] = "loop"] /\ current' = [current EXCEPT ![w] = None]
          /\ pc[w] = "received"
      BY <1>10 DEF KeepAside, Goto, group, broker, client
    <2>2. CASE v = w
      <3>1. /\ current'[v] = None /\ pc'[v] = "loop" /\ Offset' = Offset
            /\ buffered'[v] = Append(buffered[v], current[v])
            /\ buffered[v] \in Seq(Delivery) /\ current[v] \in Delivery
        BY <1>0, <2>1, <2>2 DEF TypeOK, Offset
      <3>2. /\ Len(buffered'[v]) = Len(buffered[v]) + 1
            /\ \A i \in 1..Len(buffered'[v]) :
                 buffered'[v][i] = IF i <= Len(buffered[v]) THEN buffered[v][i] ELSE current[v]
        BY <3>1
      <3>3. None.generation = 0
        BY DEF None
      <3>4. DeliveryOK(v)'
        BY <1>0, <1>t, <2>1, <2>2, <3>1, <3>2, <3>3 DEF DeliveryOK, TakenAt
      <3>5. VerdictOK(v)'
        BY <1>0, <2>1, <2>2, <3>1 DEF VerdictOK
      <3> QED BY <3>4, <3>5 DEF Goal
    <2>3. CASE v # w
      BY <1>0, <1>b, <2>1, <2>3 DEF TypeOK
    <2> QED BY <2>2, <2>3
  <1>11. ASSUME NEW w \in Worker, NEW ok \in BOOLEAN, Handle(w, ok) PROVE Goal
    <2>1. /\ generation' = generation /\ log' = log /\ joined' = joined /\ position' = position
          /\ current' = current /\ buffered' = buffered /\ pc' = [pc EXCEPT ![w] = "settle"]
          /\ verdict' = [verdict EXCEPT ![w] = Verdict(w, ok)] /\ pc[w] = "handling"
      BY <1>11 DEF Handle, Goto, group, broker, client
    <2>2. CASE v = w
      <3>1. pc'[v] = "settle" /\ verdict'[v] = Verdict(v, ok) /\ Offset' = Offset
        BY <1>0, <2>1, <2>2 DEF TypeOK, Offset
      <3>2. DeliveryOK(v)'
        BY <1>0, <2>1, <2>2, <3>1 DEF DeliveryOK, TakenAt
      <3>3. VerdictOK(v)'
        BY <1>0, <2>1, <2>2, <3>1 DEF VerdictOK, Verdict, DeliveryOK, TakenAt, Attempt
      <3> QED BY <3>2, <3>3 DEF Goal
    <2>3. CASE v # w
      BY <1>0, <1>b, <2>1, <2>3 DEF TypeOK
    <2> QED BY <2>2, <2>3
  <1>12. ASSUME NEW w \in Worker, SendOffsets(w), ~End(w) PROVE Goal
    <2>1. /\ generation' = generation /\ log' = log /\ joined' = joined /\ position' = position
          /\ current' = current /\ buffered' = buffered /\ verdict' = verdict
          /\ pc' = [pc EXCEPT ![w] = "commit"] /\ pc[w] = "send"
      BY <1>12 DEF SendOffsets, Goto, group, broker, client
    <2>2. CASE v = w
      BY <1>0, <1>a, <2>1, <2>2 DEF TakenAt, TypeOK
    <2>3. CASE v # w
      BY <1>0, <1>b, <2>1, <2>3 DEF TypeOK
    <2> QED BY <2>2, <2>3
  <1>13. ASSUME NEW w \in Worker, Commit(w) \/ CommitUncertain(w) PROVE Goal
    <2>1. /\ generation' = generation /\ joined' = joined /\ position' = position
          /\ pc[w] = "commit" /\ Apply(w)
      BY <1>13 DEF Commit, CommitUncertain, group, client
    <2>2. Len(log') \in Nat /\ Len(log') >= Len(log) /\ \A o \in Offset : log'[o] = log[o]
      BY <2>1, ApplyTyped
    <2>3. CASE End(w)
      <3>1. CASE v = w
        BY <2>1, <2>3, <3>1, EndTyped DEF Goal
      <3>2. CASE v # w
        BY <1>0, <2>1, <2>2, <2>3, <3>2, EndTyped, KeepsTyped DEF Goal
      <3> QED BY <3>1, <3>2
    <2>4. CASE ~End(w)
      <3>0. /\ pc' = [pc EXCEPT ![w] = "loop"] /\ current' = [current EXCEPT ![w] = None]
            /\ verdict' = [verdict EXCEPT ![w] = "none"] /\ buffered' = buffered
        BY <1>13, <2>4 DEF Commit, CommitUncertain, Goto
      <3>1. CASE v = w
        <4>1. pc'[v] = "loop" /\ current'[v] = None /\ verdict'[v] = "none" /\ None.generation = 0
          BY <1>0, <3>0, <3>1 DEF TypeOK, None
        <4>2. Offset \subseteq Offset'
          BY <1>0, <2>2 DEF Offset
        <4>3. DeliveryOK(v)'
          BY <1>0, <2>1, <3>0, <4>1, <4>2 DEF DeliveryOK, TakenAt
        <4>4. VerdictOK(v)'
          BY <4>1 DEF VerdictOK
        <4> QED BY <4>3, <4>4 DEF Goal
      <3>2. CASE v # w
        <4>1. /\ pc'[v] = pc[v] /\ current'[v] = current[v] /\ verdict'[v] = verdict[v]
              /\ buffered'[v] = buffered[v]
          BY <1>0, <3>0, <3>2 DEF TypeOK
        <4> QED BY <1>0, <2>1, <2>2, <4>1, KeepsTyped DEF Goal
      <3> QED BY <3>1, <3>2
    <2> QED BY <2>3, <2>4
  <1>14. ASSUME NEW w \in Worker, Aborted(w) PROVE Goal
    BY <1>0, <1>14, <1>b DEF Aborted, broker, group, client
  <1>15. ASSUME NEW w \in Worker, Restart(w) \/ Rerun(w) PROVE Goal
    <2>1. /\ generation' = generation /\ log' = log /\ position' = position
          /\ current' = current /\ buffered' = buffered /\ verdict' = verdict
          /\ pc' = [pc EXCEPT ![w] = "loop"] /\ pc[w] = "ended"
          /\ joined' = joined \/ joined' = [joined EXCEPT ![w] = 0]
      BY <1>15 DEF Restart, Rerun, Goto, group, broker, client
    <2>2. CASE v = w
      <3>1. pc'[v] = "loop" /\ pc[v] = "ended" /\ Offset' = Offset
        BY <1>0, <2>1, <2>2 DEF TypeOK, Offset
      <3>2. DeliveryOK(v)' /\ VerdictOK(v)'
        BY <1>0, <2>1, <3>1 DEF DeliveryOK, VerdictOK, TakenAt, Attempt
      <3> QED BY <3>2 DEF Goal
    <2>3. CASE v # w
      BY <1>0, <1>b, <2>1, <2>3 DEF TypeOK
    <2> QED BY <2>2, <2>3
  <1>16. ASSUME NEW w \in Worker, Step(w) PROVE Goal
    <2>1. ASSUME End(w) PROVE Goal
      BY <1>5, <1>7, <1>8, <1>9, <1>11, <1>13, <1>16, <2>1 DEF Step
    <2>2. ASSUME ~End(w) PROVE Goal
      BY <1>6, <1>7, <1>8, <1>9, <1>10, <1>11, <1>12, <1>13, <1>16, <2>2 DEF Step
    <2> QED BY <2>1, <2>2
  <1>17. ASSUME NEW w \in Worker, RecvNothing(w) \/ Abandon(w) \/ CommitUncertain(w) \/ Fail(w) PROVE Goal
    BY <1>5, <1>7, <1>13, <1>17 DEF Abandon, Fail
  <1>18. Goal
    <2>1. ASSUME NEW w \in Worker, Lost(w) \/ Assigned(w) \/ Aborted(w) \/ Restart(w) \/ Rerun(w) PROVE Goal
      BY <1>2, <1>3, <1>14, <1>15, <2>1
    <2> QED BY <1>1, <1>4, <1>16, <1>17, <2>1 DEF Next
  <1> QED BY <1>18 DEF Goal

LEMMA KafkaTypesStep == KafkaTypes /\ [Next]_vars => KafkaTypes'
  <1> SUFFICES ASSUME KafkaTypes, [Next]_vars PROVE KafkaTypes'
    OBVIOUS
  <1>1. CASE Next
    BY <1>1, TypeOKStep, DeliveriesStep DEF KafkaTypes
  <1>2. CASE UNCHANGED vars
    BY <1>2 DEF vars, broker, group, client, handle, bounds, KafkaTypes, TypeOK, DeliveryOK,
                VerdictOK, Offset, Attempt
  <1> QED BY <1>1, <1>2

(* The log, the group and every replica have their types: a record's attempts *)
(* stay below the policy's limit, and no offset leads out of the log.         *)
THEOREM KafkaTypeCorrect == Spec => []TypeOK
  <1>1. KafkaTypes => TypeOK
    BY DEF KafkaTypes
  <1> QED BY <1>1, KafkaTypesInit, KafkaTypesStep, PTL DEF Spec

-----------------------------------------------------------------------------
(* Order.  Ordered is what the proofs below start from. *)
Ordered == KafkaTypes /\ KafkaOrder

LEMMA OrderedFacts ==
  ASSUME Ordered, NEW w \in Worker
  PROVE  /\ TypeOK /\ DeliveryOK(w) /\ VerdictOK(w) /\ OwnerOK(w) /\ SentOK(w)
         /\ committed \in Nat /\ position[w] \in Nat /\ current[w].offset \in Nat
         /\ current[w].generation \in Nat /\ Len(buffered[w]) \in Nat
         /\ generation \in Nat /\ Len(log) \in Nat /\ joined[w] \in Nat
         /\ buffered[w] \in Seq(Delivery) /\ reruns \in Nat
  <1>1. TypeOK
    BY DEF Ordered, KafkaTypes
  <1>2. /\ committed \in Nat /\ position[w] \in Nat /\ generation \in Nat /\ Len(log) \in Nat
        /\ joined[w] \in Nat /\ buffered[w] \in Seq(Delivery)
    BY <1>1 DEF TypeOK
  <1>3. DeliveryOK(w) /\ VerdictOK(w) /\ OwnerOK(w) /\ SentOK(w)
    BY DEF Ordered, KafkaTypes, KafkaOrder, WorkerOK
  <1>4. reruns \in Nat
    <2>1. reruns \in Nat
      BY <1>1 DEF TypeOK
    <2> QED BY <2>1
  <1>5. current[w].offset \in Nat /\ current[w].generation \in Nat /\ Len(buffered[w]) \in Nat
    BY <1>1, DeliveriesTyped
  <1> QED BY <1>1, <1>2, <1>3, <1>4, <1>5

(* A worker that does not act keeps its place, whatever the others and the  *)
(* coordinator do.                                                          *)
LEMMA Elsewhere ==
  ASSUME Ordered, NEW v \in Worker,
         pc'[v] = pc[v], current'[v] = current[v], buffered'[v] = buffered[v],
         joined'[v] = joined[v], position'[v] = position[v],
         sent'[v] = sent[v], healthy'[v] = healthy[v],
         reruns' = 0 => reruns = 0,
         owner' = v => owner = v /\ generation' = generation /\ committed' = committed,
         sent[v] => owner' \in {v, Nobody},
         pc[v] = "commit" => committed' = committed
  PROVE  WorkerOK(v)'
  <1>1. OwnerOK(v) /\ SentOK(v)
    BY OrderedFacts
  <1>4. SentOK(v)'
    BY <1>1 DEF SentOK, IsNext
  <1>5. OwnerOK(v)'
    <2>1. SUFFICES ASSUME owner' = v PROVE OwnerOK(v)'
      BY DEF OwnerOK
    <2>2. owner = v /\ generation' = generation /\ committed' = committed
      BY <2>1
    <2>3. Serves(v)' = Serves(v) /\ Upcoming(v)' = Upcoming(v) /\ Fetched(v)' = Fetched(v)
      BY <2>2 DEF Serves, Upcoming, Fetched
    <2>4. InLine(v)'
      BY <1>1, <2>2, <2>3 DEF OwnerOK, InLine
    <2> QED BY <1>1, <2>2, <2>3, <2>4 DEF OwnerOK, IsNext
  <1> QED BY <1>4, <1>5 DEF WorkerOK

LEMMA OwnerBehind ==
  ASSUME Ordered, NEW w \in Worker, owner = w
  PROVE  /\ committed <= position[w]
         /\ Serves(w) => current[w].offset + 1 <= position[w]
  <1>1. OwnerOK(w) /\ DeliveryOK(w)
    BY OrderedFacts
  <1>2. /\ committed \in Nat /\ position[w] \in Nat /\ Len(buffered[w]) \in Nat
        /\ current[w].offset \in Nat
    BY OrderedFacts
  <1>3. PICK m \in 0..Len(buffered[w]) : Upcoming(w) + Len(buffered[w]) <= Fetched(w) + m
    BY <1>1 DEF OwnerOK, InLine
  <1>4. Upcoming(w) \in Nat /\ Fetched(w) \in Nat /\ Fetched(w) <= position[w]
    BY <1>1, <1>2 DEF DeliveryOK, Upcoming, Fetched
  <1>5. Upcoming(w) <= position[w]
    BY <1>2, <1>3, <1>4
  <1>6. CASE Serves(w)
    BY <1>1, <1>2, <1>5, <1>6 DEF OwnerOK, IsNext, Upcoming
  <1>7. CASE ~Serves(w)
    BY <1>1, <1>2, <1>5, <1>7 DEF Upcoming
  <1> QED BY <1>6, <1>7

(* run returned: the worker keeps nothing. *)
LEMMA EndOK ==
  ASSUME Ordered, NEW w \in Worker, End(w),
         joined'[w] = joined[w], position'[w] = position[w], owner' = owner,
         generation' = generation, committed' \in Nat,
         owner = w => committed' <= position[w],
         sent'[w] => ~healthy'[w] /\ owner \in {w, Nobody}
  PROVE  WorkerOK(w)'
  <1>1. KafkaTypes /\ OwnerOK(w) /\ position[w] \in Nat
    BY OrderedFacts DEF Ordered
  <1>2. /\ pc'[w] = "ended" /\ current'[w] = None /\ buffered'[w] = <<>>
    BY <1>1, EndTyped
  <1>4. SentOK(w)'
    BY <1>2 DEF SentOK
  <1>5. OwnerOK(w)'
    <2>1. SUFFICES ASSUME owner' = w PROVE OwnerOK(w)'
      BY DEF OwnerOK
    <2>2. Upcoming(w)' = committed' /\ Fetched(w)' = position[w] /\ ~Serves(w)'
      BY <1>2 DEF Upcoming, Fetched, Serves, TakenAt
    <2>3. Len(buffered'[w]) = 0 /\ committed' <= position[w]
      BY <1>2, <2>1
    <2>4. InLine(w)'
      BY <1>1, <1>2, <2>1, <2>2, <2>3 DEF InLine
    <2> QED BY <1>1, <2>1, <2>2, <2>4 DEF OwnerOK
  <1> QED BY <1>4, <1>5 DEF WorkerOK

-----------------------------------------------------------------------------
(* What most actions of a worker have in common: the log, the group and the *)
(* other workers stay as they are.                                          *)
Still(w) ==
  /\ \A v \in Worker \ {w} :
       /\ pc'[v] = pc[v] /\ current'[v] = current[v] /\ buffered'[v] = buffered[v]
       /\ position'[v] = position[v] /\ joined'[v] = joined[v]
       /\ sent'[v] = sent[v] /\ healthy'[v] = healthy[v]
  /\ UNCHANGED <<log, committed, settled, owner, generation, reruns>>

LEMMA StillOthers ==
  ASSUME Ordered, NEW w \in Worker, Still(w), NEW v \in Worker \ {w}
  PROVE  WorkerOK(v)'
  <1>1. SentOK(v)
    BY OrderedFacts
  <1> QED BY <1>1, Elsewhere DEF Still, SentOK

(* The worker goes from one place to the next, between two deliveries.      *)
LEMMA GoesOn ==
  ASSUME Ordered, NEW w \in Worker, Still(w),
         pc[w] \in {"loop", "assign", "choose", "recv"},
         pc'[w] \in {"loop", "assign", "choose", "recv"},
         buffered'[w] = buffered[w], position'[w] = position[w], joined'[w] = joined[w],
         sent'[w] = sent[w], healthy'[w] = healthy[w]
  PROVE  WorkerOK(w)'
  <1>1. OwnerOK(w) /\ SentOK(w)
    BY OrderedFacts
  <1>2. SentOK(w)'
    BY <1>1 DEF SentOK, Still
  <1>3. OwnerOK(w)'
    <2>1. SUFFICES ASSUME owner' = w PROVE OwnerOK(w)'
      BY DEF OwnerOK
    <2>2. ~Serves(w) /\ ~Serves(w)' /\ Upcoming(w)' = Upcoming(w) /\ Fetched(w)' = Fetched(w)
      BY DEF Serves, Upcoming, Fetched, TakenAt, Still
    <2>3. owner = w /\ generation' = generation /\ reruns' = reruns
      BY <2>1 DEF Still
    <2>4. InLine(w)'
      BY <1>1, <2>2, <2>3 DEF OwnerOK, InLine
    <2> QED BY <1>1, <2>2, <2>3, <2>4 DEF OwnerOK
  <1> QED BY <1>2, <1>3 DEF WorkerOK

(* The worker is at one delivery, and goes on with it.                      *)
LEMMA HandlesOn ==
  ASSUME Ordered, NEW w \in Worker, Still(w),
         pc[w] \in TakenAt, pc'[w] \in TakenAt,
         current'[w] = current[w], buffered'[w] = buffered[w],
         position'[w] = position[w], joined'[w] = joined[w],
         sent'[w] => ~healthy'[w] /\ owner \in {w, Nobody},
         pc'[w] = "commit" => sent'[w] /\ owner = w /\ current[w].generation = generation
  PROVE  WorkerOK(w)'
  <1>1. OwnerOK(w)
    BY OrderedFacts
  <1>2. owner = w /\ Serves(w) => IsNext(current[w].offset)' /\ IsNext(current[w].offset)
    BY <1>1 DEF OwnerOK, IsNext, Still
  <1>3. SentOK(w)'
    BY <1>2 DEF SentOK, Still, Serves
  <1>4. OwnerOK(w)'
    <2>1. SUFFICES ASSUME owner' = w PROVE OwnerOK(w)'
      BY DEF OwnerOK
    <2>2. Serves(w)' = Serves(w) /\ Upcoming(w)' = Upcoming(w) /\ Fetched(w)' = Fetched(w)
      BY DEF Serves, Upcoming, Fetched, TakenAt, Still
    <2>3. owner = w /\ generation' = generation /\ reruns' = reruns /\ committed' = committed
      BY <2>1 DEF Still
    <2>4. InLine(w)'
      BY <1>1, <2>2, <2>3 DEF OwnerOK, InLine, TakenAt
    <2> QED BY <1>1, <1>2, <2>2, <2>3, <2>4 DEF OwnerOK
  <1> QED BY <1>3, <1>4 DEF WorkerOK

LEMMA ChooseBufferedOK == ASSUME Ordered, NEW w \in Worker, ChooseBuffered(w) PROVE WorkerOK(w)'
  <1>1. /\ TypeOK /\ OwnerOK(w) /\ DeliveryOK(w) /\ SentOK(w) /\ buffered[w] \in Seq(Delivery)
        /\ committed \in Nat /\ position[w] \in Nat /\ Len(buffered[w]) \in Nat
    BY OrderedFacts
  <1>2. /\ pc[w] = "choose" /\ pc'[w] = "start" /\ buffered[w] # <<>>
        /\ current'[w] = Head(buffered[w]) /\ buffered'[w] = Tail(buffered[w])
        /\ position' = position /\ joined' = joined /\ sent' = sent /\ healthy' = healthy
        /\ owner' = owner /\ generation' = generation /\ committed' = committed /\ reruns' = reruns
    BY <1>1 DEF ChooseBuffered, Goto, TypeOK, broker, group, client, handle, bounds
  <1>3. /\ Len(buffered'[w]) = Len(buffered[w]) - 1 /\ Len(buffered[w]) >= 1
        /\ \A i \in 1..Len(buffered'[w]) : buffered'[w][i] = buffered[w][i + 1]
        /\ current'[w] = buffered[w][1]
    BY <1>1, <1>2
  <1>4. SentOK(w)'
    BY <1>1, <1>2 DEF SentOK
  <1>5. ASSUME owner' = w
        PROVE  InLine(w)' /\ (Serves(w)' => IsNext(current[w].offset)')
    <2> DEFINE n == Len(buffered[w])
    <2>1. PICK m \in 0..n :
            /\ \A i \in 1..n : (buffered[w][i].generation = generation) <=> (i > m)
            /\ \A i \in 1..n : i > m => buffered[w][i].offset + n + 1 = Fetched(w) + i
            /\ Upcoming(w) + n <= Fetched(w) + m
            /\ reruns = 0 /\ pc[w] # "ended" => Upcoming(w) + n = Fetched(w) + m
      BY <1>1, <1>2, <1>5 DEF OwnerOK, InLine
    <2>2. Upcoming(w) = committed /\ Fetched(w) = position[w] /\ Fetched(w)' = position[w]
      BY <1>2 DEF Upcoming, Fetched, Serves, TakenAt
    <2>t. /\ n \in Nat /\ m \in Nat /\ Upcoming(w) \in Nat /\ Fetched(w) \in Nat
          /\ Fetched(w)' \in Nat
      BY <1>1, <2>2
    <2>3. Serves(w)' <=> m = 0
      BY <1>2, <1>3, <2>1 DEF Serves, TakenAt
    <2>4. ASSUME m = 0 PROVE IsNext(current[w].offset)' /\ Upcoming(w)' = current'[w].offset + 1
                             /\ current'[w].offset + n = position[w]
      <3>1. current'[w].offset + n + 1 = position[w] + 1
        BY <1>3, <2>1, <2>2, <2>4
      <3>2. current'[w].offset \in Nat
        BY <1>1, <1>3, DeliveriesTyped
      <3>3. current'[w].offset + n = position[w]
        <4>1. position[w] \in Nat /\ n \in Nat
          BY <1>1
        <4>2. PICK x \in Nat : x = current'[w].offset
          BY <3>2
        <4>3. PICK y \in Nat : y = n
          BY <4>1
        <4>4. PICK z \in Nat : z = position[w]
          BY <4>1
        <4>5. x + y + 1 = z + 1
          BY <3>1, <4>2, <4>3, <4>4
        <4>6. x + y = z
          BY <4>5
        <4> QED BY <4>2, <4>3, <4>4, <4>6
      <3>4. committed <= current'[w].offset /\ (reruns = 0 => current'[w].offset = committed)
        BY <1>1, <1>2, <2>1, <2>2, <2>4, <3>2, <3>3
      <3> QED BY <1>2, <2>3, <2>4, <3>3, <3>4 DEF IsNext, Upcoming
    <2>5. ASSUME m # 0 PROVE Upcoming(w)' = committed
      BY <1>2, <2>3, <2>5 DEF Upcoming
    <2> DEFINE k == IF m = 0 THEN 0 ELSE m - 1
               r == n - 1
    <2>6. k \in 0..r /\ Len(buffered'[w]) = r /\ r \in Nat
      BY <1>1, <1>3
    <2>7. ASSUME NEW i \in 1..r
          PROVE  /\ (buffered'[w][i].generation = generation) <=> (i > k)
                 /\ i > k => buffered'[w][i].offset + r + 1 = Fetched(w)' + i
      <3>1. buffered'[w][i] = buffered[w][i + 1] /\ i + 1 \in 1..n
        BY <1>1, <1>3, <2>6
      <3>2. i > k <=> i + 1 > m
        BY <1>1, <2>6
      <3>3. buffered[w][i + 1].offset \in Nat
        BY <1>1, <3>1, DeliveriesTyped
      <3>4. /\ (buffered[w][i + 1].generation = generation) <=> (i + 1 > m)
            /\ i + 1 > m => buffered[w][i + 1].offset + n + 1 = Fetched(w) + (i + 1)
        BY <2>1, <3>1
      <3>5. r + 1 = n /\ Fetched(w)' = Fetched(w)
        BY <2>2, <2>t
      <3>6. /\ (buffered'[w][i].generation = generation) <=> (i > k)
            /\ i > k => buffered'[w][i].offset + n + 1 = Fetched(w) + (i + 1)
        BY <3>1, <3>2, <3>4
      <3>8. i \in Nat
        BY <2>6
      <3> HIDE DEF k, r, n
      <3>7. i > k => buffered'[w][i].offset + n = Fetched(w) + i
        BY <2>t, <3>1, <3>3, <3>6, <3>8
      <3>9. buffered'[w][i].offset \in Nat
        BY <3>1, <3>3
      <3>10. i > k => buffered'[w][i].offset + r + 1 = Fetched(w)' + i
        <4>1. r \in Nat
          BY <2>6
        <4>2. r + 1 = n
          BY <3>5
        <4>3. i > k => buffered'[w][i].offset + (r + 1) = Fetched(w)' + i
          BY <3>5, <3>7, <4>2
        <4>4. buffered'[w][i].offset + (r + 1) = buffered'[w][i].offset + r + 1
          BY <3>9, <4>1
        <4> QED BY <4>3, <4>4
      <3> QED BY <3>6, <3>10
    <2>8. Upcoming(w)' + r <= Fetched(w)' + k
          /\ (reruns = 0 /\ pc'[w] # "ended" => Upcoming(w)' + r = Fetched(w)' + k)
      <3>1. CASE m = 0
        <4>1. current'[w].offset \in Nat
          BY <1>1, <1>3, DeliveriesTyped
        <4>3. r = n - 1 /\ k = 0 /\ Upcoming(w)' = current'[w].offset + 1 /\ Fetched(w)' = position[w]
          BY <2>2, <2>4, <3>1
        <4>4. current'[w].offset + n = position[w]
          BY <2>4, <3>1
        <4> HIDE DEF n, r, k
        <4>2. Upcoming(w)' + r = position[w] /\ Fetched(w)' + k = position[w]
          <5>1. position[w] \in Nat /\ n \in Nat
            BY <1>1, <2>t
          <5>2. (current'[w].offset + 1) + (n - 1) = current'[w].offset + n
            BY <4>1, <5>1
          <5>3. Upcoming(w)' + r = position[w]
            BY <4>3, <4>4, <5>2
          <5>4. Fetched(w)' + k = position[w]
            BY <4>3, <5>1
          <5> QED BY <5>3, <5>4
        <4> QED BY <1>1, <4>2
      <3>2. CASE m # 0
        <4>1. Upcoming(w)' = Upcoming(w) /\ Fetched(w)' = Fetched(w) /\ pc[w] # "ended"
          BY <1>2, <2>2, <2>5, <3>2
        <4> HIDE DEF n
        <4>2. Upcoming(w) + (n - 1) <= Fetched(w) + (m - 1)
              /\ (reruns = 0 => Upcoming(w) + (n - 1) = Fetched(w) + (m - 1))
          BY <2>1, <2>t, <4>1
        <4> QED BY <3>2, <4>1, <4>2
      <3> QED BY <3>1, <3>2
    <2> HIDE DEF k, r, n
    <2>9. InLine(w)'
      BY <1>2, <2>6, <2>7, <2>8 DEF InLine
    <2> QED BY <2>3, <2>4, <2>9
  <1>6. OwnerOK(w)'
    BY <1>1, <1>2, <1>5 DEF OwnerOK
  <1> QED BY <1>4, <1>6 DEF WorkerOK

LEMMA RecvOK == ASSUME Ordered, NEW w \in Worker, Recv(w) PROVE WorkerOK(w)'
  <1>1. /\ TypeOK /\ OwnerOK(w) /\ SentOK(w)
        /\ committed \in Nat /\ position[w] \in Nat /\ Len(buffered[w]) \in Nat
    BY OrderedFacts
  <1>2. /\ pc[w] = "recv" /\ pc'[w] = "received" /\ buffered' = buffered
        /\ current'[w].offset = position[w]
        /\ joined' = joined /\ sent' = sent /\ healthy' = healthy
        /\ owner' = owner /\ generation' = generation /\ committed' = committed /\ reruns' = reruns
    BY <1>1 DEF Recv, Goto, TypeOK, broker, group, handle, bounds
  <1>3. SentOK(w)'
    BY <1>1, <1>2 DEF SentOK
  <1>4. Upcoming(w)' = Upcoming(w) /\ Fetched(w)' = Fetched(w) /\ ~Serves(w)'
    BY <1>2 DEF Upcoming, Fetched, Serves, TakenAt
  <1>5. owner' = w => InLine(w)'
    BY <1>1, <1>2, <1>4 DEF OwnerOK, InLine
  <1>6. OwnerOK(w)'
    BY <1>1, <1>2, <1>4, <1>5 DEF OwnerOK
  <1> QED BY <1>3, <1>6 DEF WorkerOK

LEMMA KeepAsideOK == ASSUME Ordered, NEW w \in Worker, KeepAside(w), ~End(w) PROVE WorkerOK(w)'
  <1>1. /\ TypeOK /\ OwnerOK(w) /\ DeliveryOK(w) /\ SentOK(w)
        /\ buffered[w] \in Seq(Delivery) /\ current[w] \in Delivery
        /\ committed \in Nat /\ position[w] \in Nat /\ Len(buffered[w]) \in Nat
        /\ current[w].offset \in Nat
    BY OrderedFacts DEF TypeOK
  <1>2. /\ pc[w] = "received" /\ pc'[w] = "loop"
        /\ buffered'[w] = Append(buffered[w], current[w])
        /\ position' = position /\ joined' = joined /\ sent' = sent /\ healthy' = healthy
        /\ owner' = owner /\ generation' = generation /\ committed' = committed /\ reruns' = reruns
    BY <1>1 DEF KeepAside, Goto, TypeOK, broker, group, client, handle, bounds
  <1>3. SentOK(w)'
    BY <1>1, <1>2 DEF SentOK
  <1>4. ASSUME owner' = w PROVE InLine(w)'
    <2> DEFINE n == Len(buffered[w])
               r == n + 1
    <2>1. PICK m \in 0..n :
            /\ \A i \in 1..n : (buffered[w][i].generation = generation) <=> (i > m)
            /\ \A i \in 1..n : i > m => buffered[w][i].offset + n + 1 = Fetched(w) + i
            /\ Upcoming(w) + n <= Fetched(w) + m
            /\ reruns = 0 /\ pc[w] # "ended" => Upcoming(w) + n = Fetched(w) + m
      BY <1>1, <1>2, <1>4 DEF OwnerOK, InLine
    <2>2. /\ Upcoming(w) = committed /\ Fetched(w) = current[w].offset
          /\ Upcoming(w)' = committed /\ Fetched(w)' = position[w]
          /\ position[w] = current[w].offset + 1 /\ current[w].generation = generation
      BY <1>1, <1>2, <1>4 DEF Upcoming, Fetched, Serves, TakenAt, DeliveryOK, OwnerOK
    <2>t. /\ n \in Nat /\ m \in Nat /\ Upcoming(w) \in Nat /\ Fetched(w) \in Nat
          /\ Fetched(w)' = Fetched(w) + 1 /\ Upcoming(w)' = Upcoming(w)
      BY <1>1, <2>2
    <2>3. /\ Len(buffered'[w]) = r /\ r \in Nat /\ m \in 0..r
          /\ \A i \in 1..r : buffered'[w][i] = IF i <= n THEN buffered[w][i] ELSE current[w]
      BY <1>1, <1>2
    <2>4. ASSUME NEW i \in 1..r
          PROVE  /\ (buffered'[w][i].generation = generation) <=> (i > m)
                 /\ i > m => buffered'[w][i].offset + r + 1 = Fetched(w)' + i
      <3>1. CASE i <= n
        <4>1. buffered'[w][i] = buffered[w][i] /\ i \in 1..n /\ buffered[w][i].offset \in Nat
          BY <1>1, <2>3, <3>1, DeliveriesTyped
        <4>2. /\ (buffered[w][i].generation = generation) <=> (i > m)
              /\ i > m => buffered[w][i].offset + n + 1 = Fetched(w) + i
          BY <2>1, <4>1
        <4> HIDE DEF n
        <4>3. i > m => buffered[w][i].offset + (n + 1) + 1 = (Fetched(w) + 1) + i
          BY <2>t, <4>1, <4>2
        <4> QED BY <2>t, <4>1, <4>2, <4>3
      <3>2. CASE ~(i <= n)
        <4>1. buffered'[w][i] = current[w] /\ i = n + 1
          BY <1>1, <2>3, <3>2
        <4>2. i > m
          BY <2>t, <4>1
        <4>3. current[w].offset + (n + 1) + 1 = (Fetched(w) + 1) + i
          BY <1>1, <2>2, <2>t, <4>1
        <4> QED BY <2>2, <2>t, <4>1, <4>2, <4>3
      <3> QED BY <3>1, <3>2
    <2>5. Upcoming(w)' + r <= Fetched(w)' + m
          /\ (reruns = 0 /\ pc'[w] # "ended" => Upcoming(w)' + r = Fetched(w)' + m)
      <3> HIDE DEF n
      <3>2. Upcoming(w) + n <= Fetched(w) + m /\ (reruns = 0 => Upcoming(w) + n = Fetched(w) + m)
        BY <1>2, <2>1
      <3>1. Upcoming(w) + (n + 1) <= (Fetched(w) + 1) + m
            /\ (reruns = 0 => Upcoming(w) + (n + 1) = (Fetched(w) + 1) + m)
        BY <2>t, <3>2
      <3> QED BY <2>t, <3>1
    <2> HIDE DEF n, r
    <2> QED BY <1>2, <2>3, <2>4, <2>5 DEF InLine
  <1>5. ~Serves(w)'
    BY <1>2 DEF Serves, TakenAt
  <1>6. OwnerOK(w)'
    BY <1>1, <1>2, <1>4, <1>5 DEF OwnerOK
  <1> QED BY <1>3, <1>6 DEF WorkerOK

(* What is received is next when nothing of its assignment is kept aside.   *)
LEMMA TakeReceivedOK ==
  ASSUME Ordered, NEW w \in Worker, TakeReceived(w), ~overtaken' PROVE WorkerOK(w)'
  <1>1. /\ TypeOK /\ OwnerOK(w) /\ DeliveryOK(w) /\ SentOK(w)
        /\ committed \in Nat /\ position[w] \in Nat /\ Len(buffered[w]) \in Nat
        /\ current[w].offset \in Nat
    BY OrderedFacts
  <1>2. /\ pc[w] = "received" /\ pc'[w] = "start" /\ buffered' = buffered /\ current' = current
        /\ position' = position /\ joined' = joined /\ sent' = sent /\ healthy' = healthy
        /\ owner' = owner /\ generation' = generation /\ committed' = committed /\ reruns' = reruns
        /\ \A i \in 1..Len(buffered[w]) : buffered[w][i].generation # current[w].generation
    BY <1>1 DEF TakeReceived, Goto, TypeOK, group, client, handle, bounds
  <1>3. SentOK(w)'
    BY <1>1, <1>2 DEF SentOK
  <1>4. ASSUME owner' = w PROVE InLine(w)' /\ IsNext(current[w].offset)'
    <2> DEFINE n == Len(buffered[w])
    <2>1. PICK m \in 0..n :
            /\ \A i \in 1..n : (buffered[w][i].generation = generation) <=> (i > m)
            /\ Upcoming(w) + n <= Fetched(w) + m
            /\ reruns = 0 /\ pc[w] # "ended" => Upcoming(w) + n = Fetched(w) + m
      BY <1>1, <1>2, <1>4 DEF OwnerOK, InLine
    <2>2. /\ Upcoming(w) = committed /\ Fetched(w) = current[w].offset
          /\ position[w] = current[w].offset + 1 /\ current[w].generation = generation
      BY <1>1, <1>2, <1>4 DEF Upcoming, Fetched, Serves, TakenAt, DeliveryOK, OwnerOK
    <2>3. Upcoming(w)' = current[w].offset + 1 /\ Fetched(w)' = position[w]
      BY <1>2, <2>2 DEF Upcoming, Fetched, Serves, TakenAt
    <2>t. n \in Nat /\ m \in Nat /\ m <= n
      BY <1>1
    <2>4. m = n /\ \A i \in 1..n : ~(buffered[w][i].generation = generation) /\ ~(i > n)
      <3>1. \A i \in 1..n : ~(buffered[w][i].generation = generation)
        BY <1>2, <2>2
      <3> HIDE DEF n
      <3>2. ASSUME m # n PROVE FALSE
        <4>1. n \in 1..n /\ n > m
          BY <2>t, <3>2
        <4> QED BY <2>1, <3>1, <4>1
      <3> QED BY <2>t, <3>1, <3>2
    <2>5. committed <= current[w].offset /\ (reruns = 0 => current[w].offset = committed)
      BY <1>1, <1>2, <2>1, <2>2, <2>4
    <2>6. Upcoming(w)' + n <= Fetched(w)' + n /\ Upcoming(w)' + n = Fetched(w)' + n
      BY <1>1, <2>2, <2>3
    <2>7. n \in 0..n /\ Len(buffered'[w]) = n
      BY <1>1, <1>2
    <2> HIDE DEF n
    <2>8. InLine(w)'
      BY <1>2, <2>4, <2>6, <2>7 DEF InLine
    <2>9. IsNext(current[w].offset)'
      BY <1>2, <2>5 DEF IsNext
    <2> QED BY <2>8, <2>9
  <1>5. OwnerOK(w)'
    BY <1>1, <1>2, <1>4 DEF OwnerOK
  <1> QED BY <1>3, <1>5 DEF WorkerOK

LEMMA AssignedOK == ASSUME Ordered, NEW w \in Worker, Assigned(w) PROVE WorkerOK(w)'
  <1>1. /\ TypeOK /\ DeliveryOK(w) /\ SentOK(w)
        /\ committed \in Nat /\ Len(buffered[w]) \in Nat /\ generation \in Nat
        /\ current[w].generation \in Nat
        /\ \A i \in 1..Len(buffered[w]) : buffered[w][i].generation \in Nat
    BY OrderedFacts, DeliveriesTyped
  <1>2. /\ pc[w] = "recv" /\ pc' = pc /\ current' = current /\ buffered' = buffered
        /\ position'[w] = committed /\ joined'[w] = generation'
        /\ owner' = w /\ generation' = generation + 1 /\ committed' = committed
        /\ ~sent[w] /\ sent' = sent
    BY <1>1 DEF Assigned, TypeOK, broker, handle, bounds
  <1>3. SentOK(w)'
    BY <1>2 DEF SentOK
  <1>4. ~Serves(w)' /\ Upcoming(w)' = committed /\ Fetched(w)' = committed
    BY <1>2 DEF Serves, TakenAt, Upcoming, Fetched
  <1>5. InLine(w)'
    <2> DEFINE n == Len(buffered[w])
    <2>1. n \in 0..n /\ n \in Nat
      BY <1>1
    <2>2. \A i \in 1..n : ~(buffered[w][i].generation = generation + 1) /\ ~(i > n)
      BY <1>1 DEF DeliveryOK
    <2> HIDE DEF n
    <2>3. \E m \in 0..n :
            /\ \A i \in 1..n : (buffered[w][i].generation = generation + 1) <=> (i > m)
            /\ \A i \in 1..n : i > m => buffered[w][i].offset + n + 1 = committed + i
            /\ committed + n <= committed + m
            /\ committed + n = committed + m
      <3>1. \A i \in 1..n : (buffered[w][i].generation = generation + 1) <=> (i > n)
        BY <2>2
      <3>2. \A i \in 1..n : i > n => buffered[w][i].offset + n + 1 = committed + i
        BY <2>2
      <3>3. committed + n <= committed + n
        BY <1>1, <2>1
      <3> QED BY <2>1, <3>1, <3>2, <3>3
    <2> QED BY <1>2, <1>4, <2>3 DEF InLine, n
  <1> QED BY <1>2, <1>3, <1>4, <1>5 DEF WorkerOK, OwnerOK

LEMMA CommitOK ==
  ASSUME Ordered, NEW w \in Worker, Commit(w) PROVE WorkerOK(w)'
  <1>1. /\ TypeOK /\ OwnerOK(w) /\ SentOK(w) /\ current[w].offset \in Nat
    BY OrderedFacts
  <1>2. /\ pc[w] = "commit" /\ pc'[w] = "loop" /\ buffered' = buffered
        /\ position' = position /\ joined' = joined /\ sent'[w] = FALSE
        /\ owner' = owner /\ generation' = generation /\ reruns' = reruns
        /\ committed' = current[w].offset + 1
    BY <1>1 DEF Commit, Apply, Goto, TypeOK, group, client, bounds
  <1>3. SentOK(w)' /\ ~Serves(w)'
    BY <1>2 DEF SentOK, Serves, TakenAt
  <1>4. ASSUME owner' = w PROVE InLine(w)'
    <2>1. owner = w /\ InLine(w)
      BY <1>1, <1>2, <1>4 DEF OwnerOK
    <2>2. Fetched(w)' = Fetched(w) /\ Upcoming(w)' = current[w].offset + 1
      BY <1>2 DEF Fetched, Upcoming, Serves, TakenAt
    <2>3. ASSUME Serves(w) PROVE InLine(w)'
      <3>1. Upcoming(w)' = Upcoming(w)
        BY <2>2, <2>3 DEF Upcoming
      <3> QED BY <1>2, <2>1, <2>2, <3>1 DEF InLine
    <2>4. Serves(w)
      BY <1>1, <1>2, <2>1 DEF SentOK, Serves, TakenAt
    <2> QED BY <2>3, <2>4
  <1> QED BY <1>2, <1>3, <1>4, <1>1 DEF WorkerOK, OwnerOK

(* Every action keeps every worker in order, unless a record overtakes.      *)
LEMMA WorkersStep ==
  ASSUME Ordered, Next, ~overtaken', NEW v \in Worker PROVE WorkerOK(v)'
  <1> DEFINE Goal == WorkerOK(v)'
  <1>0. /\ TypeOK /\ OwnerOK(v) /\ SentOK(v) /\ committed \in Nat /\ generation \in Nat
        /\ reruns \in Nat
    BY OrderedFacts
  <1>o. \A q \in Worker : sent[v] /\ sent[q] => q = v
    BY DEF Ordered, KafkaOrder, OneSends
  \* The worker's place stays as it is.
  <1>b. ASSUME pc'[v] = pc[v], current'[v] = current[v], buffered'[v] = buffered[v],
               joined'[v] = joined[v], position'[v] = position[v],
               sent'[v] = sent[v], healthy'[v] = healthy[v],
               reruns' = 0 => reruns = 0,
               owner' = v => owner = v /\ generation' = generation /\ committed' = committed,
               sent[v] => owner' \in {v, Nobody},
               pc[v] = "commit" => committed' = committed
        PROVE  Goal
    BY <1>b, Elsewhere
  <1>c. ASSUME NEW w \in Worker, Still(w), v # w PROVE Goal
    BY <1>c, StillOthers
  <1> HIDE DEF Goal
  <1>1. ASSUME Evict PROVE Goal
    <2>1. /\ joined' = joined /\ position' = position /\ committed' = committed /\ reruns' = reruns
          /\ current' = current /\ buffered' = buffered /\ pc' = pc /\ sent' = sent
          /\ healthy' = healthy /\ owner' = Nobody
      BY <1>1 DEF Evict, broker, client, handle
    <2>2. Nobody # v
      BY KafkaAssumption
    <2> QED BY <1>b, <2>1, <2>2
  <1>2. ASSUME NEW w \in Worker, Lost(w) PROVE Goal
    <2>1. CASE v = w
      <3>1. /\ owner # v /\ owner' = owner /\ pc'[v] = "recv"
        BY <1>0, <1>2, <2>1 DEF Lost, OwnerOK, group
      <3>2. sent'[v] = sent[v] /\ healthy'[v] = healthy[v]
        BY <1>2 DEF Lost, handle
      <3> QED BY <1>0, <3>1, <3>2 DEF Goal, WorkerOK, OwnerOK, SentOK
    <2>2. CASE v # w
      <3>1. Still(w)
        BY <1>0, <1>2 DEF Lost, Still, TypeOK, broker, group, handle, bounds
      <3> QED BY <1>c, <2>2, <3>1
    <2> QED BY <2>1, <2>2
  <1>3. ASSUME NEW w \in Worker, Assigned(w) PROVE Goal
    <2>1. CASE v = w
      BY <1>3, <2>1, AssignedOK DEF Goal
    <2>2. CASE v # w
      <3>1. /\ joined'[v] = joined[v] /\ position'[v] = position[v] /\ committed' = committed
            /\ reruns' = reruns /\ current' = current /\ buffered' = buffered /\ pc' = pc
            /\ sent' = sent /\ healthy' = healthy /\ owner' = w /\ ~sent[v]
        BY <1>0, <1>3, <2>2 DEF Assigned, TypeOK, broker, handle, bounds
      <3> QED BY <1>b, <2>2, <3>1
    <2> QED BY <2>1, <2>2
  <1>4. ASSUME NEW w \in Worker, NEW s \in {"running", "paused", "draining"}, Signal(w, s) PROVE Goal
    <2>1. /\ joined' = joined /\ position' = position /\ committed' = committed /\ reruns' = reruns
          /\ current' = current /\ buffered' = buffered /\ pc' = pc /\ sent' = sent
          /\ healthy' = healthy /\ owner' = owner /\ generation' = generation
      BY <1>4 DEF Signal, broker, client, handle, group
    <2> QED BY <1>0, <1>b, <2>1 DEF SentOK
  <1>5. ASSUME NEW w \in Worker,
               \/ Loop(w) \/ Start(w) \/ Settle(w) \/ Abandon(w) \/ Fail(w) \/ KeepAside(w)
               \/ SendOffsets(w) /\ sent' = sent,
               End(w)
        PROVE  Goal
    <2>1. /\ generation' = generation /\ committed' = committed /\ settled' = settled /\ log' = log
          /\ joined' = joined /\ position' = position /\ owner' = owner /\ reruns' = reruns
          /\ sent' = sent /\ healthy' \in {healthy, [healthy EXCEPT ![w] = FALSE]}
      BY <1>5 DEF Loop, Start, Settle, Checked, Abandon, Fail, KeepAside, SendOffsets, group,
                  broker, client, handle, bounds
    <2>2. CASE v = w
      <3>1. owner = v => committed' <= position[v]
        BY <2>1, OwnerBehind
      <3>2. sent'[v] => ~healthy'[v] /\ owner \in {v, Nobody}
        BY <1>0, <2>1, <2>2 DEF SentOK, TypeOK
      <3> QED BY <1>0, <1>5, <2>1, <2>2, <3>1, <3>2, EndOK DEF Goal
    <2>3. CASE v # w
      <3>0. KafkaTypes
        BY DEF Ordered
      <3>1. /\ pc'[v] = pc[v] /\ current'[v] = current[v] /\ buffered'[v] = buffered[v]
        BY <1>5, <2>1, <2>3, <3>0, EndTyped
      <3>2. healthy'[v] = healthy[v]
        BY <1>0, <2>1, <2>3 DEF TypeOK
      <3> QED BY <1>0, <1>b, <2>1, <3>1, <3>2 DEF SentOK
    <2> QED BY <2>2, <2>3
  <1>6. ASSUME NEW w \in Worker, Loop(w) \/ Assign(w) \/ ChooseRecv(w) \/ RecvNothing(w), ~End(w) PROVE Goal
    <2>1. /\ generation' = generation /\ committed' = committed /\ settled' = settled /\ log' = log
          /\ joined' = joined /\ position' = position /\ owner' = owner /\ reruns' = reruns
          /\ sent' = sent /\ healthy' = healthy /\ current' = current /\ buffered' = buffered
      BY <1>6 DEF Loop, Assign, ChooseRecv, RecvNothing, group, broker, client, handle, bounds
    <2>2. \/ pc[w] = "loop" /\ pc' = [pc EXCEPT ![w] = "assign"]
          \/ pc[w] = "assign" /\ pc' = [pc EXCEPT ![w] = "choose"]
          \/ pc[w] = "choose" /\ pc' = [pc EXCEPT ![w] = "recv"]
          \/ pc[w] = "recv" /\ pc' = [pc EXCEPT ![w] = "loop"]
      BY <1>6 DEF Loop, Assign, ChooseRecv, RecvNothing, Goto
    <2>3. Still(w)
      BY <1>0, <2>1, <2>2 DEF Still, TypeOK
    <2>4. CASE v = w
      <3>1. pc[v] \in {"loop", "assign", "choose", "recv"} /\ pc'[v] \in {"loop", "assign", "choose", "recv"}
        BY <1>0, <2>2, <2>4 DEF TypeOK
      <3> QED BY <2>1, <2>3, <2>4, <3>1, GoesOn DEF Goal
    <2> QED BY <1>c, <2>3, <2>4
  <1>7. ASSUME NEW w \in Worker,
               \/ Start(w) \/ Settle(w) \/ SendOffsets(w)
               \/ \E ok \in BOOLEAN : Handle(w, ok),
               ~End(w)
        PROVE  Goal
    <2>1. /\ generation' = generation /\ committed' = committed /\ settled' = settled /\ log' = log
          /\ joined' = joined /\ position' = position /\ owner' = owner /\ reruns' = reruns
          /\ current' = current /\ buffered' = buffered
      BY <1>7 DEF Start, Settle, Checked, Handle, SendOffsets, group, broker, client, bounds
    <2>2. \/ /\ pc[w] \in {"start", "handling", "settle"} /\ sent' = sent /\ healthy' = healthy
             /\ \E l \in {"handling", "settle", "send"} : pc' = [pc EXCEPT ![w] = l]
          \/ /\ pc[w] = "send" /\ pc' = [pc EXCEPT ![w] = "commit"]
             /\ sent' = [sent EXCEPT ![w] = TRUE] /\ healthy' = [healthy EXCEPT ![w] = FALSE]
             /\ Fenced(w)
      BY <1>7 DEF Start, Settle, Checked, Handle, SendOffsets, Goto, handle
    <2>3. Still(w)
      BY <1>0, <2>1, <2>2 DEF Still, TypeOK
    <2>4. CASE v = w
      <3>1. /\ pc[v] \in TakenAt /\ pc'[v] \in TakenAt
            /\ sent'[v] => ~healthy'[v] /\ owner \in {v, Nobody}
            /\ pc'[v] = "commit" => sent'[v] /\ owner = v /\ current[v].generation = generation
        BY <1>0, <2>2, <2>4 DEF TypeOK, TakenAt, SentOK, Fenced
      <3> QED BY <2>1, <2>3, <2>4, <3>1, HandlesOn DEF Goal
    <2> QED BY <1>c, <2>3, <2>4
  <1>8. ASSUME NEW w \in Worker,
               ChooseBuffered(w) \/ Recv(w) \/ (KeepAside(w) /\ ~End(w)) \/ TakeReceived(w)
        PROVE  Goal
    <2>1. Still(w)
      <3>1. CASE ChooseBuffered(w)
        BY <1>0, <3>1 DEF Still, TypeOK, ChooseBuffered, Goto, broker, group, client, handle, bounds
      <3>2. CASE Recv(w)
        BY <1>0, <3>2 DEF Still, TypeOK, Recv, Goto, broker, group, handle, bounds
      <3>3. CASE KeepAside(w) /\ ~End(w)
        BY <1>0, <3>3 DEF Still, TypeOK, KeepAside, Goto, broker, group, client, handle, bounds
      <3>4. CASE TakeReceived(w)
        BY <1>0, <3>4 DEF Still, TypeOK, TakeReceived, Goto, broker, group, client, handle, bounds
      <3> QED BY <1>8, <3>1, <3>2, <3>3, <3>4
    <2>2. CASE v = w
      BY <1>8, <2>2, ChooseBufferedOK, RecvOK, KeepAsideOK, TakeReceivedOK DEF Goal
    <2> QED BY <1>c, <2>1, <2>2
  <1>9. ASSUME NEW w \in Worker, Commit(w) \/ CommitUncertain(w) PROVE Goal
    <2>1. /\ generation' = generation /\ joined' = joined /\ position' = position
          /\ owner' = owner /\ reruns' = reruns /\ pc[w] = "commit"
          /\ sent' = [sent EXCEPT ![w] = FALSE] /\ committed' = current[w].offset + 1
      BY <1>9 DEF Commit, CommitUncertain, Apply, group, client, bounds
    <2>2. /\ sent[w] /\ owner \in {w, Nobody} /\ current[w].offset \in Nat
          /\ owner = w => Serves(w)
      <3>1. SentOK(w) /\ current[w].offset \in Nat
        BY OrderedFacts
      <3> QED BY <2>1, <3>1 DEF SentOK, Serves, TakenAt
    <2>3. CASE v = w
      <3>1. CASE Commit(w)
        BY <2>3, <3>1, CommitOK DEF Goal
      <3>2. CASE CommitUncertain(w)
        <4>1. End(w) /\ sent'[w] = FALSE
          BY <1>0, <2>1, <3>2 DEF CommitUncertain, TypeOK
        <4>2. committed' \in Nat /\ (owner = w => committed' <= position[w])
          BY <2>1, <2>2, OwnerBehind
        <4> QED BY <2>1, <2>3, <4>1, <4>2, EndOK DEF Goal
      <3> QED BY <1>9, <3>1, <3>2
    <2>4. CASE v # w
      <3>1. owner # v /\ ~sent[v] /\ pc[v] # "commit"
        BY <1>0, <1>o, <2>2, <2>4, KafkaAssumption DEF SentOK
      <3>2. /\ pc'[v] = pc[v] /\ current'[v] = current[v] /\ buffered'[v] = buffered[v]
            /\ healthy'[v] = healthy[v]
        BY <1>0, <1>9, <2>4 DEF Commit, CommitUncertain, End, Goto, TypeOK
      <3>3. sent'[v] = sent[v]
        BY <1>0, <2>1, <2>4 DEF TypeOK
      <3> QED BY <1>b, <2>1, <3>1, <3>2, <3>3
    <2> QED BY <2>3, <2>4
  <1>10. ASSUME NEW w \in Worker, Aborted(w) PROVE Goal
    <2>1. /\ generation' = generation /\ committed' = committed /\ settled' = settled /\ log' = log
          /\ joined' = joined /\ position' = position /\ owner' = owner /\ reruns' = reruns
          /\ current' = current /\ buffered' = buffered /\ pc' = pc /\ healthy' = healthy
          /\ pc[w] # "commit" /\ sent' = [sent EXCEPT ![w] = FALSE]
      BY <1>10 DEF Aborted, group, broker, client, bounds
    <2>2. Still(w)
      BY <1>0, <2>1 DEF Still, TypeOK
    <2>3. CASE v = w
      <3>1. SentOK(v)'
        BY <1>0, <2>1, <2>3 DEF SentOK, TypeOK
      <3>2. OwnerOK(v)'
        BY <1>0, <2>1 DEF OwnerOK, InLine, Serves, Upcoming, Fetched, IsNext
      <3> QED BY <3>1, <3>2 DEF Goal, WorkerOK
    <2> QED BY <1>c, <2>2, <2>3
  <1>11. ASSUME NEW w \in Worker, Restart(w) PROVE Goal
    <2>1. /\ generation' = generation /\ committed' = committed /\ reruns' = reruns
          /\ joined' = [joined EXCEPT ![w] = 0] /\ position' = position
          /\ owner' = (IF owner = w THEN Nobody ELSE owner) /\ sent' = sent
          /\ current' = current /\ buffered' = buffered /\ pc' = [pc EXCEPT ![w] = "loop"]
          /\ healthy' = [healthy EXCEPT ![w] = TRUE] /\ ~sent[w] /\ pc[w] = "ended"
      BY <1>11 DEF Restart, Goto, broker, bounds
    <2>2. CASE v = w
      <3>1. owner' # v /\ ~sent'[v] /\ pc'[v] = "loop"
        BY <1>0, <2>1, <2>2, KafkaAssumption DEF TypeOK
      <3> QED BY <3>1 DEF Goal, WorkerOK, OwnerOK, SentOK
    <2>3. CASE v # w
      <3>1. /\ pc'[v] = pc[v] /\ joined'[v] = joined[v] /\ healthy'[v] = healthy[v]
            /\ owner' = v => owner = v
        BY <1>0, <2>1, <2>3, KafkaAssumption DEF TypeOK
      <3>2. sent[v] => owner' \in {v, Nobody}
        BY <1>0, <2>1, <2>3 DEF SentOK
      <3> QED BY <1>b, <2>1, <3>1, <3>2
    <2> QED BY <2>2, <2>3
  <1>12. ASSUME NEW w \in Worker, Rerun(w) PROVE Goal
    <2>1. /\ generation' = generation /\ committed' = committed /\ reruns' = reruns + 1
          /\ joined' = joined /\ position' = position /\ owner' = owner /\ sent' = sent
          /\ current' = current /\ buffered' = buffered /\ pc' = [pc EXCEPT ![w] = "loop"]
          /\ healthy' = healthy /\ pc[w] = "ended"
      BY <1>12 DEF Rerun, Goto, broker, group, client, handle
    <2>2. reruns' # 0
      BY <1>0, <2>1
    <2>3. CASE v = w
      <3>1. pc'[v] = "loop" /\ pc[v] = "ended"
        BY <1>0, <2>1, <2>3 DEF TypeOK
      <3>2. SentOK(v)'
        BY <1>0, <2>1, <3>1 DEF SentOK
      <3>3. ~Serves(v)' /\ Upcoming(v)' = Upcoming(v) /\ Fetched(v)' = Fetched(v)
        BY <2>1, <3>1 DEF Serves, Upcoming, Fetched, TakenAt
      <3>4. OwnerOK(v)'
        BY <1>0, <2>1, <2>2, <3>3 DEF OwnerOK, InLine
      <3> QED BY <3>2, <3>4 DEF Goal, WorkerOK
    <2>4. CASE v # w
      <3>1. pc'[v] = pc[v]
        BY <1>0, <2>1, <2>4 DEF TypeOK
      <3> QED BY <1>0, <1>b, <2>1, <2>2, <3>1 DEF SentOK
    <2> QED BY <2>3, <2>4
  <1>13. ASSUME NEW w \in Worker, SendOffsets(w) PROVE Goal
    <2>1. End(w) \/ ~End(w)
      OBVIOUS
    <2>2. ASSUME End(w) PROVE sent' = sent
      BY <1>13, <2>2 DEF SendOffsets, End, Goto, Ordered, KafkaTypes, TypeOK
    <2> QED BY <1>5, <1>7, <1>13, <2>1, <2>2
  <1>14. ASSUME NEW w \in Worker, Step(w) PROVE Goal
    <2>1. ASSUME End(w) PROVE Goal
      <3>1. ASSUME Assign(w) \/ ChooseRecv(w) \/ \E ok \in BOOLEAN : Handle(w, ok) PROVE FALSE
        BY <1>0, <2>1, <3>1 DEF Assign, ChooseRecv, Handle, End, Goto, TypeOK
      <3> QED BY <1>5, <1>8, <1>9, <1>13, <1>14, <2>1, <3>1 DEF Step
    <2>2. ASSUME ~End(w) PROVE Goal
      BY <1>6, <1>7, <1>8, <1>9, <1>14, <2>2 DEF Step
    <2> QED BY <2>1, <2>2
  <1>15. ASSUME NEW w \in Worker, RecvNothing(w) PROVE Goal
    <2>1. ~End(w)
      BY <1>0, <1>15 DEF RecvNothing, End, Goto, TypeOK
    <2> QED BY <1>6, <1>15, <2>1
  <1>16. ASSUME NEW w \in Worker, Abandon(w) \/ CommitUncertain(w) \/ Fail(w) PROVE Goal
    BY <1>5, <1>9, <1>16 DEF Abandon, Fail
  <1>17. Goal
    <2>1. ASSUME NEW w \in Worker, Lost(w) \/ Assigned(w) \/ Aborted(w) \/ Restart(w) \/ Rerun(w) PROVE Goal
      BY <1>2, <1>3, <1>10, <1>11, <1>12, <2>1
    <2> QED BY <1>1, <1>4, <1>14, <1>15, <1>16, <2>1 DEF Next
  <1> QED BY <1>17 DEF Goal

(* Offsets are sent by the owner, which nobody else is until they are gone.  *)
LEMMA OneSendsStep == Ordered /\ Next => OneSends'
  <1> SUFFICES ASSUME Ordered, Next, NEW v \in Worker, NEW w \in Worker, sent'[v], sent'[w], v # w
               PROVE  FALSE
    BY DEF OneSends
  <1>0. OneSends /\ TypeOK /\ SentOK(v) /\ SentOK(w)
    BY OrderedFacts DEF Ordered, KafkaOrder
  <1>1. ASSUME NEW q \in Worker, SendOffsets(q), sent'[q] # sent[q] PROVE FALSE
    <2>1. sent' = [sent EXCEPT ![q] = TRUE] /\ owner = q
      BY <1>1 DEF SendOffsets, Fenced
    <2>2. \A r \in Worker \ {q} : sent'[r] => r = owner \/ owner = Nobody
      <3>1. \A r \in Worker : SentOK(r)
        BY OrderedFacts
      <3> QED BY <1>0, <2>1, <3>1 DEF SentOK, TypeOK
    <2> QED BY <2>1, <2>2, KafkaAssumption
  <1>2. ASSUME \A q \in Worker : sent'[q] => sent[q] PROVE FALSE
    BY <1>0, <1>2 DEF OneSends
  <1>3. ASSUME NEW q \in Worker, Step(q) \/ RecvNothing(q) \/ Abandon(q) \/ CommitUncertain(q) \/ Fail(q)
        PROVE  FALSE
    <2>1. ASSUME SendOffsets(q) PROVE FALSE
      <3>1. \A r \in Worker \ {q} : sent'[r] = sent[r]
        BY <1>0, <2>1 DEF SendOffsets, TypeOK
      <3>2. ASSUME sent'[q] = sent[q] PROVE FALSE
        BY <1>2, <3>1, <3>2
      <3> QED BY <1>1, <2>1, <3>2
    <2>2. ASSUME sent' = sent PROVE FALSE
      BY <1>2, <2>2
    <2>3. ASSUME sent' = [sent EXCEPT ![q] = FALSE] PROVE FALSE
      BY <1>0, <1>2, <2>3 DEF TypeOK
    <2>4. SendOffsets(q) \/ sent' = sent \/ sent' = [sent EXCEPT ![q] = FALSE]
      BY <1>3 DEF Step, Loop, Assign, ChooseBuffered, ChooseRecv, Recv, KeepAside, TakeReceived, Start,
                  Settle, Checked, Handle, Commit, CommitUncertain, Apply, RecvNothing, Abandon, Fail, handle
    <2> QED BY <2>1, <2>2, <2>3, <2>4
  <1>4. ASSUME NEW q \in Worker, Aborted(q) PROVE FALSE
    <2>1. sent' = [sent EXCEPT ![q] = FALSE]
      BY <1>4 DEF Aborted
    <2> QED BY <1>0, <1>2, <2>1 DEF TypeOK
  <1>5. ASSUME NEW q \in Worker, Lost(q) \/ Assigned(q) \/ Restart(q) \/ Rerun(q) PROVE FALSE
    <2>1. sent' = sent
      BY <1>5 DEF Lost, Assigned, Restart, Rerun, handle
    <2> QED BY <1>2, <2>1
  <1>6. ASSUME NEW q \in Worker, NEW s \in {"running", "paused", "draining"}, Signal(q, s) PROVE FALSE
    BY <1>2, <1>6 DEF Signal, handle
  <1>7. ASSUME Evict PROVE FALSE
    BY <1>2, <1>7 DEF Evict, handle
  <1> QED BY <1>3, <1>4, <1>5, <1>6, <1>7 DEF Next

(* A commit settles a record that was open, and none is left out before it.  *)
LEMMA SettledStep == Ordered /\ Next => LogSettled'
  <1> SUFFICES ASSUME Ordered, Next PROVE LogSettled'
    OBVIOUS
  <1>0. /\ TypeOK /\ LogSettled /\ committed \in Nat /\ Len(log) \in Nat /\ reruns \in Nat
        /\ settled \in [1..Len(log) -> Nat]
    BY DEF Ordered, KafkaOrder, KafkaTypes, TypeOK
  <1>1. ASSUME UNCHANGED <<log, committed, settled>>, reruns' = 0 => reruns = 0 PROVE LogSettled'
    BY <1>0, <1>1 DEF LogSettled, Offset
  <1>2. ASSUME NEW w \in Worker, Commit(w) \/ CommitUncertain(w) PROVE LogSettled'
    <2> DEFINE o == current[w].offset
    <2>1. pc[w] = "commit" /\ Apply(w) /\ reruns' = reruns
      BY <1>2 DEF Commit, CommitUncertain, bounds
    <2>2. KafkaTypes /\ SentOK(w) /\ DeliveryOK(w)
      BY OrderedFacts DEF Ordered
    <2>3. /\ Len(log') \in Nat /\ Len(log') >= Len(log) /\ committed' = o + 1
          /\ \A i \in 1..Len(log') : settled'[i] =
               IF i = o THEN settled[i] + 1 ELSE IF i <= Len(log) THEN settled[i] ELSE 0
      BY <2>1, <2>2, ApplyTyped
    <2>4. o \in 1..Len(log) /\ committed <= o /\ (reruns = 0 => o = committed)
      BY <2>1, <2>2 DEF SentOK, IsNext, DeliveryOK, TakenAt, Offset
    <2>5. settled[o] = 0
      BY <1>0, <2>4 DEF LogSettled, Offset
    <2> HIDE DEF o
    <2>6. ASSUME NEW i \in 1..Len(log')
          PROVE  /\ settled'[i] <= 1
                 /\ i >= committed' => settled'[i] = 0
                 /\ reruns = 0 /\ i < committed' => settled'[i] = 1
      <3>1. CASE i = o
        BY <2>3, <2>4, <2>5, <3>1
      <3>2. CASE i # o /\ i <= Len(log)
        <4>1. i \in 1..Len(log) /\ settled'[i] = settled[i]
          BY <1>0, <2>3, <3>2
        <4>2. /\ settled[i] <= 1 /\ (i >= committed => settled[i] = 0)
              /\ (reruns = 0 /\ i < committed => settled[i] = 1)
          BY <1>0, <4>1 DEF LogSettled, Offset
        <4>3. i >= committed' => i >= committed
          BY <1>0, <2>3, <2>4
        <4>4. reruns = 0 /\ i < committed' => i < committed
          BY <1>0, <2>3, <2>4, <3>2
        <4> QED BY <4>1, <4>2, <4>3, <4>4
      <3>3. CASE i # o /\ ~(i <= Len(log))
        <4>1. settled'[i] = 0 /\ ~(i < committed')
          BY <1>0, <2>3, <2>4, <3>3
        <4> QED BY <4>1
      <3> QED BY <3>1, <3>2, <3>3
    <2> QED BY <2>1, <2>6 DEF LogSettled, Offset
  <1>3. ASSUME NEW w \in Worker, Step(w) \/ RecvNothing(w) \/ Abandon(w) \/ Fail(w), ~Commit(w) PROVE LogSettled'
    <2>1. UNCHANGED <<log, committed, settled>> /\ reruns' = reruns
      BY <1>3 DEF Step, Loop, Assign, ChooseBuffered, ChooseRecv, Recv, KeepAside, TakeReceived, Start,
                  Settle, Checked, Handle, SendOffsets, RecvNothing, Abandon, Fail, broker, bounds
    <2> QED BY <1>1, <2>1
  <1>4. ASSUME NEW w \in Worker, Lost(w) \/ Assigned(w) \/ Aborted(w) \/ Restart(w) PROVE LogSettled'
    <2>1. UNCHANGED <<log, committed, settled>> /\ reruns' = reruns
      BY <1>4 DEF Lost, Assigned, Aborted, Restart, broker, bounds
    <2> QED BY <1>1, <2>1
  <1>5. ASSUME NEW w \in Worker, Rerun(w) PROVE LogSettled'
    <2>1. UNCHANGED <<log, committed, settled>> /\ reruns' = reruns + 1
      BY <1>5 DEF Rerun, broker
    <2>2. reruns' # 0
      BY <1>0, <2>1
    <2> QED BY <1>1, <2>1, <2>2
  <1>6. ASSUME NEW w \in Worker, NEW s \in {"running", "paused", "draining"}, Signal(w, s) PROVE LogSettled'
    <2>1. UNCHANGED <<log, committed, settled>> /\ reruns' = reruns
      BY <1>6 DEF Signal, broker
    <2> QED BY <1>1, <2>1
  <1>7. ASSUME Evict PROVE LogSettled'
    <2>1. UNCHANGED <<log, committed, settled>> /\ reruns' = reruns
      BY <1>7 DEF Evict, broker
    <2> QED BY <1>1, <2>1
  <1> QED BY <1>2, <1>3, <1>4, <1>5, <1>6, <1>7 DEF Next

LEMMA OvertakenStays == KafkaTypes /\ Next /\ ~overtaken' => ~overtaken
  <1> SUFFICES ASSUME KafkaTypes, Next, overtaken PROVE overtaken'
    BY DEF KafkaTypes, TypeOK
  <1>1. ASSUME NEW w \in Worker, Step(w) PROVE overtaken'
    BY <1>1 DEF Step, Loop, Assign, ChooseBuffered, ChooseRecv, Recv, KeepAside, TakeReceived, Start,
                Settle, Checked, Handle, SendOffsets, Commit, Apply, broker
  <1>2. ASSUME NEW w \in Worker, RecvNothing(w) \/ Abandon(w) \/ CommitUncertain(w) \/ Fail(w) \/ Lost(w)
                                 \/ Assigned(w) \/ Aborted(w) \/ Restart(w) \/ Rerun(w)
        PROVE  overtaken'
    BY <1>2 DEF RecvNothing, Abandon, CommitUncertain, Apply, Fail, Lost, Assigned, Aborted, Restart,
                Rerun, broker
  <1> QED BY <1>1, <1>2 DEF Next, Evict, Signal, broker

LEMMA OrderInit == Init => KafkaOrder
  <1> SUFFICES ASSUME Init PROVE KafkaOrder
    OBVIOUS
  <1>1. OneSends
    BY DEF Init, OneSends
  <1>2. LogSettled
    <2>1. committed = 1 /\ Offset = 1..2 /\ settled = [o \in 1..2 |-> 0]
      <3>1. PICK n \in Nat : n = 2
        OBVIOUS
      <3>2. log \in [1..n -> [job : Job, attempts : {0}]]
        BY <3>1 DEF Init
      <3>3. Len(log) = n
        BY <3>2
      <3> QED BY <3>1, <3>3 DEF Init, Offset
    <2> QED BY <2>1 DEF LogSettled
  <1>3. ASSUME NEW w \in Worker PROVE WorkerOK(w)
    <2>1. owner = Nobody /\ ~sent[w] /\ pc[w] = "loop"
      BY DEF Init
    <2> QED BY <2>1, KafkaAssumption DEF WorkerOK, OwnerOK, SentOK
  <1> QED BY <1>1, <1>2, <1>3 DEF KafkaOrder

LEMMA KafkaInvAlways == Spec => []KafkaInv
  <1>1. Init => KafkaInv
    BY KafkaTypesInit, OrderInit DEF KafkaInv
  <1>2. KafkaInv /\ [Next]_vars => KafkaInv'
    <2> SUFFICES ASSUME KafkaInv, [Next]_vars PROVE KafkaInv'
      OBVIOUS
    <2>1. KafkaTypes'
      BY KafkaTypesStep DEF KafkaInv
    <2>2. ASSUME Next, ~overtaken' PROVE KafkaOrder'
      <3>1. Ordered
        BY <2>2, OvertakenStays DEF KafkaInv, Ordered
      <3> QED BY <2>2, <3>1, OneSendsStep, SettledStep, WorkersStep DEF KafkaOrder
    <2>3. ASSUME UNCHANGED vars, ~overtaken' PROVE KafkaOrder'
      <3>1. Ordered
        BY <2>3 DEF KafkaInv, Ordered, vars, broker
      <3>2. /\ UNCHANGED <<log, committed, settled, owner, generation, reruns, pc, current, buffered>>
            /\ UNCHANGED <<position, joined, sent, healthy>>
        BY <2>3 DEF vars, broker, group, client, handle, bounds
      <3>3. \A w \in Worker : WorkerOK(w)'
        <4>1. \A w \in Worker : SentOK(w)
          BY <3>1, OrderedFacts
        <4> QED BY <3>1, <3>2, <4>1, Elsewhere DEF SentOK
      <3>4. OneSends' /\ LogSettled'
        BY <3>1, <3>2 DEF Ordered, KafkaOrder, OneSends, LogSettled, Offset
      <3> QED BY <3>3, <3>4 DEF KafkaOrder
    <2> QED BY <2>1, <2>2, <2>3 DEF KafkaInv
  <1> QED BY <1>1, <1>2, PTL DEF Spec

(* The group's offset leaves no record behind unsettled, for any replicas,  *)
(* jobs, attempts, buffers and faults, while run is called once on each     *)
(* KafkaWorker and no record overtakes one kept aside.                      *)
THEOREM NothingSkippedCorrect == Spec => []NothingSkipped
  <1>1. KafkaInv => NothingSkipped
    <2> SUFFICES ASSUME KafkaInv, reruns = 0, ~overtaken, NEW o \in Offset, o < committed
                 PROVE  settled[o] > 0
      BY DEF NothingSkipped
    <2>1. settled[o] = 1
      BY DEF KafkaInv, KafkaOrder, LogSettled
    <2> QED BY <2>1
  <1> QED BY <1>1, KafkaInvAlways, PTL

(* No record is settled twice, second calls of run included.                *)
THEOREM SettledOnceCorrect == Spec => []SettledOnce
  <1>1. KafkaInv => SettledOnce
    BY DEF KafkaInv, KafkaOrder, LogSettled, SettledOnce
  <1> QED BY <1>1, KafkaInvAlways, PTL
=============================================================================
