------------------------- MODULE WorkerRunnerProofs -------------------------
(***************************************************************************)
(* Proofs about WorkerRunner, for every number of consumers and jobs and   *)
(* every configuration RunnerConfig::validate accepts.                     *)
(***************************************************************************)
EXTENDS WorkerRunner, TLAPS

\* The store holds d's job for d; once it no longer does, it never will again.
Mine(d) == status[d.job] = "processing" /\ attempts[d.job] = d.attempt
Gone(d) == ~(Mine(d) /\ left[d.job] # 0)
Given(d) == d.attempt <= attempts[d.job]
Awaiting == {"renewing", "settling"}
Leased   == {"claiming", "working"} \cup Awaiting
Shape    == UNION {[D -> Answer] : D \in SUBSET Delivery}

RunnerTypes == TypeOK /\ reply \in [Consumer -> Shape]

\* What was settled is over for the store: an acknowledged job stays completed.
OutcomeOK(d) ==
  /\ outcome[d] # "open" => Given(d) /\ Gone(d)
  /\ outcome[d] = "acked" => status[d.job] = "completed" /\ attempts[d.job] = d.attempt

\* A consumer waits for one request for each lease that has no reply.
AskedOK(c) ==
  /\ pc[c] \notin Busy => drain[c] = Off
  /\ pc[c] \notin Leased => batch[c] = {}
  /\ pc[c] \notin Awaiting => reply[c] = <<>>
  /\ pc[c] \notin Awaiting \cup {"claiming"} => asked[c] = {}
  /\ pc[c] = "claiming" => /\ \A r \in asked[c] : r.op = "claim"
                           /\ asked[c] # {} => batch[c] = {}
  /\ pc[c] \in Awaiting =>
       /\ \A r \in asked[c] :
            /\ r.op \in (IF pc[c] = "renewing" THEN {"renew"} ELSE {"ack", "fail"})
            /\ r.lease \in batch[c] \ DOMAIN reply[c]
            /\ \A s \in asked[c] : r.lease = s.lease => r = s
       /\ \A d \in batch[c] \ DOMAIN reply[c] : \E r \in asked[c] : r.lease = d

\* What a consumer was told is what the store did.
ReplyOK(c) ==
  \A d \in batch[c] :
    /\ Given(d)
    /\ d \notin DOMAIN reply[c] => outcome[d] = "open"
    /\ d \in DOMAIN reply[c] =>
         /\ reply[c][d] = "acked" => outcome[d] = "acked"
         /\ reply[c][d] \in {"retry", "dead"} => outcome[d] = "failed"
         /\ reply[c][d] = "renewed" => outcome[d] = "open"
         /\ reply[c][d] = "lost" => outcome[d] = "open" /\ Gone(d)
         /\ pc[c] = "renewing" => reply[c][d] \in {"renewed", "lost"}

StrayOK(r) == r.op # "claim" => /\ Given(r.lease)
                                /\ \A c \in Consumer : r.lease \notin batch[c]

FateOK(d) ==
  /\ fate[d] = "received" =>
       failed \/ \E c \in Consumer : pc[c] = "error" \/ (pc[c] \in Busy /\ d \in batch[c])
  /\ fate[d] = "acked" => outcome[d] = "acked"
  /\ fate[d] \in {"retry", "dead"} => outcome[d] = "failed"
  /\ fate[d] = "lost" => outcome[d] = "open" /\ Given(d) /\ Gone(d)

JoinedOK(c) == c \in joined => pc[c] = "done" \/ (pc[c] = "error" /\ failed)

RunnerInv ==
  /\ RunnerTypes
  /\ \A d \in Delivery : OutcomeOK(d) /\ FateOK(d)
  /\ \A c \in Consumer : AskedOK(c) /\ ReplyOK(c) /\ JoinedOK(c)
  /\ \A r \in stray : StrayOK(r)

\* The store holds d's job for c, for all but k renewal intervals of the lease
\* beyond c's timer.
Safe(c, d, k) == Mine(d) /\ left[d.job] + k * RenewInterval >= LeaseDuration + timer[c]

LeaseOK(c) ==
  \A d \in batch[c] :
    /\ pc[c] = "claiming" => Safe(c, d, 1)
    /\ pc[c] = "working" => Safe(c, d, 2)
    /\ pc[c] = "renewing" =>
         IF d \in DOMAIN reply[c] THEN reply[c][d] = "renewed" /\ Safe(c, d, 2)
                                  ELSE timer[c] > 0 => Safe(c, d, 3)

\* What every step of the store does to a delivery, whoever it serves.
StoreTypes ==
  /\ status \in [Job -> Store!Status] /\ attempts \in [Job -> 0..MaxAttempts]
  /\ outcome \in [Delivery -> {"open", "acked", "failed"}]
  /\ left \in [Job -> 0..LeaseDuration]

StoreKeeps ==
  \A d \in Delivery : /\ Given(d) => Given(d)'
                      /\ Given(d) /\ Gone(d) => Gone(d)'
                      /\ Gone(d) => outcome'[d] = outcome[d]
                      /\ OutcomeOK(d)'

PromptInv == RunnerInv /\ \A c \in Consumer : LeaseOK(c)
-----------------------------------------------------------------------------
(* The store. *)

LEMMA HoldsIsNotGone ==
  ASSUME NEW d \in Delivery
  PROVE  Store!Holds(d.job, d) <=> ~Gone(d)
  <1>1. d = [job |-> d.job, attempt |-> d.attempt] /\ d.job \in Job
    BY DEF Delivery
  <1>2. ASSUME NEW k PROVE [job |-> d.job, attempt |-> k] = d <=> k = d.attempt
    BY <1>1
  <1>3. [job |-> d.job, attempt |-> attempts[d.job]] = d <=> attempts[d.job] = d.attempt
    BY <1>2
  <1> QED
    BY <1>1, <1>3 DEF Store!Holds, Gone, Mine

LEMMA ClaimMeans ==
  ASSUME StoreTypes, NEW C \in SUBSET Job, StoreClaims(C)
  PROVE  /\ \A j \in C : attempts[j] < MaxAttempts
         /\ \A j \in C : status[j] = "processing" => left[j] = 0
         /\ \A j \in C : status[j] \in {"queued", "processing"}
         /\ status' = [j \in Job |->
              IF status[j] = "processing" /\ left[j] = 0 /\ attempts[j] >= MaxAttempts
                THEN "failed" ELSE IF j \in C THEN "processing" ELSE status[j]]
         /\ attempts' = [j \in Job |-> IF j \in C THEN attempts[j] + 1 ELSE attempts[j]]
         /\ left' = [j \in Job |-> IF j \in C THEN LeaseDuration ELSE left[j]]
         /\ outcome' = outcome
  <1>1. ASSUME NEW j \in C
        PROVE  /\ attempts[j] \in Nat
               /\ \/ status[j] = "queued" /\ attempts[j] < MaxAttempts
                  \/ status[j] = "processing" /\ left[j] = 0 /\ ~(attempts[j] >= MaxAttempts)
    <2>1. j \in Job /\ j \in Store!Claimable
      BY DEF StoreClaims
    <2>2. attempts[j] \in Nat
      BY <2>1, RunnerAssumption DEF StoreTypes
    <2>3. CASE j \in Store!Due
      BY <2>1, <2>2, <2>3 DEF Store!Due
    <2>4. CASE j \in Store!Abandoned
      BY <2>1, <2>2, <2>4 DEF Store!Abandoned, Store!Exhausted, Store!Lapsed
    <2> QED BY <2>1, <2>2, <2>3, <2>4 DEF Store!Claimable
  <1>2. MaxAttempts \in Nat
    BY RunnerAssumption
  <1>3. Store!Exhausted = {j \in Job : status[j] = "processing" /\ left[j] = 0 /\ attempts[j] >= MaxAttempts}
    BY DEF Store!Exhausted, Store!Lapsed
  <1>4. status' = [j \in Job |-> IF j \in Store!Exhausted THEN "failed"
                     ELSE IF j \in {} THEN "queued"
                     ELSE IF j \in C THEN "processing" ELSE status[j]]
    BY DEF StoreClaims, Store!Claim
  <1>5. status' = [j \in Job |->
              IF status[j] = "processing" /\ left[j] = 0 /\ attempts[j] >= MaxAttempts
                THEN "failed" ELSE IF j \in C THEN "processing" ELSE status[j]]
    BY <1>3, <1>4
  <1>6. /\ attempts' = [j \in Job |-> IF j \in C THEN attempts[j] + 1 ELSE attempts[j]]
        /\ left' = [j \in Job |-> IF j \in C THEN LeaseDuration ELSE left[j]]
        /\ outcome' = outcome
    BY DEF StoreClaims, Store!Claim
  <1> QED BY <1>1, <1>2, <1>5, <1>6

LEMMA AnswerMeans ==
  ASSUME StoreTypes, NEW d \in Delivery, NEW op, NEW a, StoreAnswers(op, d, a)
  PROVE  \/ a = "lost" /\ Gone(d) /\ UNCHANGED store
         \/ /\ op = "renew" /\ a = "renewed" /\ ~Gone(d)
            /\ left' = [left EXCEPT ![d.job] = LeaseDuration]
            /\ UNCHANGED <<status, attempts, outcome>>
         \/ /\ op = "ack" /\ a = "acked" /\ ~Gone(d)
            /\ status' = [status EXCEPT ![d.job] = "completed"]
            /\ outcome' = [outcome EXCEPT ![d] = "acked"]
            /\ left' = [left EXCEPT ![d.job] = 0] /\ attempts' = attempts
         \/ /\ op = "fail" /\ a \in {"retry", "dead"} /\ ~Gone(d)
            /\ status' = [status EXCEPT ![d.job] =
                            IF attempts[d.job] < MaxAttempts THEN "queued" ELSE "failed"]
            /\ outcome' = [outcome EXCEPT ![d] = "failed"]
            /\ left' = [left EXCEPT ![d.job] = 0] /\ attempts' = attempts
  <1>1. d.job \in Job
    BY DEF Delivery
  <1> QED
    BY <1>1, HoldsIsNotGone DEF StoreAnswers, Store!Ack, Store!Fail, Unleased, store

LEMMA ClaimKeeps ==
  ASSUME StoreTypes, \A d \in Delivery : OutcomeOK(d), NEW C \in SUBSET Job, StoreClaims(C)
  PROVE  StoreTypes' /\ StoreKeeps
  <1> DEFINE Buried(j) == status[j] = "processing" /\ left[j] = 0 /\ attempts[j] >= MaxAttempts
  <1>1. /\ \A j \in C : attempts[j] < MaxAttempts
        /\ \A j \in C : status[j] = "processing" => left[j] = 0
        /\ \A j \in C : status[j] \in {"queued", "processing"}
        /\ status' = [j \in Job |-> IF Buried(j) THEN "failed"
                                   ELSE IF j \in C THEN "processing" ELSE status[j]]
        /\ attempts' = [j \in Job |-> IF j \in C THEN attempts[j] + 1 ELSE attempts[j]]
        /\ left' = [j \in Job |-> IF j \in C THEN LeaseDuration ELSE left[j]]
        /\ outcome' = outcome
    BY ClaimMeans
  <1>2. MaxAttempts \in Nat /\ LeaseDuration \in Nat
    BY RunnerAssumption
  <1>3. StoreTypes'
    <2>1. status' \in [Job -> Store!Status]
      BY <1>1 DEF StoreTypes, Store!Status
    <2>2. attempts' \in [Job -> 0..MaxAttempts]
      <3>1. ASSUME NEW j \in C PROVE attempts[j] + 1 \in 0..MaxAttempts
        BY <1>1, <1>2 DEF StoreTypes
      <3> QED BY <1>1, <3>1 DEF StoreTypes
    <2>3. left' \in [Job -> 0..LeaseDuration]
      BY <1>1, <1>2 DEF StoreTypes
    <2> QED BY <1>1, <2>1, <2>2, <2>3 DEF StoreTypes
  <1>4. ASSUME NEW d \in Delivery
        PROVE  /\ Given(d) => Given(d)'
               /\ Given(d) /\ Gone(d) => Gone(d)'
               /\ Gone(d) => outcome'[d] = outcome[d]
               /\ OutcomeOK(d)'
    <2>1. d.job \in Job /\ d.attempt \in Nat /\ attempts[d.job] \in Nat
      BY <1>2 DEF Delivery, StoreTypes
    <2>2. CASE d.job \in C
      <3>1. attempts'[d.job] = attempts[d.job] + 1 /\ outcome'[d] = outcome[d]
            /\ status[d.job] \in {"queued", "processing"}
        BY <1>1, <2>1, <2>2
      <3>2. OutcomeOK(d)
        OBVIOUS
      <3> QED
        BY <2>1, <3>1, <3>2 DEF Given, Gone, Mine, OutcomeOK
    <2>3. CASE d.job \notin C
      <3>1. /\ attempts'[d.job] = attempts[d.job] /\ outcome'[d] = outcome[d]
            /\ left'[d.job] = left[d.job]
            /\ status'[d.job] = IF Buried(d.job) THEN "failed" ELSE status[d.job]
        BY <1>1, <2>1, <2>3
      <3>2. OutcomeOK(d)
        OBVIOUS
      <3> QED
        BY <2>1, <3>1, <3>2 DEF Given, Gone, Mine, OutcomeOK
    <2> QED BY <2>2, <2>3
  <1> QED BY <1>3, <1>4 DEF StoreKeeps

LEMMA AnswerKeeps ==
  ASSUME StoreTypes, \A d \in Delivery : OutcomeOK(d),
         NEW e \in Delivery, NEW op, NEW a, StoreAnswers(op, e, a)
  PROVE  StoreTypes' /\ StoreKeeps /\ \A d \in Delivery : d # e => outcome'[d] = outcome[d]
  <1> DEFINE Goal == /\ StoreTypes' /\ StoreKeeps
                     /\ \A d \in Delivery : d # e => outcome'[d] = outcome[d]
             Done == {"completed", "queued", "failed"}
  <1>0. e.job \in Job /\ e = [job |-> e.job, attempt |-> e.attempt] /\ LeaseDuration \in Nat
    BY RunnerAssumption DEF Delivery
  <1>1. ASSUME a = "lost", UNCHANGED store PROVE Goal
    BY <1>1 DEF store, StoreTypes, StoreKeeps, Given, Gone, Mine, OutcomeOK
  <1>2. ASSUME ~Gone(e), left' = [left EXCEPT ![e.job] = LeaseDuration],
               UNCHANGED <<status, attempts, outcome>>
        PROVE  Goal
    <2>1. StoreTypes'
      BY <1>0, <1>2 DEF StoreTypes
    <2>2. ASSUME NEW d \in Delivery
          PROVE  /\ Given(d) => Given(d)'
                 /\ Given(d) /\ Gone(d) => Gone(d)'
                 /\ Gone(d) => outcome'[d] = outcome[d]
                 /\ OutcomeOK(d)'
      <3>1. d.job \in Job /\ OutcomeOK(d)
        BY DEF Delivery
      <3>2. Gone(d) => Gone(d)'
        <4>1. CASE d.job # e.job
          BY <1>2, <3>1, <4>1 DEF Gone, Mine, StoreTypes
        <4>2. CASE d.job = e.job
          BY <1>2, <3>1, <4>2 DEF Gone, Mine, StoreTypes
        <4> QED BY <4>1, <4>2
      <3> QED BY <1>2, <3>1, <3>2 DEF Given, OutcomeOK
    <2> QED BY <1>2, <2>1, <2>2 DEF StoreKeeps
  <1>3. ASSUME NEW o \in {"acked", "failed"}, NEW s \in Done, o = "acked" => s = "completed",
               ~Gone(e), attempts' = attempts, left' = [left EXCEPT ![e.job] = 0],
               status' = [status EXCEPT ![e.job] = s], outcome' = [outcome EXCEPT ![e] = o]
        PROVE  Goal
    <2>1. StoreTypes'
      BY <1>0, <1>3 DEF StoreTypes, Store!Status
    <2>2. ASSUME NEW d \in Delivery
          PROVE  /\ Given(d) => Given(d)'
                 /\ Given(d) /\ Gone(d) => Gone(d)'
                 /\ Gone(d) => outcome'[d] = outcome[d]
                 /\ OutcomeOK(d)'
      <3>1. d.job \in Job /\ OutcomeOK(d) /\ d.attempt \in Nat /\ attempts[d.job] \in Nat
        BY RunnerAssumption DEF Delivery, StoreTypes
      <3>2. CASE d = e
        BY <1>3, <3>1, <3>2 DEF Given, Gone, Mine, OutcomeOK, StoreTypes
      <3>3. CASE d # e /\ d.job = e.job
        <4>1. outcome'[d] = outcome[d] /\ status'[d.job] = s /\ left'[d.job] = 0
              /\ status[d.job] = "processing" /\ attempts'[d.job] = attempts[d.job]
          BY <1>3, <3>1, <3>3 DEF Gone, Mine, StoreTypes
        <4> QED BY <3>1, <4>1 DEF Given, Gone, Mine, OutcomeOK
      <3>4. CASE d.job # e.job
        <4>1. outcome'[d] = outcome[d] /\ status'[d.job] = status[d.job]
              /\ left'[d.job] = left[d.job] /\ attempts'[d.job] = attempts[d.job]
          BY <1>3, <3>1, <3>4 DEF StoreTypes
        <4> QED BY <3>1, <4>1 DEF Given, Gone, Mine, OutcomeOK
      <3> QED BY <3>2, <3>3, <3>4
    <2>3. \A d \in Delivery : d # e => outcome'[d] = outcome[d]
      BY <1>3 DEF StoreTypes
    <2> QED BY <2>1, <2>2, <2>3 DEF StoreKeeps
  <1> HIDE DEF Goal
  <1>4. \/ a = "lost" /\ UNCHANGED store
        \/ /\ ~Gone(e) /\ left' = [left EXCEPT ![e.job] = LeaseDuration]
           /\ UNCHANGED <<status, attempts, outcome>>
        \/ /\ ~Gone(e) /\ attempts' = attempts /\ left' = [left EXCEPT ![e.job] = 0]
           /\ \E o \in {"acked", "failed"}, s \in Done :
                /\ o = "acked" => s = "completed"
                /\ status' = [status EXCEPT ![e.job] = s]
                /\ outcome' = [outcome EXCEPT ![e] = o]
    <2>1. (IF attempts[e.job] < MaxAttempts THEN "queued" ELSE "failed") \in Done
          /\ "completed" \in Done
      OBVIOUS
    <2> HIDE DEF Done
    <2> QED BY <2>1, AnswerMeans
  <1> HIDE DEF Done
  <1>7. Goal
    BY <1>1, <1>2, <1>3, <1>4
  <1> QED BY <1>7 DEF Goal

LEMMA TickKeeps ==
  ASSUME StoreTypes, \A d \in Delivery : OutcomeOK(d), UNCHANGED <<status, attempts, outcome>>,
         left' = [j \in Job |-> Down(left[j])]
  PROVE  StoreTypes' /\ StoreKeeps
  <1>1. \A j \in Job : Down(left[j]) \in 0..LeaseDuration /\ (left[j] = 0 => Down(left[j]) = 0)
    BY RunnerAssumption DEF StoreTypes, Down
  <1>2. StoreTypes'
    BY <1>1 DEF StoreTypes
  <1>3. ASSUME NEW d \in Delivery
        PROVE  /\ Given(d) => Given(d)'
               /\ Given(d) /\ Gone(d) => Gone(d)'
               /\ Gone(d) => outcome'[d] = outcome[d]
               /\ OutcomeOK(d)'
    <2>1. d.job \in Job /\ OutcomeOK(d)
      BY DEF Delivery
    <2> QED BY <1>1, <2>1 DEF Given, Gone, Mine, OutcomeOK
  <1> QED BY <1>2, <1>3 DEF StoreKeeps

LEMMA StillKeeps ==
  ASSUME \A d \in Delivery : OutcomeOK(d), UNCHANGED store
  PROVE  StoreKeeps
  BY DEF store, StoreKeeps, Given, Gone, Mine, OutcomeOK

-----------------------------------------------------------------------------
(* What a step leaves alone. *)

LEMMA NoReplies == <<>> \in Shape /\ DOMAIN <<>> = {}
  <1>1. <<>> = [d \in {} |-> "lost"] /\ DOMAIN <<>> = {}
    OBVIOUS
  <1>2. <<>> \in [{} -> Answer] /\ {} \in SUBSET Delivery
    BY <1>1
  <1> QED BY <1>1, <1>2 DEF Shape

LEMMA TypedStore == TypeOK => StoreTypes
  BY DEF TypeOK, StoreTypes

LEMMA LeaseTyped ==
  ASSUME NEW r \in Request, r.op # "claim"
  PROVE  r.lease \in Delivery /\ r.by \in Consumer /\ r.op \in {"renew", "ack", "fail"}
  BY DEF Request

LEMMA Untouched ==
  ASSUME StoreKeeps, NEW c \in Consumer, AskedOK(c), ReplyOK(c), batch[c] \subseteq Delivery,
         pc'[c] = pc[c], batch'[c] = batch[c], asked'[c] = asked[c], reply'[c] = reply[c],
         drain'[c] = drain[c], \A d \in batch[c] : outcome'[d] = outcome[d]
  PROVE  AskedOK(c)' /\ ReplyOK(c)'
  <1>1. AskedOK(c)'
    BY DEF AskedOK
  <1>2. ReplyOK(c)'
    <2> SUFFICES ASSUME NEW d \in batch[c]
                 PROVE  /\ Given(d)'
                        /\ d \notin DOMAIN reply[c] => outcome'[d] = "open"
                        /\ d \in DOMAIN reply[c] =>
                             /\ reply[c][d] = "acked" => outcome'[d] = "acked"
                             /\ reply[c][d] \in {"retry", "dead"} => outcome'[d] = "failed"
                             /\ reply[c][d] = "renewed" => outcome'[d] = "open"
                             /\ reply[c][d] = "lost" => outcome'[d] = "open" /\ Gone(d)'
                             /\ pc[c] = "renewing" => reply[c][d] \in {"renewed", "lost"}
      BY DEF ReplyOK
    <2>1. (Given(d) => Given(d)') /\ (Given(d) /\ Gone(d) => Gone(d)')
      BY DEF StoreKeeps
    <2> QED BY <2>1 DEF ReplyOK
  <1> QED BY <1>1, <1>2

LEMMA StrayKept ==
  ASSUME StoreKeeps, NEW r \in Request, StrayOK(r), \A c \in Consumer : batch'[c] \subseteq batch[c]
  PROVE  StrayOK(r)'
  BY LeaseTyped DEF StrayOK, StoreKeeps

LEMMA FateKept ==
  ASSUME StoreKeeps, NEW d \in Delivery, OutcomeOK(d), FateOK(d), fate'[d] = fate[d],
         failed => failed', \A c \in Consumer : pc[c] = "error" => pc'[c] = "error",
         \A c \in Consumer : pc[c] \in Busy /\ d \in batch[c] =>
           pc'[c] = "error" \/ (pc'[c] \in Busy /\ d \in batch'[c])
  PROVE  FateOK(d)'
  <1>1. /\ Given(d) => Given(d)'
        /\ Given(d) /\ Gone(d) => Gone(d)'
        /\ Gone(d) => outcome'[d] = outcome[d]
    BY DEF StoreKeeps
  <1>2. fate[d] = "received" =>
          failed' \/ \E c \in Consumer : pc'[c] = "error" \/ (pc'[c] \in Busy /\ d \in batch'[c])
    BY DEF FateOK
  <1>3. outcome[d] # "open" => Gone(d)
    BY DEF OutcomeOK
  <1> QED BY <1>1, <1>2, <1>3 DEF FateOK

-----------------------------------------------------------------------------
(* The steps of a consumer that leave the store alone. *)

Fates == [Delivery -> {"none", "received", "lost", "abandoned"} \cup Answer]

LEMMA EndStep ==
  ASSUME RunnerInv, NEW c \in Consumer, NEW STATE how, how \in {"look", "done", "error"}, End(c, how),
         UNCHANGED <<store, run>>, pc[c] \notin {"done", "error"}, fate' \in Fates,
         \A d \in Delivery :
           \/ fate'[d] = fate[d] /\ (d \in batch[c] /\ pc[c] \in Busy => how = "error")
           \/ d \in batch[c] /\ fate'[d] = "abandoned"
           \/ d \in batch[c] /\ d \in DOMAIN reply[c] /\ fate'[d] = reply[c][d]
  PROVE  RunnerInv'
  <1> USE DEF RunnerInv, RunnerTypes
  <1>1. /\ pc' = [pc EXCEPT ![c] = how] /\ batch' = [batch EXCEPT ![c] = {}]
        /\ timer' = [timer EXCEPT ![c] = 0] /\ drain' = [drain EXCEPT ![c] = Off]
        /\ stray' = stray \cup asked[c] /\ asked' = [asked EXCEPT ![c] = {}]
        /\ reply' = [reply EXCEPT ![c] = <<>>]
        /\ UNCHANGED <<status, attempts, outcome, left, control, stopping, joined, failed, signals>>
    BY DEF End, store, run
  <1>2. \A e \in Consumer : batch[e] \in SUBSET Delivery /\ asked[e] \in SUBSET Request
    BY DEF TypeOK
  <1>3. \A e \in Consumer : batch'[e] \subseteq batch[e] /\ (e # c => batch'[e] = batch[e])
    BY <1>1 DEF TypeOK
  <1>4. RunnerTypes'
    <2>1. /\ timer' \in [Consumer -> 0..RenewInterval]
          /\ drain' \in [Consumer -> {Off} \cup 0..DrainTimeout]
      <3>1. 0 \in 0..RenewInterval
        BY RunnerAssumption
      <3> QED BY <1>1, <3>1 DEF TypeOK
    <2>2. pc' \in [Consumer -> {"look", "submit", "claiming", "idle", "done", "error"} \cup Busy]
      BY <1>1 DEF TypeOK
    <2>3. /\ batch' \in [Consumer -> SUBSET Delivery] /\ asked' \in [Consumer -> SUBSET Request]
          /\ stray' \subseteq Request
      BY <1>1, <1>2 DEF TypeOK
    <2>4. \A e, f \in Consumer : e # f => batch'[e] \cap batch'[f] = {}
      BY <1>3 DEF TypeOK
    <2>5. \A e \in Consumer : DOMAIN reply'[e] \subseteq batch'[e]
      <3>1. ASSUME NEW e \in Consumer PROVE DOMAIN reply'[e] \subseteq batch'[e]
        <4>1. CASE e = c
          BY <1>1, <4>1, NoReplies
        <4>2. CASE e # c
          BY <1>1, <1>3, <4>2 DEF TypeOK
        <4> QED BY <4>1, <4>2
      <3> QED BY <3>1
    <2>6. \A e \in Consumer : \A d \in DOMAIN reply'[e] : reply'[e][d] \in Answer
      <3>1. ASSUME NEW e \in Consumer PROVE \A d \in DOMAIN reply'[e] : reply'[e][d] \in Answer
        <4>1. CASE e = c
          BY <1>1, <4>1, NoReplies
        <4>2. CASE e # c
          BY <1>1, <4>2 DEF TypeOK
        <4> QED BY <4>1, <4>2
      <3> QED BY <3>1
    <2>7. reply' \in [Consumer -> Shape]
      BY <1>1, NoReplies
    <2> QED
      BY <1>1, <2>1, <2>2, <2>3, <2>4, <2>5, <2>6, <2>7 DEF TypeOK, Fates
  <1>5. StoreKeeps
    BY StillKeeps
  <1>6. \A e \in Consumer : AskedOK(e)' /\ ReplyOK(e)' /\ JoinedOK(e)'
    <2> SUFFICES ASSUME NEW e \in Consumer PROVE AskedOK(e)' /\ ReplyOK(e)' /\ JoinedOK(e)'
      OBVIOUS
    <2>1. CASE e = c
      <3>1. pc'[c] = how /\ batch'[c] = {} /\ asked'[c] = {} /\ reply'[c] = <<>> /\ drain'[c] = Off
        BY <1>1, <1>3 DEF TypeOK
      <3>2. how \notin Leased /\ how \notin Busy /\ how # "claiming" /\ how \notin Awaiting
        BY DEF Leased, Busy, Awaiting
      <3>3. AskedOK(c)' /\ ReplyOK(c)'
        BY <3>1, <3>2 DEF AskedOK, ReplyOK
      <3>4. c \notin joined'
        BY <1>1 DEF JoinedOK
      <3> QED BY <2>1, <3>3, <3>4 DEF JoinedOK
    <2>2. CASE e # c
      <3>1. /\ pc'[e] = pc[e] /\ batch'[e] = batch[e] /\ asked'[e] = asked[e] /\ reply'[e] = reply[e]
            /\ drain'[e] = drain[e] /\ \A d \in batch[e] : outcome'[d] = outcome[d]
        BY <1>1, <2>2 DEF TypeOK
      <3>2. AskedOK(e)' /\ ReplyOK(e)'
        BY <1>2, <1>5, <3>1, Untouched
      <3> QED BY <1>1, <3>1, <3>2 DEF JoinedOK
    <2> QED BY <2>1, <2>2
  <1>7. \A r \in stray' : StrayOK(r)'
    <2> SUFFICES ASSUME NEW r \in stray' PROVE StrayOK(r)'
      OBVIOUS
    <2>1. r \in Request
      BY <1>1, <1>2 DEF TypeOK
    <2>2. CASE r \in stray
      BY <1>3, <1>5, <2>1, <2>2, StrayKept
    <2>3. CASE r \in asked[c] /\ r.op # "claim"
      <3>1. pc[c] \in Awaiting /\ r.lease \in batch[c]
        BY <2>3 DEF AskedOK
      <3>2. Given(r.lease)
        BY <3>1 DEF ReplyOK
      <3>3. Given(r.lease)'
        BY <1>1, <3>2 DEF Given
      <3>4. \A e \in Consumer : r.lease \notin batch'[e]
        BY <1>1, <1>3, <3>1 DEF TypeOK
      <3> QED BY <3>3, <3>4 DEF StrayOK
    <2>4. CASE r.op = "claim"
      BY <2>4 DEF StrayOK
    <2> QED BY <1>1, <2>2, <2>3, <2>4
  <1>8. \A d \in Delivery : OutcomeOK(d)' /\ FateOK(d)'
    <2> SUFFICES ASSUME NEW d \in Delivery PROVE FateOK(d)'
      BY <1>5 DEF StoreKeeps
    <2>0. \A e \in Consumer : (e # c => pc'[e] = pc[e]) /\ (pc[e] = "error" => pc'[e] = "error")
      BY <1>1 DEF TypeOK
    <2>1. CASE fate'[d] = fate[d] /\ (d \in batch[c] /\ pc[c] \in Busy => how = "error")
      <3>1. \A e \in Consumer : pc[e] \in Busy /\ d \in batch[e] =>
              pc'[e] = "error" \/ (pc'[e] \in Busy /\ d \in batch'[e])
        BY <1>1, <1>3, <2>0, <2>1 DEF TypeOK
      <3> QED BY <1>1, <1>5, <2>0, <2>1, <3>1, FateKept
    <2>2. CASE fate'[d] = "abandoned"
      BY <2>2 DEF FateOK
    <2>3. CASE d \in batch[c] /\ d \in DOMAIN reply[c] /\ fate'[d] = reply[c][d]
      <3>1. reply[c][d] \in Answer
        BY <2>3 DEF TypeOK
      <3>2. /\ reply[c][d] = "acked" => outcome[d] = "acked"
            /\ reply[c][d] \in {"retry", "dead"} => outcome[d] = "failed"
            /\ reply[c][d] = "lost" => outcome[d] = "open" /\ Gone(d)
            /\ Given(d)
        BY <2>3 DEF ReplyOK
      <3>3. outcome' = outcome /\ Given(d)' /\ (Gone(d) => Gone(d)')
        BY <1>1, <1>5, <3>2 DEF StoreKeeps
      <3>4. fate'[d] # "received"
        BY <2>3, <3>1 DEF Answer
      <3> QED BY <2>3, <3>2, <3>3, <3>4 DEF FateOK
    <2> QED BY <2>1, <2>2, <2>3
  <1> QED BY <1>4, <1>6, <1>7, <1>8

LEMMA MoveStep ==
  ASSUME RunnerInv, NEW c \in Consumer, NEW l,
         l \in {"look", "submit", "claiming", "idle"} \cup Busy,
         pc' = [pc EXCEPT ![c] = l], pc[c] \notin {"done", "error"}, pc[c] \in Busy => l \in Busy,
         UNCHANGED <<store, run, stray, batch>>,
         timer' \in [Consumer -> 0..RenewInterval],
         drain' \in [Consumer -> {Off} \cup 0..DrainTimeout],
         asked' \in [Consumer -> SUBSET Request],
         reply' = reply \/ reply' = [reply EXCEPT ![c] = <<>>],
         \A e \in Consumer : e # c => drain'[e] = drain[e] /\ asked'[e] = asked[e],
         AskedOK(c)', ReplyOK(c)', fate' \in Fates,
         \A d \in Delivery : \/ fate'[d] = fate[d]
                             \/ d \in batch[c] /\ l \in Busy /\ fate'[d] = "received"
  PROVE  RunnerInv'
  <1> USE DEF RunnerInv, RunnerTypes
  <1>1. UNCHANGED <<status, attempts, outcome, left, control, stopping, joined, failed, signals,
                    stray, batch>>
    BY DEF store, run
  <1>2. \A e \in Consumer : batch[e] \in SUBSET Delivery
    BY DEF TypeOK
  <1>3. \A e \in Consumer : pc'[e] = (IF e = c THEN l ELSE pc[e])
                            /\ reply'[e] \in {<<>>, reply[e]} /\ (e # c => reply'[e] = reply[e])
    BY DEF TypeOK
  <1>4. RunnerTypes'
    <2>1. pc' \in [Consumer -> {"look", "submit", "claiming", "idle", "done", "error"} \cup Busy]
      BY DEF TypeOK
    <2>2. ASSUME NEW e \in Consumer
          PROVE  DOMAIN reply'[e] \subseteq batch[e] /\ \A d \in DOMAIN reply'[e] : reply'[e][d] \in Answer
      <3>1. CASE reply'[e] = <<>>
        BY <3>1, NoReplies
      <3>2. CASE reply'[e] = reply[e]
        BY <3>2 DEF TypeOK
      <3> QED BY <1>3, <3>1, <3>2
    <2>3. reply' \in [Consumer -> Shape]
      BY NoReplies
    <2> QED
      BY <1>1, <2>1, <2>2, <2>3 DEF TypeOK, Fates
  <1>5. StoreKeeps
    BY StillKeeps
  <1>6. ASSUME NEW e \in Consumer PROVE AskedOK(e)' /\ ReplyOK(e)' /\ JoinedOK(e)'
    <2>1. CASE e = c
      <3>1. c \notin joined'
        BY <1>1 DEF JoinedOK
      <3> QED BY <2>1, <3>1 DEF JoinedOK
    <2>2. CASE e # c
      <3>1. /\ pc'[e] = pc[e] /\ batch'[e] = batch[e] /\ asked'[e] = asked[e] /\ reply'[e] = reply[e]
            /\ drain'[e] = drain[e] /\ \A d \in batch[e] : outcome'[d] = outcome[d]
        BY <1>1, <1>3, <2>2
      <3>2. AskedOK(e)' /\ ReplyOK(e)'
        BY <1>2, <1>5, <3>1, Untouched
      <3> QED BY <1>1, <3>1, <3>2 DEF JoinedOK
    <2> QED BY <2>1, <2>2
  <1>7. \A r \in stray' : StrayOK(r)'
    <2>1. \A r \in stray : r \in Request
      BY DEF TypeOK
    <2> QED BY <1>1, <1>5, <2>1, StrayKept
  <1>8. ASSUME NEW d \in Delivery PROVE OutcomeOK(d)' /\ FateOK(d)'
    <2>1. CASE fate'[d] = fate[d]
      <3>1. \A e \in Consumer : pc[e] \in Busy /\ d \in batch[e] => pc'[e] \in Busy /\ d \in batch'[e]
        BY <1>1, <1>3
      <3>2. \A e \in Consumer : pc[e] = "error" => pc'[e] = "error"
        BY <1>3
      <3> QED BY <1>1, <1>5, <2>1, <3>1, <3>2, FateKept DEF StoreKeeps
    <2>2. CASE d \in batch[c] /\ l \in Busy /\ fate'[d] = "received"
      <3>1. pc'[c] \in Busy /\ d \in batch'[c]
        BY <1>1, <1>3, <2>2
      <3>2. FateOK(d)'
        BY <2>2, <3>1 DEF FateOK
      <3> QED BY <1>5, <3>2 DEF StoreKeeps
    <2> QED BY <2>1, <2>2
  <1> QED BY <1>4, <1>6, <1>7, <1>8

\* run_controlled's steps: neither the store nor a consumer is touched.
LEMMA ControlStep ==
  ASSUME RunnerInv, UNCHANGED <<store, worker, stray>>,
         control' \in {"running", "paused", "draining"}, stopping' \in BOOLEAN, failed' \in BOOLEAN,
         joined' \subseteq Consumer, stopping' => control' = "draining", failed => failed',
         \A c \in joined' : c \in joined \/ pc[c] = "done" \/ (pc[c] = "error" /\ failed')
  PROVE  RunnerInv'
  <1> USE DEF RunnerInv, RunnerTypes
  <1>1. UNCHANGED <<status, attempts, outcome, left, pc, batch, timer, drain, asked, reply, fate, stray>>
    BY DEF store, worker
  <1>2. StoreKeeps
    BY StillKeeps
  <1>3. RunnerTypes'
    BY <1>1 DEF TypeOK
  <1>4. ASSUME NEW c \in Consumer PROVE AskedOK(c)' /\ ReplyOK(c)' /\ JoinedOK(c)'
    <2>1. batch[c] \subseteq Delivery
      BY DEF TypeOK
    <2>2. AskedOK(c)' /\ ReplyOK(c)'
      BY <1>1, <1>2, <2>1, Untouched
    <2>3. JoinedOK(c)'
      BY <1>1 DEF JoinedOK
    <2> QED BY <2>2, <2>3
  <1>5. \A r \in stray' : StrayOK(r)'
    <2>1. \A r \in stray : r \in Request
      BY DEF TypeOK
    <2> QED BY <1>1, <1>2, <2>1, StrayKept
  <1>6. ASSUME NEW d \in Delivery PROVE OutcomeOK(d)' /\ FateOK(d)'
    BY <1>1, <1>2, FateKept DEF StoreKeeps
  <1> QED BY <1>3, <1>4, <1>5, <1>6

-----------------------------------------------------------------------------
(* The actions of run_controlled and run_single. *)

LEMMA SignalStep ==
  ASSUME RunnerInv, NEW s \in {"running", "paused", "draining"}, Signal(s)
  PROVE  RunnerInv'
  <1>1. control' \in {"running", "paused", "draining"} /\ (stopping => control' = "draining")
    BY DEF Signal, Set, RunnerInv, RunnerTypes, TypeOK
  <1>2. UNCHANGED <<store, worker, stray, stopping, joined, failed>>
    BY DEF Signal
  <1> QED BY <1>1, <1>2, ControlStep DEF RunnerInv, RunnerTypes, TypeOK

LEMMA ShutdownStep ==
  ASSUME RunnerInv, Shutdown
  PROVE  RunnerInv'
  <1>1. control' = "draining" /\ stopping' = TRUE
    BY DEF Shutdown, StopAll, Set
  <1>2. UNCHANGED <<store, worker, stray, joined, failed>>
    BY DEF Shutdown
  <1> QED BY <1>1, <1>2, ControlStep DEF RunnerInv, RunnerTypes, TypeOK

LEMMA CollectStep ==
  ASSUME RunnerInv, NEW c \in Consumer, Collect(c)
  PROVE  RunnerInv'
  <1>1. /\ control' \in {"running", "paused", "draining"} /\ stopping' \in BOOLEAN
        /\ failed' \in BOOLEAN /\ (stopping' => control' = "draining") /\ (failed => failed')
        /\ pc[c] = "error" => failed'
    BY DEF Collect, StopAll, Set, RunnerInv, RunnerTypes, TypeOK
  <1>2. joined' = joined \cup {c} /\ pc[c] \in {"done", "error"}
        /\ UNCHANGED <<store, worker, stray>>
    BY DEF Collect
  <1>3. joined' \subseteq Consumer
    BY <1>2 DEF RunnerInv, RunnerTypes, TypeOK
  <1> QED BY <1>1, <1>2, <1>3, ControlStep

\* In every state, for consumer c.
LEMMA ConsumerTyped ==
  ASSUME RunnerInv, NEW c \in Consumer
  PROVE  /\ pc[c] \in {"look", "submit", "claiming", "idle", "done", "error"} \cup Busy
         /\ batch[c] \in SUBSET Delivery /\ asked[c] \in SUBSET Request
         /\ timer[c] \in 0..RenewInterval /\ drain[c] \in {Off} \cup 0..DrainTimeout
         /\ DOMAIN reply[c] \subseteq batch[c] /\ fate \in Fates
         /\ AskedOK(c) /\ ReplyOK(c)
         /\ 0 \in 0..RenewInterval /\ RenewInterval \in 0..RenewInterval
  BY RunnerAssumption DEF RunnerInv, RunnerTypes, TypeOK, Fates

LEMMA LookStep ==
  ASSUME RunnerInv, NEW c \in Consumer, Look(c)
  PROVE  RunnerInv'
  <1>1. /\ pc[c] = "look" /\ pc' = [pc EXCEPT ![c] = "submit"]
        /\ UNCHANGED <<store, run, stray, batch, timer, drain, asked, reply, fate>>
    BY DEF Look, Goto
  <1>2. pc'[c] = "submit"
    BY <1>1 DEF RunnerInv, RunnerTypes, TypeOK
  <1>3. AskedOK(c)' /\ ReplyOK(c)'
    BY <1>1, <1>2, ConsumerTyped DEF AskedOK, ReplyOK, Leased, Awaiting, Busy
  <1> QED BY <1>1, <1>3, ConsumerTyped, MoveStep DEF RunnerInv, RunnerTypes, TypeOK, Busy

LEMMA SendClaimStep ==
  ASSUME RunnerInv, NEW c \in Consumer, SendClaim(c)
  PROVE  RunnerInv'
  <1> DEFINE Ask1 == {[by |-> c, op |-> "claim"]}
  <1>1. /\ pc[c] = "submit" /\ pc' = [pc EXCEPT ![c] = "claiming"]
        /\ timer' = [timer EXCEPT ![c] = RenewInterval] /\ asked' = [asked EXCEPT ![c] = Ask1]
        /\ UNCHANGED <<store, run, stray, batch, drain, reply, fate>>
    BY DEF SendClaim, Goto, run
  <1>2. Ask1 \in SUBSET Request
    BY DEF Request
  <1>3. pc'[c] = "claiming" /\ asked'[c] = Ask1
    BY <1>1 DEF RunnerInv, RunnerTypes, TypeOK
  <1>4. batch[c] = {} /\ reply[c] = <<>> /\ drain[c] = Off
    BY <1>1, ConsumerTyped DEF AskedOK, Leased, Awaiting, Busy
  <1>5. AskedOK(c)' /\ ReplyOK(c)'
    BY <1>1, <1>3, <1>4 DEF AskedOK, ReplyOK, Leased, Awaiting, Busy
  <1>6. /\ timer' \in [Consumer -> 0..RenewInterval] /\ asked' \in [Consumer -> SUBSET Request]
        /\ drain' \in [Consumer -> {Off} \cup 0..DrainTimeout]
        /\ \A e \in Consumer : e # c => asked'[e] = asked[e]
    BY <1>1, <1>2, ConsumerTyped DEF RunnerInv, RunnerTypes, TypeOK
  <1> HIDE DEF Ask1
  <1> QED BY <1>1, <1>5, <1>6, ConsumerTyped, MoveStep DEF Busy

LEMMA ClaimedNothingStep ==
  ASSUME RunnerInv, NEW c \in Consumer, ClaimedNothing(c)
  PROVE  RunnerInv'
  <1>1. /\ pc[c] = "claiming" /\ asked[c] = {} /\ batch[c] = {} /\ pc' = [pc EXCEPT ![c] = "idle"]
        /\ timer' = [timer EXCEPT ![c] = 0]
        /\ UNCHANGED <<store, run, stray, batch, drain, asked, reply, fate>>
    BY DEF ClaimedNothing, ClaimAnswered, Goto
  <1>2. pc'[c] = "idle"
    BY <1>1 DEF RunnerInv, RunnerTypes, TypeOK
  <1>3. AskedOK(c)' /\ ReplyOK(c)'
    BY <1>1, <1>2, ConsumerTyped DEF AskedOK, ReplyOK, Leased, Awaiting, Busy
  <1>4. timer' \in [Consumer -> 0..RenewInterval]
    BY <1>1, ConsumerTyped DEF RunnerInv, RunnerTypes, TypeOK
  <1> QED BY <1>1, <1>3, <1>4, ConsumerTyped, MoveStep DEF RunnerInv, RunnerTypes, TypeOK, Busy

LEMMA WakeStep ==
  ASSUME RunnerInv, NEW c \in Consumer, Wake(c)
  PROVE  RunnerInv'
  <1>1. /\ pc[c] = "idle" /\ pc' = [pc EXCEPT ![c] = "look"]
        /\ UNCHANGED <<store, run, stray, batch, timer, drain, asked, reply, fate>>
    BY DEF Wake, Goto
  <1>2. pc'[c] = "look"
    BY <1>1 DEF RunnerInv, RunnerTypes, TypeOK
  <1>3. AskedOK(c)' /\ ReplyOK(c)'
    BY <1>1, <1>2, ConsumerTyped DEF AskedOK, ReplyOK, Leased, Awaiting, Busy
  <1> QED BY <1>1, <1>3, ConsumerTyped, MoveStep DEF RunnerInv, RunnerTypes, TypeOK, Busy

LEMMA StartWorkStep ==
  ASSUME RunnerInv, NEW c \in Consumer, StartWork(c)
  PROVE  RunnerInv'
  <1>1. /\ pc[c] = "claiming" /\ asked[c] = {} /\ pc' = [pc EXCEPT ![c] = "working"]
        /\ timer' = [timer EXCEPT ![c] = RenewInterval]
        /\ fate' = [d \in Delivery |-> IF d \in batch[c] THEN "received" ELSE fate[d]]
        /\ UNCHANGED <<store, run, stray, batch, drain, asked, reply>>
    BY DEF StartWork, ClaimAnswered, Goto, FirstTick
  <1>2. pc'[c] = "working"
    BY <1>1 DEF RunnerInv, RunnerTypes, TypeOK
  <1>3. reply[c] = <<>>
    BY <1>1, ConsumerTyped DEF AskedOK, Awaiting
  <1>4. AskedOK(c)'
    BY <1>1, <1>2, <1>3, ConsumerTyped DEF AskedOK, Leased, Awaiting, Busy
  <1>5. ReplyOK(c)'
    <2>1. UNCHANGED <<attempts, outcome>>
      BY <1>1 DEF store
    <2> QED BY <1>1, <1>3, <2>1, ConsumerTyped, NoReplies DEF ReplyOK, Given
  <1>6. timer' \in [Consumer -> 0..RenewInterval]
    BY <1>1, ConsumerTyped DEF RunnerInv, RunnerTypes, TypeOK
  <1>7. fate' \in Fates
    BY <1>1, ConsumerTyped DEF Fates
  <1>8. \A d \in Delivery : fate'[d] = fate[d] \/ (d \in batch[c] /\ fate'[d] = "received")
    BY <1>1
  <1>9. drain' \in [Consumer -> {Off} \cup 0..DrainTimeout] /\ asked' \in [Consumer -> SUBSET Request]
    BY <1>1 DEF RunnerInv, RunnerTypes, TypeOK
  <1> QED BY <1>1, <1>4, <1>5, <1>6, <1>7, <1>8, <1>9, MoveStep DEF Busy

LEMMA StartDrainStep ==
  ASSUME RunnerInv, NEW c \in Consumer, StartDrain(c)
  PROVE  RunnerInv'
  <1>1. /\ pc[c] \in Busy /\ pc' = [pc EXCEPT ![c] = pc[c]]
        /\ drain' = [drain EXCEPT ![c] = DrainTimeout]
        /\ UNCHANGED <<store, run, stray, pc, batch, timer, asked, reply, fate>>
    BY DEF StartDrain, RunnerInv, RunnerTypes, TypeOK
  <1>2. DrainTimeout \in 0..DrainTimeout
    BY RunnerAssumption
  <1>3. /\ drain' \in [Consumer -> {Off} \cup 0..DrainTimeout]
        /\ \A e \in Consumer : e # c => drain'[e] = drain[e]
    BY <1>1, <1>2 DEF RunnerInv, RunnerTypes, TypeOK
  <1>4. AskedOK(c)'
    BY <1>1, ConsumerTyped DEF AskedOK
  <1>5. ReplyOK(c)'
    <2>1. UNCHANGED <<status, attempts, outcome, left>>
      BY <1>1 DEF store
    <2> QED BY <1>1, <2>1, ConsumerTyped DEF ReplyOK, Given, Gone, Mine
  <1> QED
    BY <1>1, <1>3, <1>4, <1>5, ConsumerTyped, MoveStep DEF RunnerInv, RunnerTypes, TypeOK, Busy

LEMMA AskStep ==
  ASSUME RunnerInv, NEW c \in Consumer, pc[c] = "working", NEW l \in Awaiting, NEW STATE op,
         \A d \in batch[c] : op[d] \in IF l = "renewing" THEN {"renew"} ELSE {"ack", "fail"},
         Ask(c, l, op), UNCHANGED <<store, run, stray, batch, drain, fate>>
  PROVE  RunnerInv'
  <1> DEFINE R == {[by |-> c, op |-> op[d], lease |-> d] : d \in batch[c]}
  <1>1. /\ pc' = [pc EXCEPT ![c] = l] /\ timer' = [timer EXCEPT ![c] = RenewInterval]
        /\ asked' = [asked EXCEPT ![c] = R] /\ reply' = [reply EXCEPT ![c] = <<>>]
    BY DEF Ask, Goto
  <1>2. R \in SUBSET Request
    BY ConsumerTyped DEF Request
  <1>3. pc'[c] = l /\ asked'[c] = R /\ reply'[c] = <<>>
    BY <1>1 DEF RunnerInv, RunnerTypes, TypeOK
  <1>4. /\ \A r \in R : /\ r.op \in IF l = "renewing" THEN {"renew"} ELSE {"ack", "fail"}
                        /\ r.lease \in batch[c]
                        /\ \A s \in R : r.lease = s.lease => r = s
        /\ \A d \in batch[c] : \E r \in R : r.lease = d
    <2>1. \A r \in R : r.lease \in batch[c] /\ r = [by |-> c, op |-> op[r.lease], lease |-> r.lease]
      OBVIOUS
    <2>2. \A d \in batch[c] : [by |-> c, op |-> op[d], lease |-> d] \in R
      OBVIOUS
    <2> HIDE DEF R
    <2>3. \A r \in R : r.op = op[r.lease]
      <3> SUFFICES ASSUME NEW r \in R PROVE r.op = op[r.lease]
        OBVIOUS
      <3> DEFINE e == r.lease
      <3>1. r = [by |-> c, op |-> op[e], lease |-> e]
        BY <2>1
      <3> HIDE DEF e
      <3>2. r.op = op[e]
        BY <3>1
      <3> QED BY <3>2 DEF e
    <2>4. \A d \in batch[c] : \E r \in R : r.lease = d
      BY <2>2
    <2>5. \A r, s \in R : r.lease = s.lease => r = s
      BY <2>1
    <2> QED BY <2>1, <2>3, <2>4, <2>5
  <1> HIDE DEF R
  <1>5. AskedOK(c)'
    BY <1>3, <1>4, NoReplies DEF AskedOK, Leased, Awaiting, Busy
  <1>6. ReplyOK(c)'
    <2>1. UNCHANGED <<attempts, outcome>>
      BY DEF store
    <2>2. reply[c] = <<>>
      BY ConsumerTyped DEF AskedOK, Awaiting
    <2> QED BY <1>3, <2>1, <2>2, ConsumerTyped, NoReplies DEF ReplyOK, Given
  <1>7. /\ timer' \in [Consumer -> 0..RenewInterval] /\ asked' \in [Consumer -> SUBSET Request]
        /\ drain' \in [Consumer -> {Off} \cup 0..DrainTimeout]
        /\ \A e \in Consumer : e # c => asked'[e] = asked[e]
    BY <1>1, <1>2, ConsumerTyped DEF RunnerInv, RunnerTypes, TypeOK
  <1>8. l \in Busy
    BY DEF Awaiting, Busy
  <1> QED BY <1>1, <1>5, <1>6, <1>7, <1>8, ConsumerTyped, MoveStep

LEMMA StartRenewalStep ==
  ASSUME RunnerInv, NEW c \in Consumer, StartRenewal(c)
  PROVE  RunnerInv'
  BY AskStep DEF StartRenewal, Awaiting

LEMMA WorkDoneStep ==
  ASSUME RunnerInv, NEW c \in Consumer, NEW bad \in SUBSET batch[c], WorkDone(c, bad)
  PROVE  RunnerInv'
  BY AskStep DEF WorkDone, Awaiting

LEMMA RenewedStep ==
  ASSUME RunnerInv, NEW c \in Consumer, Renewed(c)
  PROVE  RunnerInv'
  <1>1. /\ pc[c] = "renewing" /\ asked[c] = {} /\ LostOf(c) = {}
        /\ pc' = [pc EXCEPT ![c] = "working"] /\ reply' = [reply EXCEPT ![c] = <<>>]
        /\ UNCHANGED <<store, run, stray, batch, timer, drain, asked, fate>>
    BY DEF Renewed, Answered, Goto
  <1>2. pc'[c] = "working" /\ reply'[c] = <<>>
    BY <1>1 DEF RunnerInv, RunnerTypes, TypeOK
  <1>3. AskedOK(c)'
    BY <1>1, <1>2, ConsumerTyped DEF AskedOK, Leased, Awaiting, Busy
  <1>4. ReplyOK(c)'
    <2>1. UNCHANGED <<attempts, outcome>>
      BY <1>1 DEF store
    <2>2. \A d \in batch[c] : d \in DOMAIN reply[c] => reply[c][d] = "renewed"
      BY <1>1, ConsumerTyped DEF ReplyOK, LostOf
    <2>3. \A d \in batch[c] : outcome[d] = "open" /\ Given(d)
      BY <2>2, ConsumerTyped DEF ReplyOK
    <2> QED BY <1>1, <1>2, <2>1, <2>3, NoReplies DEF ReplyOK, Given
  <1> QED BY <1>1, <1>3, <1>4, ConsumerTyped, MoveStep DEF RunnerInv, RunnerTypes, TypeOK, Busy

\* Every lease of a batch that waits for nothing has its reply.
LEMMA AllAnswered ==
  ASSUME RunnerInv, NEW c \in Consumer, pc[c] \in Awaiting, asked[c] = {}
  PROVE  \A d \in batch[c] : d \in DOMAIN reply[c] /\ reply[c][d] \in Answer
  <1>1. \A d \in batch[c] : d \in DOMAIN reply[c]
    BY ConsumerTyped DEF AskedOK
  <1> QED BY <1>1 DEF RunnerInv, RunnerTypes, TypeOK

LEMMA NextBatchStep ==
  ASSUME RunnerInv, NEW c \in Consumer, NEW STATE report, NextBatch(c, report),
         pc[c] \notin {"done", "error"},
         \A d \in batch[c] :
           \/ report[d] = "abandoned"
           \/ d \in DOMAIN reply[c] /\ report[d] = reply[c][d] /\ reply[c][d] \in Answer
  PROVE  RunnerInv'
  <1> DEFINE how == IF stopping THEN "done" ELSE "look"
  <1>1. /\ End(c, how) /\ UNCHANGED <<store, run>>
        /\ fate' = [d \in Delivery |-> IF d \in batch[c] THEN report[d] ELSE fate[d]]
    BY DEF NextBatch
  <1>2. how \in {"look", "done", "error"}
    OBVIOUS
  <1>3. fate' \in Fates
    BY <1>1, ConsumerTyped DEF Fates
  <1>4. \A d \in Delivery :
           \/ d \notin batch[c] /\ fate'[d] = fate[d]
           \/ d \in batch[c] /\ fate'[d] = "abandoned"
           \/ d \in batch[c] /\ d \in DOMAIN reply[c] /\ fate'[d] = reply[c][d]
    BY <1>1
  <1> HIDE DEF how
  <1> QED BY <1>1, <1>2, <1>3, <1>4, EndStep

LEMMA RenewalLostStep ==
  ASSUME RunnerInv, NEW c \in Consumer, RenewalLost(c)
  PROVE  RunnerInv'
  <1>1. pc[c] \in Awaiting /\ asked[c] = {} /\ NextBatch(c, LostReport(c)) /\ pc[c] \notin {"done", "error"}
    BY DEF RenewalLost, Answered, Awaiting
  <1>2. \A d \in batch[c] :
          \/ LostReport(c)[d] = "abandoned"
          \/ reply[c][d] = "lost" /\ LostReport(c)[d] = "lost"
    <2>1. \A d \in batch[c] : LostReport(c)[d] = IF d \in LostOf(c) THEN "lost" ELSE "abandoned"
      BY DEF LostReport
    <2>2. \A d \in LostOf(c) : reply[c][d] = "lost"
      BY DEF LostOf
    <2> QED BY <2>1, <2>2
  <1>3. \A d \in batch[c] : d \in DOMAIN reply[c] /\ reply[c][d] \in Answer
    BY <1>1, AllAnswered
  <1> QED BY <1>1, <1>2, <1>3, NextBatchStep

LEMMA SettledStep ==
  ASSUME RunnerInv, NEW c \in Consumer, Settled(c)
  PROVE  RunnerInv'
  <1>1. pc[c] \in Awaiting /\ asked[c] = {} /\ NextBatch(c, reply[c]) /\ pc[c] \notin {"done", "error"}
    BY DEF Settled, Answered, Awaiting
  <1> QED BY <1>1, AllAnswered, NextBatchStep

LEMMA DrainTimedOutStep ==
  ASSUME RunnerInv, NEW c \in Consumer, DrainTimedOut(c)
  PROVE  RunnerInv'
  <1>1. drain[c] # Off
    BY RunnerAssumption DEF DrainTimedOut
  <1>2. pc[c] \notin {"done", "error"}
    BY <1>1, ConsumerTyped DEF AskedOK, Busy
  <1> DEFINE report == [d \in batch[c] |-> "abandoned"]
  <1>3. NextBatch(c, report)
    BY DEF DrainTimedOut
  <1>4. \A d \in batch[c] : report[d] = "abandoned"
    OBVIOUS
  <1> HIDE DEF report
  <1> QED BY <1>2, <1>3, <1>4, NextBatchStep

\* The consumer stops waiting: nothing was received, or the run fails.
LEMMA LeaveStep ==
  ASSUME RunnerInv, NEW c \in Consumer, NEW how \in {"done", "error"}, End(c, how),
         UNCHANGED <<store, run, fate>>, pc[c] \notin {"done", "error"},
         pc[c] \in Busy => how = "error"
  PROVE  RunnerInv'
  BY EndStep, ConsumerTyped

LEMMA LookEndsStep ==
  ASSUME RunnerInv, NEW c \in Consumer, LookEnds(c) \/ CancelClaim(c)
  PROVE  RunnerInv'
  <1>1. End(c, "done") /\ UNCHANGED <<store, run, fate>> /\ pc[c] \in {"look", "submit", "claiming", "idle"}
    BY DEF LookEnds, CancelClaim
  <1> QED BY <1>1, LeaveStep DEF Busy

LEMMA OperationFailsStep ==
  ASSUME RunnerInv, NEW c \in Consumer, OperationFails(c)
  PROVE  RunnerInv'
  <1>1. End(c, "error") /\ UNCHANGED <<store, run, fate>> /\ pc[c] \notin {"done", "error"}
    BY DEF OperationFails
  <1> QED BY <1>1, LeaveStep

LEMMA StepStep ==
  ASSUME RunnerInv, NEW c \in Consumer, Step(c)
  PROVE  RunnerInv'
  BY LookStep, LookEndsStep, SendClaimStep, ClaimedNothingStep, WakeStep, StartWorkStep,
     StartDrainStep, StartRenewalStep, RenewedStep, RenewalLostStep, SettledStep, DrainTimedOutStep
  DEF Step

-----------------------------------------------------------------------------
(* The steps of the store and of time. *)

LEMMA ServeClaimStep ==
  ASSUME RunnerInv, NEW c \in Consumer, NEW C \in SUBSET Job, ServeClaim(c, C)
  PROVE  RunnerInv'
  <1> USE DEF RunnerInv, RunnerTypes
  <1> DEFINE B == {[job |-> j, attempt |-> attempts[j] + 1] : j \in C}
  <1>1. /\ pc[c] = "claiming" /\ asked[c] # {} /\ StoreClaims(C)
        /\ batch' = [batch EXCEPT ![c] = B] /\ asked' = [asked EXCEPT ![c] = {}]
        /\ UNCHANGED <<run, stray, pc, timer, drain, reply, fate>>
    BY DEF ServeClaim
  <1>2. StoreTypes' /\ StoreKeeps
    BY <1>1, TypedStore, ClaimKeeps
  <1>3. /\ \A j \in C : attempts[j] < MaxAttempts /\ attempts[j] \in Nat
        /\ attempts' = [j \in Job |-> IF j \in C THEN attempts[j] + 1 ELSE attempts[j]]
        /\ outcome' = outcome
    <2>1. MaxAttempts \in Nat
      BY RunnerAssumption
    <2>2. \A j \in Job : attempts[j] \in Nat
      BY <2>1 DEF TypeOK
    <2> QED BY <1>1, <2>2, TypedStore, ClaimMeans
  <1>4. \A j \in C : attempts[j] + 1 \in 1..MaxAttempts
    BY <1>3, RunnerAssumption
  <1>5. B \in SUBSET Delivery
    BY <1>4 DEF Delivery
  <1>6. \A d \in B : ~Given(d) /\ Given(d)'
    <2> SUFFICES ASSUME NEW j \in C
                 PROVE  /\ ~(attempts[j] + 1 <= attempts[j])
                        /\ attempts[j] + 1 <= attempts'[j]
      BY DEF Given
    <2> QED BY <1>3
  <1> HIDE DEF B
  <1>7. batch[c] = {} /\ reply[c] = <<>> /\ drain[c] = Off
    BY <1>1 DEF AskedOK, Awaiting, Busy
  <1>8. \A e \in Consumer : /\ batch'[e] = IF e = c THEN B ELSE batch[e]
                            /\ asked'[e] = IF e = c THEN {} ELSE asked[e]
                            /\ batch[e] \subseteq Delivery /\ \A d \in batch[e] : Given(d)
    BY <1>1 DEF TypeOK, ReplyOK
  <1>9. RunnerTypes'
    <2>1. \A e, f \in Consumer : e # f => batch'[e] \cap batch'[f] = {}
      BY <1>6, <1>8 DEF TypeOK
    <2>2. batch' \in [Consumer -> SUBSET Delivery] /\ asked' \in [Consumer -> SUBSET Request]
      BY <1>1, <1>5 DEF TypeOK
    <2>3. \A e \in Consumer : DOMAIN reply[e] \subseteq batch'[e]
      <3> SUFFICES ASSUME NEW e \in Consumer PROVE DOMAIN reply[e] \subseteq batch'[e]
        OBVIOUS
      <3>1. CASE e = c
        BY <1>7, <3>1, NoReplies
      <3>2. CASE e # c
        BY <1>8, <3>2 DEF TypeOK
      <3> QED BY <3>1, <3>2
    <2> QED BY <1>1, <1>2, <2>1, <2>2, <2>3 DEF TypeOK, StoreTypes, run
  <1>10. ASSUME NEW e \in Consumer PROVE AskedOK(e)' /\ ReplyOK(e)' /\ JoinedOK(e)'
    <2>1. JoinedOK(e)'
      BY <1>1 DEF JoinedOK, run
    <2>2. CASE e = c
      <3>1. AskedOK(c)'
        BY <1>1, <1>7, <1>8 DEF AskedOK, Leased, Awaiting, Busy
      <3>2. \A d \in B : outcome[d] = "open"
        BY <1>5, <1>6 DEF OutcomeOK
      <3>3. reply'[c] = <<>> /\ batch'[c] = B
        BY <1>1, <1>7, <1>8
      <3>4. ReplyOK(c)'
        BY <1>3, <1>6, <3>2, <3>3, NoReplies DEF ReplyOK
      <3> QED BY <2>1, <2>2, <3>1, <3>4
    <2>3. CASE e # c
      <3>1. AskedOK(e)' /\ ReplyOK(e)'
        BY <1>1, <1>2, <1>3, <1>8, <2>3, Untouched
      <3> QED BY <2>1, <3>1
    <2> QED BY <2>2, <2>3
  <1>11. \A r \in stray' : StrayOK(r)'
    <2> SUFFICES ASSUME NEW r \in stray, r.op # "claim" PROVE StrayOK(r)'
      BY <1>1 DEF StrayOK
    <2>1. r \in Request
      BY DEF TypeOK
    <2>2. Given(r.lease) /\ r.lease \in Delivery /\ \A e \in Consumer : r.lease \notin batch[e]
      BY <2>1, LeaseTyped DEF StrayOK
    <2>3. Given(r.lease)' /\ \A e \in Consumer : r.lease \notin batch'[e]
      BY <1>2, <1>6, <1>8, <2>2 DEF StoreKeeps
    <2> QED BY <2>3 DEF StrayOK
  <1>12. ASSUME NEW d \in Delivery PROVE OutcomeOK(d)' /\ FateOK(d)'
    <2>1. \A e \in Consumer : pc[e] \in Busy /\ d \in batch[e] => pc'[e] \in Busy /\ d \in batch'[e]
      BY <1>1, <1>7, <1>8
    <2> QED BY <1>1, <1>2, <2>1, FateKept DEF StoreKeeps, run
  <1> QED BY <1>9, <1>10, <1>11, <1>12

LEMMA ServeStep ==
  ASSUME RunnerInv, NEW c \in Consumer, NEW r \in asked[c], NEW a \in Answer, Serve(c, r, a)
  PROVE  RunnerInv'
  <1> USE DEF RunnerInv, RunnerTypes
  <1> DEFINE e == r.lease
             New == [d \in DOMAIN reply[c] \cup {e} |-> IF d = e THEN a ELSE reply[c][d]]
  <1>1. /\ pc[c] \in Awaiting /\ StoreAnswers(r.op, e, a)
        /\ asked' = [asked EXCEPT ![c] = asked[c] \ {r}] /\ reply' = [reply EXCEPT ![c] = New]
        /\ UNCHANGED <<run, stray, pc, batch, timer, drain, fate>>
    BY DEF Serve, Awaiting, TypeOK
  <1>2. /\ r.op \in (IF pc[c] = "renewing" THEN {"renew"} ELSE {"ack", "fail"})
        /\ e \in batch[c] /\ e \notin DOMAIN reply[c]
        /\ \A s \in asked[c] : e = s.lease => r = s
    BY <1>1 DEF AskedOK
  <1>3. \A f \in Consumer : batch[f] \subseteq Delivery /\ (f # c => e \notin batch[f])
    BY <1>2 DEF TypeOK
  <1>4. e \in Delivery /\ Given(e) /\ outcome[e] = "open"
    BY <1>2, <1>3 DEF ReplyOK
  <1>5. /\ New \in Shape /\ DOMAIN New = DOMAIN reply[c] \cup {e} /\ New[e] = a
        /\ \A d \in DOMAIN reply[c] : New[d] = reply[c][d]
    <2>1. DOMAIN reply[c] \cup {e} \in SUBSET Delivery
      BY <1>3, <1>4 DEF TypeOK
    <2>2. New \in [DOMAIN reply[c] \cup {e} -> Answer]
      BY DEF TypeOK
    <2>3. \A d \in DOMAIN reply[c] : d # e
      BY <1>2
    <2> QED BY <2>1, <2>2, <2>3 DEF Shape
  <1> HIDE DEF New, e
  <1>6. StoreTypes' /\ StoreKeeps /\ \A d \in Delivery : d # e => outcome'[d] = outcome[d]
    BY <1>1, <1>4, TypedStore, AnswerKeeps
  <1>7. \A f \in Consumer : reply'[f] = (IF f = c THEN New ELSE reply[f])
                            /\ asked'[f] = (IF f = c THEN asked[c] \ {r} ELSE asked[f])
    BY <1>1 DEF TypeOK
  <1>8. RunnerTypes'
    <2>1. reply' \in [Consumer -> Shape] /\ asked' \in [Consumer -> SUBSET Request]
      BY <1>1, <1>5 DEF TypeOK
    <2>2. ASSUME NEW f \in Consumer
          PROVE  DOMAIN reply'[f] \subseteq batch'[f] /\ \A d \in DOMAIN reply'[f] : reply'[f][d] \in Answer
      <3>1. CASE f = c
        BY <1>1, <1>2, <1>5, <1>7, <3>1 DEF TypeOK
      <3>2. CASE f # c
        BY <1>1, <1>7, <3>2 DEF TypeOK
      <3> QED BY <3>1, <3>2
    <2> QED BY <1>1, <1>6, <2>1, <2>2 DEF TypeOK, StoreTypes, run
  \* What the store answered is what it did.
  <1>9. /\ a = "lost" => Gone(e)' /\ outcome'[e] = "open"
        /\ a = "renewed" => outcome'[e] = "open"
        /\ a = "acked" => outcome'[e] = "acked"
        /\ a \in {"retry", "dead"} => outcome'[e] = "failed"
        /\ r.op = "renew" => a \in {"renewed", "lost"}
    BY <1>1, <1>4, TypedStore, AnswerMeans DEF StoreTypes, store, Gone, Mine
  <1>10. AskedOK(c)'
    <2>1. \A s \in asked[c] \ {r} : s.lease # e
      BY <1>2
    <2>2. /\ pc'[c] \in Awaiting /\ pc'[c] = pc[c] /\ batch'[c] = batch[c] /\ drain'[c] = drain[c]
          /\ asked'[c] = asked[c] \ {r} /\ reply'[c] = New
      BY <1>1, <1>7
    <2>3. /\ \A s \in asked'[c] :
               /\ s.op \in (IF pc[c] = "renewing" THEN {"renew"} ELSE {"ack", "fail"})
               /\ s.lease \in batch[c] \ DOMAIN New
               /\ \A t \in asked'[c] : s.lease = t.lease => s = t
          /\ \A d \in batch[c] \ DOMAIN New : \E s \in asked'[c] : s.lease = d
      BY <1>1, <1>5, <2>1, <2>2 DEF AskedOK, e
    <2> QED BY <2>2, <2>3 DEF AskedOK, Awaiting, Leased
  <1>11. ReplyOK(c)'
    <2> SUFFICES ASSUME NEW d \in batch[c]
                 PROVE  /\ Given(d)'
                        /\ d \notin DOMAIN New => outcome'[d] = "open"
                        /\ d \in DOMAIN New =>
                             /\ New[d] = "acked" => outcome'[d] = "acked"
                             /\ New[d] \in {"retry", "dead"} => outcome'[d] = "failed"
                             /\ New[d] = "renewed" => outcome'[d] = "open"
                             /\ New[d] = "lost" => outcome'[d] = "open" /\ Gone(d)'
                             /\ pc[c] = "renewing" => New[d] \in {"renewed", "lost"}
      BY <1>1, <1>7 DEF ReplyOK
    <2>1. d \in Delivery /\ Given(d) /\ (Given(d) => Given(d)') /\ (Gone(d) => Gone(d)')
      BY <1>3, <1>6 DEF StoreKeeps, ReplyOK
    <2>2. CASE d = e
      BY <1>2, <1>5, <1>9, <2>1, <2>2
    <2>3. CASE d # e
      <3>1. outcome'[d] = outcome[d] /\ (d \in DOMAIN New <=> d \in DOMAIN reply[c])
            /\ (d \in DOMAIN New => New[d] = reply[c][d])
        BY <1>5, <1>6, <2>1, <2>3
      <3> QED BY <2>1, <3>1 DEF ReplyOK
    <2> QED BY <2>2, <2>3
  <1>12. ASSUME NEW f \in Consumer PROVE AskedOK(f)' /\ ReplyOK(f)' /\ JoinedOK(f)'
    <2>1. JoinedOK(f)'
      BY <1>1 DEF JoinedOK, run
    <2>2. CASE f # c
      <3>1. \A d \in batch[f] : outcome'[d] = outcome[d]
        BY <1>3, <1>6, <2>2
      <3>2. AskedOK(f)' /\ ReplyOK(f)'
        BY <1>1, <1>3, <1>6, <1>7, <2>2, <3>1, Untouched
      <3> QED BY <2>1, <3>2
    <2> QED BY <1>10, <1>11, <2>1, <2>2
  <1>13. \A s \in stray' : StrayOK(s)'
    <2>1. \A s \in stray : s \in Request
      BY DEF TypeOK
    <2> QED BY <1>1, <1>6, <2>1, StrayKept
  <1>14. ASSUME NEW d \in Delivery PROVE OutcomeOK(d)' /\ FateOK(d)'
    BY <1>1, <1>6, FateKept DEF StoreKeeps, run
  <1> QED BY <1>8, <1>12, <1>13, <1>14

\* A request nobody waits for, and time, change what the store holds only.
LEMMA StoreStep ==
  ASSUME RunnerInv, StoreTypes', StoreKeeps, UNCHANGED <<run, pc, batch, asked, reply, fate>>,
         timer' \in [Consumer -> 0..RenewInterval],
         drain' \in [Consumer -> {Off} \cup 0..DrainTimeout],
         \A c \in Consumer : drain[c] = Off => drain'[c] = Off, stray' \subseteq stray,
         \A c \in Consumer : \A d \in batch[c] : outcome'[d] = outcome[d]
  PROVE  RunnerInv'
  <1> USE DEF RunnerInv, RunnerTypes
  <1>1. RunnerTypes'
    BY DEF TypeOK, StoreTypes, run
  <1>2. ASSUME NEW c \in Consumer PROVE AskedOK(c)' /\ ReplyOK(c)' /\ JoinedOK(c)'
    <2>1. batch[c] \subseteq Delivery
      BY DEF TypeOK
    <2>2. AskedOK(c)'
      BY DEF AskedOK
    <2>3. ReplyOK(c)'
      <3> SUFFICES ASSUME NEW d \in batch[c]
                   PROVE  /\ Given(d)' /\ (Gone(d) => Gone(d)') /\ outcome'[d] = outcome[d]
        BY DEF ReplyOK
      <3> QED BY <2>1 DEF StoreKeeps, ReplyOK
    <2> QED BY <2>2, <2>3 DEF JoinedOK, run
  <1>3. \A r \in stray' : StrayOK(r)'
    <2>1. \A r \in stray : r \in Request
      BY DEF TypeOK
    <2> QED BY <2>1, StrayKept
  <1>4. ASSUME NEW d \in Delivery PROVE OutcomeOK(d)' /\ FateOK(d)'
    BY FateKept DEF StoreKeeps, run
  <1> QED BY <1>1, <1>2, <1>3, <1>4

LEMMA ServeStrayStep ==
  ASSUME RunnerInv, NEW r \in stray, ServeStray(r)
  PROVE  RunnerInv'
  <1> USE DEF RunnerInv, RunnerTypes
  <1>1. /\ stray' = stray \ {r} /\ UNCHANGED <<run, pc, batch, timer, drain, asked, reply, fate>>
    BY DEF ServeStray, worker
  <1>2. r \in Request /\ StrayOK(r) /\ StoreTypes
    BY TypedStore DEF TypeOK
  <1>3. /\ StoreTypes' /\ StoreKeeps
        /\ \A c \in Consumer : \A d \in batch[c] : outcome'[d] = outcome[d]
    <2>1. CASE r.op = "claim"
      <3>1. PICK C \in SUBSET Job : StoreClaims(C)
        BY <2>1 DEF ServeStray
      <3>2. outcome' = outcome
        BY <1>2, <3>1, ClaimMeans
      <3> QED BY <1>2, <3>1, <3>2, ClaimKeeps
    <2>2. CASE r.op # "claim"
      <3>1. PICK a \in Answer : StoreAnswers(r.op, r.lease, a)
        BY <2>2 DEF ServeStray
      <3>2. r.lease \in Delivery /\ \A c \in Consumer : r.lease \notin batch[c]
        BY <1>2, <2>2, LeaseTyped DEF StrayOK
      <3>3. StoreTypes' /\ StoreKeeps /\ \A d \in Delivery : d # r.lease => outcome'[d] = outcome[d]
        BY <1>2, <3>1, <3>2, AnswerKeeps
      <3>4. \A c \in Consumer : batch[c] \subseteq Delivery
        BY DEF TypeOK
      <3> QED BY <3>2, <3>3, <3>4
    <2> QED BY <2>1, <2>2
  <1> QED BY <1>1, <1>3, StoreStep DEF TypeOK

LEMMA TickStep ==
  ASSUME RunnerInv, Tick
  PROVE  RunnerInv'
  <1> USE DEF RunnerInv, RunnerTypes
  <1>1. /\ timer' = [c \in Consumer |-> Down(timer[c])]
        /\ drain' = [c \in Consumer |-> IF drain[c] = Off THEN Off ELSE Down(drain[c])]
        /\ left' = [j \in Job |-> Down(left[j])]
        /\ UNCHANGED <<status, attempts, outcome, run, stray, pc, batch, asked, reply, fate>>
    BY DEF Tick
  <1>2. StoreTypes' /\ StoreKeeps
    BY <1>1, TypedStore, TickKeeps
  <1>3. \A n, m \in Nat : n \in 0..m => Down(n) \in 0..m
    BY DEF Down
  <1>4. timer' \in [Consumer -> 0..RenewInterval] /\ drain' \in [Consumer -> {Off} \cup 0..DrainTimeout]
    BY <1>1, <1>3, RunnerAssumption DEF TypeOK
  <1> QED BY <1>1, <1>2, <1>4, StoreStep

LEMMA RunnerStep == RunnerInv /\ [Next]_vars => RunnerInv'
  <1> SUFFICES ASSUME RunnerInv, [Next]_vars PROVE RunnerInv'
    OBVIOUS
  <1>1. CASE UNCHANGED vars
    <2>1. UNCHANGED <<store, worker, stray, control, stopping, failed, joined>>
      BY <1>1 DEF vars, run
    <2> QED BY <2>1, ControlStep DEF RunnerInv, RunnerTypes, TypeOK
  <1>2. CASE Next
    BY <1>2, TickStep, SignalStep, ShutdownStep, CollectStep, StepStep, OperationFailsStep,
       WorkDoneStep, ServeClaimStep, ServeStep, ServeStrayStep
    DEF Next
  <1> QED BY <1>1, <1>2

LEMMA RunnerInit == Init => RunnerInv
  <1> SUFFICES ASSUME Init PROVE RunnerInv
    OBVIOUS
  <1>1. 0 \in 0..MaxAttempts /\ 0 \in 0..RenewInterval /\ 0 \in 0..LeaseDuration
    BY RunnerAssumption
  <1>2. \A c \in Consumer : reply[c] = <<>> /\ batch[c] = {} /\ asked[c] = {} /\ drain[c] = Off
                           /\ pc[c] = (IF c \in joined THEN "done" ELSE "look")
    BY DEF Init
  <1>3. status \in [Job -> Store!Status]
    BY DEF Init, Store!Status
  <1>4. \A c \in Consumer : /\ DOMAIN reply[c] \subseteq batch[c]
                           /\ \A d \in DOMAIN reply[c] : reply[c][d] \in Answer
    BY <1>2, NoReplies
  <1>5. RunnerTypes
    BY <1>1, <1>3, <1>4, NoReplies DEF Init, RunnerTypes, TypeOK
  <1>6. \A c \in Consumer : AskedOK(c) /\ ReplyOK(c) /\ JoinedOK(c)
    BY <1>2 DEF AskedOK, ReplyOK, JoinedOK, Awaiting
  <1>7. \A d \in Delivery : OutcomeOK(d) /\ FateOK(d)
    BY DEF Init, OutcomeOK, FateOK
  <1> QED BY <1>5, <1>6, <1>7 DEF RunnerInv, Init

LEMMA RunnerInvAlways == Spec => []RunnerInv
  BY RunnerInit, RunnerStep, PTL DEF Spec

(* TypeOK: the state is well typed, a stopped run is draining, no delivery  *)
(* is in the batches of two consumers, and a reply is to a lease held.      *)
THEOREM RunnerTypeCorrect == Spec => []TypeOK
  BY RunnerInvAlways, PTL DEF RunnerInv, RunnerTypes

(* ReportIsTrue: whatever times out, lapses or fails, a run that returns Ok *)
(* tells of each delivery what the store did with it.                       *)
THEOREM ReportIsTrueCorrect == Spec => []ReportIsTrue
  <1>1. RunnerInv => ReportIsTrue
    <2> SUFFICES ASSUME RunnerInv, Returned, ~failed, NEW d \in Delivery
                 PROVE  /\ fate[d] # "received"
                        /\ fate[d] = "acked" => outcome[d] = "acked"
                        /\ fate[d] \in {"retry", "dead"} => outcome[d] = "failed"
                        /\ fate[d] = "lost" => outcome[d] = "open"
      BY DEF ReportIsTrue
    <2>1. \A c \in Consumer : pc[c] = "done"
      BY DEF RunnerInv, JoinedOK, Returned
    <2> QED BY <2>1 DEF RunnerInv, FateOK, Busy
  <1> QED BY <1>1, RunnerInvAlways, PTL

(* CompletedOnce: an acknowledgement completes the job for good, so no      *)
(* second delivery of it is ever reported completed.                        *)
THEOREM CompletedOnceCorrect == Spec => []CompletedOnce
  <1>1. RunnerInv => CompletedOnce
    <2> SUFFICES ASSUME RunnerInv, NEW d \in Delivery, NEW e \in Delivery,
                        d.job = e.job, fate[d] = "acked", fate[e] = "acked"
                 PROVE  d = e
      BY DEF CompletedOnce
    <2>1. attempts[d.job] = d.attempt /\ attempts[e.job] = e.attempt
      BY DEF RunnerInv, FateOK, OutcomeOK
    <2> QED BY <2>1 DEF Delivery
  <1> QED BY <1>1, RunnerInvAlways, PTL

-----------------------------------------------------------------------------
(* Leases and timers, with an executor that is in time. *)

\* A lease that has not run out is left to its holder.
LEMMA ClaimElsewhere ==
  ASSUME StoreTypes, NEW C \in SUBSET Job, StoreClaims(C),
         NEW d \in Delivery, Mine(d), left[d.job] # 0
  PROVE  /\ status'[d.job] = status[d.job] /\ attempts'[d.job] = attempts[d.job]
         /\ left'[d.job] = left[d.job]
  <1>1. d.job \in Job
    BY DEF Delivery
  <1> QED BY <1>1, ClaimMeans DEF Mine

LEMMA AnswerElsewhere ==
  ASSUME StoreTypes, NEW e \in Delivery, NEW op, NEW a, StoreAnswers(op, e, a),
         NEW d \in Delivery, Mine(d), d # e
  PROVE  /\ status'[d.job] = status[d.job] /\ attempts'[d.job] = attempts[d.job]
         /\ left'[d.job] = left[d.job]
  <1>1. d.job \in Job /\ e.job \in Job
    BY DEF Delivery
  <1>2. CASE Gone(e)
    BY <1>2, AnswerMeans DEF store
  <1>3. CASE ~Gone(e)
    <2>1. d.job # e.job
      BY <1>3 DEF Gone, Mine, Delivery
    <2> QED BY <1>1, <1>3, <2>1, AnswerMeans DEF store, StoreTypes
  <1> QED BY <1>2, <1>3

LEMMA Numbers ==
  ASSUME RunnerInv, NEW c \in Consumer, NEW d \in Delivery
  PROVE  /\ left[d.job] \in Nat /\ timer[c] \in Nat /\ timer[c] <= RenewInterval
         /\ RenewInterval \in Nat \ {0} /\ LeaseDuration \in Nat
         /\ 3 * RenewInterval <= LeaseDuration
  BY RunnerAssumption DEF RunnerInv, RunnerTypes, TypeOK, Delivery

LEMMA SafeIsLive ==
  ASSUME RunnerInv, NEW c \in Consumer, NEW d \in Delivery,
         \/ Safe(c, d, 1)
         \/ Safe(c, d, 2)
         \/ Safe(c, d, 3) /\ timer[c] > 0
  PROVE  Mine(d) /\ left[d.job] # 0
  BY Numbers DEF Safe

LEMMA LeaseKept ==
  ASSUME RunnerInv, NEW c \in Consumer, LeaseOK(c), pc'[c] = pc[c], batch'[c] = batch[c],
         reply'[c] = reply[c], timer'[c] = timer[c],
         \A d \in batch[c] : Mine(d) /\ left[d.job] # 0 =>
            /\ status'[d.job] = status[d.job] /\ attempts'[d.job] = attempts[d.job]
            /\ left'[d.job] = left[d.job]
  PROVE  LeaseOK(c)'
  <1> SUFFICES ASSUME NEW d \in batch[c]
               PROVE  /\ pc[c] = "claiming" => Safe(c, d, 1)'
                      /\ pc[c] = "working" => Safe(c, d, 2)'
                      /\ pc[c] = "renewing" =>
                           IF d \in DOMAIN reply[c] THEN reply[c][d] = "renewed" /\ Safe(c, d, 2)'
                                                    ELSE timer[c] > 0 => Safe(c, d, 3)'
    BY DEF LeaseOK
  <1>1. d \in Delivery
    BY DEF RunnerInv, RunnerTypes, TypeOK
  <1>2. /\ Safe(c, d, 1) => Safe(c, d, 1)'
        /\ Safe(c, d, 2) => Safe(c, d, 2)'
        /\ Safe(c, d, 3) /\ timer[c] > 0 => Safe(c, d, 3)'
    BY <1>1, SafeIsLive DEF Safe, Mine
  <1> QED BY <1>2 DEF LeaseOK

\* A step of consumer c that leaves the store alone.
LEMMA OwnStep ==
  ASSUME RunnerInv, \A e \in Consumer : LeaseOK(e), NEW c \in Consumer, UNCHANGED store,
         \A e \in Consumer : e # c => /\ pc'[e] = pc[e] /\ batch'[e] = batch[e]
                                     /\ reply'[e] = reply[e] /\ timer'[e] = timer[e],
         LeaseOK(c)'
  PROVE  \A e \in Consumer : LeaseOK(e)'
  <1>1. ASSUME NEW e \in Consumer, e # c PROVE LeaseOK(e)'
    BY <1>1, LeaseKept DEF store
  <1> QED BY <1>1

LEMMA EndLease ==
  ASSUME RunnerInv, \A e \in Consumer : LeaseOK(e), NEW c \in Consumer, NEW STATE how,
         End(c, how), UNCHANGED store
  PROVE  \A e \in Consumer : LeaseOK(e)'
  <1>1. \A e \in Consumer : e # c => /\ pc'[e] = pc[e] /\ batch'[e] = batch[e]
                                    /\ reply'[e] = reply[e] /\ timer'[e] = timer[e]
    BY DEF End, RunnerInv, RunnerTypes, TypeOK
  <1>2. batch'[c] = {}
    BY DEF End, RunnerInv, RunnerTypes, TypeOK
  <1>3. LeaseOK(c)'
    BY <1>2 DEF LeaseOK
  <1> QED BY <1>1, <1>3, OwnStep

LEMMA StepLease ==
  ASSUME RunnerInv, \A e \in Consumer : LeaseOK(e), NEW c \in Consumer, Step(c)
  PROVE  \A e \in Consumer : LeaseOK(e)'
  <1> DEFINE Goal == \A e \in Consumer : LeaseOK(e)'
             Others == \A e \in Consumer : e # c => /\ pc'[e] = pc[e] /\ batch'[e] = batch[e]
                                                   /\ reply'[e] = reply[e] /\ timer'[e] = timer[e]
  <1>0. \A d \in batch[c] : d \in Delivery
    BY DEF RunnerInv, RunnerTypes, TypeOK
  <1>1. ASSUME LookEnds(c) \/ CancelClaim(c) PROVE Goal
    BY <1>1, EndLease DEF LookEnds, CancelClaim
  <1>2. ASSUME NEW STATE report, NextBatch(c, report) PROVE Goal
    BY <1>2, EndLease DEF NextBatch
  <1>3. ASSUME NEW l \in {"submit", "idle", "look"}, pc' = [pc EXCEPT ![c] = l],
               UNCHANGED <<store, batch, reply>>, \A e \in Consumer : e # c => timer'[e] = timer[e]
        PROVE  Goal
    <2>1. Others /\ pc'[c] = l
      BY <1>3 DEF RunnerInv, RunnerTypes, TypeOK
    <2>2. LeaseOK(c)'
      BY <1>3, <2>1 DEF LeaseOK
    <2> QED BY <1>3, <2>1, <2>2, OwnStep
  <1>4. ASSUME SendClaim(c) PROVE Goal
    <2>1. Others /\ batch' = batch /\ UNCHANGED store /\ pc[c] = "submit"
      BY <1>4 DEF SendClaim, Goto, RunnerInv, RunnerTypes, TypeOK
    <2>2. batch[c] = {}
      BY <2>1, ConsumerTyped DEF AskedOK, Leased, Awaiting
    <2>3. LeaseOK(c)'
      BY <2>1, <2>2 DEF LeaseOK
    <2> QED BY <2>1, <2>3, OwnStep
  <1>5. ASSUME StartWork(c) PROVE Goal
    <2>1. /\ pc[c] = "claiming" /\ pc'[c] = "working" /\ timer'[c] = RenewInterval
          /\ UNCHANGED <<store, batch, reply>> /\ Others
      BY <1>5 DEF StartWork, ClaimAnswered, Goto, FirstTick, RunnerInv, RunnerTypes, TypeOK
    <2>2. ASSUME NEW d \in batch[c] PROVE Safe(c, d, 2)'
      <3>1. Safe(c, d, 1)
        BY <2>1 DEF LeaseOK
      <3> QED BY <1>0, <2>1, <3>1, Numbers DEF Safe, Mine, store
    <2>3. LeaseOK(c)'
      BY <2>1, <2>2 DEF LeaseOK
    <2> QED BY <2>1, <2>3, OwnStep
  <1>6. ASSUME StartDrain(c) PROVE Goal
    <2>1. UNCHANGED <<store, pc, batch, reply, timer>>
      BY <1>6 DEF StartDrain
    <2> QED BY <2>1, LeaseKept DEF store
  <1>7. ASSUME StartRenewal(c) PROVE Goal
    <2>1. /\ pc[c] = "working" /\ timer[c] = 0 /\ pc'[c] = "renewing" /\ timer'[c] = RenewInterval
          /\ reply'[c] = <<>> /\ UNCHANGED <<store, batch>> /\ Others
      BY <1>7 DEF StartRenewal, Ask, Goto, RunnerInv, RunnerTypes, TypeOK
    <2>2. ASSUME NEW d \in batch[c] PROVE Safe(c, d, 3)'
      <3>1. Safe(c, d, 2)
        BY <2>1 DEF LeaseOK
      <3> QED BY <1>0, <2>1, <3>1, Numbers DEF Safe, Mine, store
    <2>3. LeaseOK(c)'
      BY <2>1, <2>2, NoReplies DEF LeaseOK
    <2> QED BY <2>1, <2>3, OwnStep
  <1>8. ASSUME Renewed(c) PROVE Goal
    <2>1. /\ pc[c] = "renewing" /\ asked[c] = {} /\ pc'[c] = "working"
          /\ UNCHANGED <<store, batch, timer>> /\ Others
      BY <1>8 DEF Renewed, Answered, Goto, RunnerInv, RunnerTypes, TypeOK
    <2>2. ASSUME NEW d \in batch[c] PROVE Safe(c, d, 2)'
      <3>1. d \in DOMAIN reply[c]
        BY <2>1, AllAnswered DEF Awaiting
      <3>2. Safe(c, d, 2)
        BY <2>1, <3>1 DEF LeaseOK
      <3> QED BY <2>1, <3>2 DEF Safe, Mine, store
    <2>3. LeaseOK(c)'
      BY <2>1, <2>2 DEF LeaseOK
    <2> QED BY <2>1, <2>3, OwnStep
  <1> HIDE DEF Goal
  <1>9. Look(c) \/ Wake(c) \/ ClaimedNothing(c) => Goal
    <2>1. Look(c) => Goal
      BY <1>3 DEF Look, Goto
    <2>2. Wake(c) => Goal
      BY <1>3 DEF Wake, Goto
    <2>3. ASSUME ClaimedNothing(c) PROVE \A e \in Consumer : e # c => timer'[e] = timer[e]
      BY <2>3 DEF ClaimedNothing, RunnerInv, RunnerTypes, TypeOK
    <2>4. ClaimedNothing(c) => Goal
      BY <1>3, <2>3 DEF ClaimedNothing, Goto
    <2> QED BY <2>1, <2>2, <2>4
  <1>10. Settled(c) \/ RenewalLost(c) => Goal
    BY <1>2 DEF Settled, RenewalLost
  <1>11. DrainTimedOut(c) => Goal
    <2> DEFINE report == [d \in batch[c] |-> "abandoned"]
    <2>1. DrainTimedOut(c) => NextBatch(c, report)
      BY DEF DrainTimedOut
    <2> HIDE DEF report
    <2> QED BY <1>2, <2>1
  <1>12. Goal
    BY <1>1, <1>4, <1>5, <1>6, <1>7, <1>8, <1>9, <1>10, <1>11 DEF Step
  <1> QED BY <1>12 DEF Goal

LEMMA WorkDoneLease ==
  ASSUME RunnerInv, \A e \in Consumer : LeaseOK(e), NEW c \in Consumer,
         NEW bad \in SUBSET batch[c], WorkDone(c, bad)
  PROVE  \A e \in Consumer : LeaseOK(e)'
  <1>1. /\ pc' = [pc EXCEPT ![c] = "settling"] /\ timer' = [timer EXCEPT ![c] = RenewInterval]
        /\ reply' = [reply EXCEPT ![c] = <<>>] /\ UNCHANGED <<store, batch>>
    BY DEF WorkDone, Ask, Goto
  <1>2. /\ pc'[c] = "settling"
        /\ \A e \in Consumer : e # c => /\ pc'[e] = pc[e] /\ batch'[e] = batch[e]
                                       /\ reply'[e] = reply[e] /\ timer'[e] = timer[e]
    BY <1>1 DEF RunnerInv, RunnerTypes, TypeOK
  <1>3. LeaseOK(c)'
    BY <1>2 DEF LeaseOK
  <1> QED BY <1>1, <1>2, <1>3, OwnStep

LEMMA ServeClaimLease ==
  ASSUME RunnerInv, \A e \in Consumer : LeaseOK(e), NEW c \in Consumer,
         NEW C \in SUBSET Job, ServeClaim(c, C)
  PROVE  \A e \in Consumer : LeaseOK(e)'
  <1> DEFINE B == {[job |-> j, attempt |-> attempts[j] + 1] : j \in C}
  <1>1. /\ pc[c] = "claiming" /\ StoreClaims(C) /\ batch' = [batch EXCEPT ![c] = B]
        /\ UNCHANGED <<pc, timer, reply>>
    BY DEF ServeClaim
  <1>2. StoreTypes /\ \A e \in Consumer : batch[e] \subseteq Delivery
    BY TypedStore DEF RunnerInv, RunnerTypes, TypeOK
  <1>3. batch'[c] = B
    BY <1>1 DEF RunnerInv, RunnerTypes, TypeOK
  <1>4. ASSUME NEW e \in Consumer, e # c PROVE LeaseOK(e)'
    <2>1. batch'[e] = batch[e]
      BY <1>1, <1>4 DEF RunnerInv, RunnerTypes, TypeOK
    <2>2. \A d \in batch[e] : Mine(d) /\ left[d.job] # 0 =>
            /\ status'[d.job] = status[d.job] /\ attempts'[d.job] = attempts[d.job]
            /\ left'[d.job] = left[d.job]
      BY <1>1, <1>2, ClaimElsewhere
    <2> QED BY <1>1, <2>1, <2>2, LeaseKept
  <1>5. ASSUME NEW d \in B PROVE Safe(c, d, 1)'
    <2>1. PICK j \in C : d = [job |-> j, attempt |-> attempts[j] + 1]
      OBVIOUS
    <2>2. /\ status'[j] = "processing" /\ attempts'[j] = attempts[j] + 1 /\ left'[j] = LeaseDuration
      <3>1. attempts[j] < MaxAttempts /\ attempts[j] \in Nat /\ MaxAttempts \in Nat
        BY <1>1, <1>2, ClaimMeans, RunnerAssumption DEF StoreTypes
      <3> QED BY <1>1, <1>2, <3>1, ClaimMeans
    <2>3. timer'[c] = timer[c] /\ timer[c] \in Nat /\ timer[c] <= RenewInterval
          /\ RenewInterval \in Nat /\ LeaseDuration \in Nat
      BY <1>1, RunnerAssumption DEF RunnerInv, RunnerTypes, TypeOK
    <2>4. d.job = j /\ d.attempt = attempts'[j]
      BY <2>1, <2>2
    <2> QED BY <2>2, <2>3, <2>4 DEF Safe, Mine
  <1> HIDE DEF B
  <1>6. LeaseOK(c)'
    BY <1>1, <1>3, <1>5 DEF LeaseOK
  <1> QED BY <1>4, <1>6

LEMMA ServeLease ==
  ASSUME Prompt, RunnerInv, \A e \in Consumer : LeaseOK(e), NEW c \in Consumer,
         NEW r \in asked[c], NEW a \in Answer, Serve(c, r, a)
  PROVE  \A e \in Consumer : LeaseOK(e)'
  <1> DEFINE l == r.lease
             New == [d \in DOMAIN reply[c] \cup {l} |-> IF d = l THEN a ELSE reply[c][d]]
  <1>1. /\ pc[c] \in Awaiting /\ timer[c] > 0 /\ StoreAnswers(r.op, l, a)
        /\ reply' = [reply EXCEPT ![c] = New] /\ UNCHANGED <<pc, batch, timer>>
    BY DEF Serve, InTime, Awaiting, RunnerInv, RunnerTypes, TypeOK
  <1>2. /\ l \in batch[c] /\ l \notin DOMAIN reply[c] /\ l \in Delivery
        /\ pc[c] = "renewing" => r.op = "renew"
    BY <1>1, ConsumerTyped DEF AskedOK
  <1>3. /\ DOMAIN New = DOMAIN reply[c] \cup {l} /\ New[l] = a
        /\ \A d \in DOMAIN reply[c] : New[d] = reply[c][d]
    BY <1>2
  <1> HIDE DEF New, l
  <1>4. StoreTypes /\ \A e \in Consumer : batch[e] \subseteq Delivery
    BY TypedStore DEF RunnerInv, RunnerTypes, TypeOK
  <1>5. \A d \in Delivery : d # l /\ Mine(d) =>
            /\ status'[d.job] = status[d.job] /\ attempts'[d.job] = attempts[d.job]
            /\ left'[d.job] = left[d.job]
    BY <1>1, <1>2, <1>4, AnswerElsewhere
  <1>6. ASSUME NEW e \in Consumer, e # c PROVE LeaseOK(e)'
    <2>1. reply'[e] = reply[e] /\ l \notin batch[e]
      BY <1>1, <1>2, <1>6 DEF RunnerInv, RunnerTypes, TypeOK
    <2> QED BY <1>1, <1>4, <1>5, <2>1, LeaseKept
  <1>7. ASSUME pc[c] = "renewing" PROVE LeaseOK(c)'
    <2>1. reply'[c] = New /\ pc'[c] = "renewing" /\ batch'[c] = batch[c] /\ timer'[c] = timer[c]
      BY <1>1, <1>7 DEF RunnerInv, RunnerTypes, TypeOK
    <2>2. a = "renewed" /\ Safe(c, l, 2)'
      <3>1. Safe(c, l, 3)
        BY <1>1, <1>2, <1>7 DEF LeaseOK
      <3>2. Mine(l) /\ left[l.job] # 0
        BY <1>1, <1>2, <3>1, SafeIsLive
      <3>3. /\ a = "renewed" /\ left' = [left EXCEPT ![l.job] = LeaseDuration]
            /\ UNCHANGED <<status, attempts>>
        BY <1>1, <1>2, <1>4, <1>7, <3>2, AnswerMeans DEF Gone
      <3>4. left'[l.job] = LeaseDuration
        BY <1>2, <1>4, <3>3 DEF StoreTypes, Delivery
      <3> QED BY <1>2, <2>1, <3>2, <3>3, <3>4, Numbers DEF Safe, Mine
    <2>3. ASSUME NEW d \in batch[c], d # l
          PROVE  IF d \in DOMAIN New THEN New[d] = "renewed" /\ Safe(c, d, 2)'
                                     ELSE timer[c] > 0 => Safe(c, d, 3)'
      <3>1. d \in Delivery /\ (d \in DOMAIN New <=> d \in DOMAIN reply[c])
        BY <1>3, <1>4, <2>3
      <3>2. /\ Safe(c, d, 2) => Safe(c, d, 2)'
            /\ Safe(c, d, 3) => Safe(c, d, 3)'
        BY <1>5, <2>1, <2>3, <3>1 DEF Safe, Mine
      <3> QED BY <1>3, <1>7, <3>1, <3>2 DEF LeaseOK
    <2>4. \A d \in batch[c] : IF d \in DOMAIN New THEN New[d] = "renewed" /\ Safe(c, d, 2)'
                                                  ELSE timer[c] > 0 => Safe(c, d, 3)'
      BY <1>3, <2>2, <2>3
    <2> QED BY <2>1, <2>4 DEF LeaseOK
  <1>8. ASSUME pc[c] = "settling" PROVE LeaseOK(c)'
    BY <1>1, <1>8 DEF LeaseOK
  <1> QED BY <1>1, <1>6, <1>7, <1>8 DEF Awaiting

LEMMA ServeStrayLease ==
  ASSUME RunnerInv, \A e \in Consumer : LeaseOK(e), NEW r \in stray, ServeStray(r)
  PROVE  \A e \in Consumer : LeaseOK(e)'
  <1> SUFFICES ASSUME NEW e \in Consumer PROVE LeaseOK(e)'
    OBVIOUS
  <1>1. /\ UNCHANGED <<pc, batch, timer, reply>> /\ StoreTypes /\ batch[e] \subseteq Delivery
        /\ r \in Request /\ StrayOK(r)
    BY TypedStore DEF ServeStray, worker, RunnerInv, RunnerTypes, TypeOK
  <1>2. ASSUME NEW d \in batch[e], Mine(d), left[d.job] # 0
        PROVE  /\ status'[d.job] = status[d.job] /\ attempts'[d.job] = attempts[d.job]
               /\ left'[d.job] = left[d.job]
    <2>1. CASE r.op = "claim"
      <3>1. PICK C \in SUBSET Job : StoreClaims(C)
        BY <2>1 DEF ServeStray
      <3> QED BY <1>1, <1>2, <3>1, ClaimElsewhere
    <2>2. CASE r.op # "claim"
      <3>1. PICK a \in Answer : StoreAnswers(r.op, r.lease, a)
        BY <2>2 DEF ServeStray
      <3>2. r.lease \in Delivery /\ r.lease # d
        BY <1>1, <2>2, LeaseTyped DEF StrayOK
      <3> QED BY <1>1, <1>2, <3>1, <3>2, AnswerElsewhere
    <2> QED BY <2>1, <2>2
  <1> QED BY <1>1, <1>2, LeaseKept

LEMMA TickLease ==
  ASSUME Prompt, RunnerInv, \A e \in Consumer : LeaseOK(e), Tick
  PROVE  \A e \in Consumer : LeaseOK(e)'
  <1> SUFFICES ASSUME NEW c \in Consumer PROVE LeaseOK(c)'
    OBVIOUS
  <1>1. /\ timer'[c] = Down(timer[c]) /\ left' = [j \in Job |-> Down(left[j])]
        /\ UNCHANGED <<status, attempts, pc, batch, reply>>
        /\ pc[c] \in {"claiming", "working", "renewing"} => timer[c] # 0
        /\ batch[c] \subseteq Delivery
    BY DEF Tick, Overdue, Busy, RunnerInv, RunnerTypes, TypeOK
  <1> SUFFICES ASSUME NEW d \in batch[c], pc[c] \in {"claiming", "working", "renewing"}
               PROVE  /\ Safe(c, d, 1) => Safe(c, d, 1)'
                      /\ Safe(c, d, 2) => Safe(c, d, 2)'
                      /\ Safe(c, d, 3) => Safe(c, d, 3)'
                      /\ timer[c] > 0
    BY <1>1 DEF LeaseOK
  <1>2. d \in Delivery /\ d.job \in Job
    BY <1>1 DEF Delivery
  <1>3. left'[d.job] = Down(left[d.job])
    BY <1>1, <1>2
  <1>4. timer[c] > 0 /\ timer'[c] = timer[c] - 1
    BY <1>1, <1>2, Numbers DEF Down
  <1>5. left[d.job] # 0 => left'[d.job] = left[d.job] - 1
    BY <1>3 DEF Down
  <1>6. Mine(d) => Mine(d)'
    BY <1>1 DEF Mine
  <1> QED BY <1>2, <1>4, <1>5, <1>6, Numbers DEF Safe

LEMMA PromptStep ==
  ASSUME Prompt
  PROVE  PromptInv /\ [Next]_vars => PromptInv'
  <1> SUFFICES ASSUME RunnerInv, \A e \in Consumer : LeaseOK(e), [Next]_vars
               PROVE  \A e \in Consumer : LeaseOK(e)'
    BY RunnerStep DEF PromptInv
  <1>1. ASSUME UNCHANGED <<store, worker>> PROVE \A e \in Consumer : LeaseOK(e)'
    BY <1>1, LeaseKept DEF store, worker
  <1>2. ASSUME NEW c \in Consumer, OperationFails(c) PROVE \A e \in Consumer : LeaseOK(e)'
    BY <1>2, EndLease DEF OperationFails
  <1>3. CASE UNCHANGED vars
    BY <1>1, <1>3 DEF vars
  <1>4. ASSUME \/ \E s \in {"running", "paused", "draining"} : Signal(s)
               \/ Shutdown
               \/ \E c \in Consumer : Collect(c)
        PROVE  UNCHANGED <<store, worker>>
    BY <1>4 DEF Signal, Shutdown, Collect
  <1>5. CASE Next
    BY <1>1, <1>2, <1>4, <1>5, TickLease, StepLease, WorkDoneLease, ServeClaimLease, ServeLease,
       ServeStrayLease
    DEF Next
  <1> QED BY <1>3, <1>5

(* LeasesOutliveWork: renew_interval <= lease_duration / 3 is enough for    *)
(* every lease duration, number of consumers and batch size, as long as the *)
(* executor serves its timers in time.                                      *)
THEOREM LeasesOutliveWorkCorrect ==
  ASSUME Prompt
  PROVE  Spec => []LeasesOutliveWork
  <1>1. Init => PromptInv
    BY RunnerInit DEF Init, PromptInv, LeaseOK
  <1>2. PromptInv /\ [Next]_vars => PromptInv'
    BY PromptStep
  <1>3. PromptInv => LeasesOutliveWork
    <2> SUFFICES ASSUME PromptInv, NEW c \in Consumer, NEW d \in batch[c],
                        pc[c] = "working" \/ (pc[c] = "renewing" /\ timer[c] > 0)
                 PROVE  Store!Holds(d.job, d)
      BY DEF LeasesOutliveWork
    <2>1. RunnerInv /\ d \in Delivery
      BY DEF PromptInv, RunnerInv, RunnerTypes, TypeOK
    <2>2. Safe(c, d, 2) \/ (Safe(c, d, 3) /\ timer[c] > 0)
      BY DEF PromptInv, LeaseOK
    <2>3. Mine(d) /\ left[d.job] # 0
      BY <2>1, <2>2, SafeIsLive
    <2> QED BY <2>1, <2>3, HoldsIsNotGone DEF Gone
  <1> QED BY <1>1, <1>2, <1>3, PTL DEF Spec
=============================================================================
