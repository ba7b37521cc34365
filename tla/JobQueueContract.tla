-------------------------- MODULE JobQueueContract --------------------------
(***************************************************************************)
(* What the durable queue traits AsyncWorkerQueue and AsyncWorkerAdmin     *)
(* (blueprint-rs interfaces/worker-interface) promise for one tenant's     *)
(* queue, whatever store implements them.                                  *)
(*                                                                         *)
(* There is no clock here: a lease is live or has lapsed, a retry is       *)
(* delayed or due, and TimePasses moves any of them on.  Renewing a lease  *)
(* only postpones its lapse, so it is a stuttering step.  peek, stats,     *)
(* inspect and dead_letters read and are stuttering steps too.             *)
(***************************************************************************)
EXTENDS Naturals, FiniteSets

CONSTANTS
  Job,        \* job identities
  Token,      \* lease tokens
  NoToken,    \* the NULL token
  Budget,     \* the RetryPolicy.max_attempts values callers use
  MaxArrivals \* bound: enqueued batches plus retried dead letters

ASSUME ContractAssumption ==
  /\ NoToken \notin Token
  /\ Budget \subseteq Nat \ {0}
  /\ MaxArrivals \in Nat

VARIABLES
  status,      \* the job's state; "absent" when the identity is not stored
  attempts,    \* claims since the job was enqueued or revived
  maxAttempts, \* the budget stored with the job
  delayed,     \* a queued job whose backoff has not elapsed
  token,       \* the token of the current delivery
  lapsed,      \* the current delivery's lease has expired
  issued,      \* history: every token ever handed out for the identity
  outcome,     \* history: what settlement was accepted for a token
  arrivals     \* enqueues and retried dead letters so far (bounded)

vars == <<status, attempts, maxAttempts, delayed, token, lapsed,
          issued, outcome, arrivals>>

Status   == {"absent", "queued", "processing", "completed", "failed"}
Terminal == {"completed", "failed"}
AllIssued == UNION {issued[j] : j \in Job}

\* The type invariant of the contract's state.
TypeOK ==
  /\ status \in [Job -> Status]
  /\ attempts \in [Job -> Nat]
  /\ maxAttempts \in [Job -> Nat]
  /\ delayed \in [Job -> BOOLEAN]
  /\ token \in [Job -> Token \cup {NoToken}]
  /\ lapsed \in [Job -> BOOLEAN]
  /\ issued \in [Job -> SUBSET Token]
  /\ outcome \in [Token -> {"open", "acked", "failed"}]
  /\ arrivals \in 0..MaxArrivals

\* The store may already hold the terminal jobs of earlier runs.
Init ==
  /\ status \in [Job -> {"absent"} \cup Terminal]
  /\ \E b \in Budget :
       /\ attempts = [j \in Job |-> IF status[j] = "absent" THEN 0 ELSE b]
       /\ maxAttempts = [j \in Job |-> IF status[j] = "absent" THEN 0 ELSE b]
  /\ delayed = [j \in Job |-> FALSE]
  /\ token = [j \in Job |-> NoToken]
  /\ lapsed = [j \in Job |-> FALSE]
  /\ issued = [j \in Job |-> {}]
  /\ outcome = [t \in Token |-> "open"]
  /\ arrivals = 0

-----------------------------------------------------------------------------
(* Which deliveries a claim may take. *)

Lapsed     == {j \in Job : status[j] = "processing" /\ lapsed[j]}
ExhaustedLate == {j \in Lapsed : attempts[j] > maxAttempts[j]}   \* mutant: off by one
Exhausted  == {j \in Lapsed : attempts[j] >= maxAttempts[j]}
Abandoned  == Lapsed \ Exhausted
Due        == {j \in Job : status[j] = "queued" /\ ~delayed[j] /\ attempts[j] < maxAttempts[j]}
Claimable  == Due \cup Abandoned

(* enqueue, enqueue_batch: the whole batch or nothing, each job with its    *)
(* budget b[j]; a stored identity is a duplicate.                           *)
Enqueue(B, b) ==
  /\ arrivals < MaxArrivals
  /\ \A j \in B : status[j] = "absent"
  /\ status' = [j \in Job |-> IF j \in B THEN "queued" ELSE status[j]]
  /\ maxAttempts' = [j \in Job |-> IF j \in B THEN b[j] ELSE maxAttempts[j]]
  /\ arrivals' = arrivals + 1
  /\ UNCHANGED <<attempts, delayed, token, lapsed, issued, outcome>>

(* claim, claim_batch: dead-letter D, return R to the queue and deliver C,  *)
(* each with a fresh token.  A store may leave R empty.  X are deliveries   *)
(* so slow that their lease has lapsed when the claim takes effect.         *)
Claim(D, R, C, X, fresh) ==
  /\ D \subseteq Exhausted
  /\ R \subseteq Abandoned \ C
  /\ C \subseteq Claimable
  /\ X \subseteq C
  /\ \A i, j \in C : i # j => fresh[i] # fresh[j]
  /\ status' = [j \in Job |-> IF j \in D THEN "failed"
                             ELSE IF j \in R THEN "queued"
                             ELSE IF j \in C THEN "processing" ELSE status[j]]
  /\ attempts' = [j \in Job |-> IF j \in C THEN attempts[j] + 1 ELSE attempts[j]]
  /\ token' = [j \in Job |-> IF j \in D \cup R THEN NoToken
                            ELSE IF j \in C THEN fresh[j] ELSE token[j]]
  /\ lapsed' = [j \in Job |-> j \in X \/ (lapsed[j] /\ j \notin D \cup R \cup C)]
  /\ issued' = [j \in Job |-> IF j \in C THEN issued[j] \cup {fresh[j]} ELSE issued[j]]
  /\ UNCHANGED <<maxAttempts, delayed, outcome, arrivals>>

(* Only the holder of the current token, before the lease lapses, settles.  *)
HoldsAny(j, t) == status[j] = "processing" /\ ~lapsed[j]   \* mutant: no token check
Holds(j, t) == status[j] = "processing" /\ token[j] = t /\ ~lapsed[j]

\* Mutant: a settled job keeps its token.
ReleaseKeepsToken(j) ==
  /\ UNCHANGED token
  /\ lapsed' = [lapsed EXCEPT ![j] = FALSE]
Release(j) ==
  /\ token' = [token EXCEPT ![j] = NoToken]
  /\ lapsed' = [lapsed EXCEPT ![j] = FALSE]

Ack(j, t) ==
  /\ Holds(j, t)
  /\ status' = [status EXCEPT ![j] = "completed"]
  /\ outcome' = [outcome EXCEPT ![t] = "acked"]
  /\ Release(j)
  /\ UNCHANGED <<attempts, maxAttempts, delayed, issued, arrivals>>

(* fail: retry after the backoff while the budget lasts, else dead-letter.  *)
Fail(j, t, wait) ==
  /\ Holds(j, t)
  /\ IF attempts[j] < maxAttempts[j]
       THEN /\ status' = [status EXCEPT ![j] = "queued"]
            /\ delayed' = [delayed EXCEPT ![j] = wait]
       ELSE /\ status' = [status EXCEPT ![j] = "failed"]
            /\ UNCHANGED delayed
  /\ outcome' = [outcome EXCEPT ![t] = "failed"]
  /\ Release(j)
  /\ UNCHANGED <<attempts, maxAttempts, issued, arrivals>>

(* retry_dead_letter: a new budget, counted from zero. *)
\* Mutants: the old attempts stay, or count against the new budget.
BudgetKeepsAttempts(j, b) ==
  maxAttempts' = [maxAttempts EXCEPT ![j] = b] /\ UNCHANGED attempts
BudgetLessAttempts(j, b) ==
  /\ maxAttempts' = [maxAttempts EXCEPT ![j] = b - attempts[j]]
  /\ attempts' = [attempts EXCEPT ![j] = 0]
NewBudget(j, b) ==
  /\ attempts' = [attempts EXCEPT ![j] = 0]
  /\ maxAttempts' = [maxAttempts EXCEPT ![j] = b]

RetryDeadLetter(j, b) ==
  /\ arrivals < MaxArrivals
  /\ status[j] = "failed"
  /\ status' = [status EXCEPT ![j] = "queued"]
  /\ NewBudget(j, b)
  /\ arrivals' = arrivals + 1
  /\ UNCHANGED <<delayed, token, lapsed, issued, outcome>>

(* purge_terminal forgets terminal identities, which may then be reused. *)
PurgeTerminal(S, st) ==
  /\ st \in Terminal
  /\ \A j \in S : status[j] = st
  /\ status' = [j \in Job |-> IF j \in S THEN "absent" ELSE status[j]]
  /\ attempts' = [j \in Job |-> IF j \in S THEN 0 ELSE attempts[j]]
  /\ maxAttempts' = [j \in Job |-> IF j \in S THEN 0 ELSE maxAttempts[j]]
  /\ UNCHANGED <<delayed, token, lapsed, issued, outcome, arrivals>>

(* Leases in L expire and backoffs in E elapse. *)
TimePasses(L, E) ==
  /\ \A j \in L : status[j] = "processing" /\ ~lapsed[j]
  /\ \A j \in E : delayed[j]
  /\ UNCHANGED <<status, attempts, maxAttempts, token, issued, outcome, arrivals>>
  /\ lapsed' = [j \in Job |-> IF j \in L THEN TRUE ELSE lapsed[j]]
  /\ delayed' = [j \in Job |-> IF j \in E THEN FALSE ELSE delayed[j]]

ClaimSome ==
  \E D \in SUBSET Exhausted, C \in SUBSET Claimable :
    \E R \in SUBSET (Abandoned \ C), X \in SUBSET C :
      \E fresh \in [C -> Token \ AllIssued] : Claim(D, R, C, X, fresh)

EnqueueSome   == \E B \in (SUBSET Job) \ {{}} : \E b \in [B -> Budget] : Enqueue(B, b)
AckSome       == \E j \in Job, t \in Token : Ack(j, t)
FailSome      == \E j \in Job, t \in Token, w \in BOOLEAN : Fail(j, t, w)
RetrySome     == \E j \in Job, b \in Budget : RetryDeadLetter(j, b)
PurgeSome     == \E S \in SUBSET Job, st \in Terminal : PurgeTerminal(S, st)
TimePassesSome == \E L, E \in SUBSET Job : TimePasses(L, E)

Next ==
  \/ TimePassesSome
  \/ EnqueueSome
  \/ ClaimSome
  \/ AckSome
  \/ FailSome
  \/ RetrySome
  \/ PurgeSome

Spec == Init /\ [][Next]_vars

-----------------------------------------------------------------------------
(* Safety. *)

(* The retry budget is neither overrun nor cut short: a queued job can      *)
(* still be claimed (a queued job with a spent budget would be stuck, since *)
(* claim skips it and nothing dead-letters it), a delivery is one of its    *)
(* budget, and a dead letter has spent all of it.                           *)
BudgetSpentExactly ==
  \A j \in Job :
    /\ status[j] = "queued" => attempts[j] < maxAttempts[j]
    /\ status[j] \in {"processing", "completed"} => attempts[j] \in 1..maxAttempts[j]
    /\ status[j] = "failed" => attempts[j] = maxAttempts[j]

(* A delivery's token was issued for that identity and no other, and has    *)
(* not been settled: neither an earlier delivery of the job nor the holder  *)
(* of another job can settle it, even after the identity was purged and     *)
(* reused.                                                                  *)
TokensFence ==
  /\ \A j \in Job :
       IF status[j] = "processing"
         THEN token[j] \in issued[j] /\ outcome[token[j]] = "open"
         ELSE token[j] = NoToken
  /\ \A i, j \in Job : i # j => issued[i] \cap issued[j] = {}

(* A token that stops being a job's current one never becomes it again, and *)
(* a settlement, once accepted for a token, is the last.                    *)
TokensNeverReturn ==
  [][/\ \A j \in Job : token'[j] # token[j] => token'[j] \notin issued[j]
     /\ \A t \in Token : outcome[t] # "open" => outcome'[t] = outcome[t]]_vars

-----------------------------------------------------------------------------
(* Progress: consumers keep calling claim, retries become due, and a holder *)
(* that neither settles nor renews for ever loses its lease.  Nothing is    *)
(* assumed of ack and fail: every consumer may crash.                       *)
ClaimOf(j) ==
  \E D \in SUBSET Exhausted, C \in SUBSET Claimable :
    /\ j \in D \cup C
    /\ \E fresh \in [C -> Token \ AllIssued] : Claim(D, {}, C, {}, fresh)
LapseOf(j)  == TimePasses({j}, {})
ElapseOf(j) == TimePasses({}, {j})

Fairness ==
  \A j \in Job : /\ WF_vars(ClaimOf(j))
                 /\ WF_vars(LapseOf(j))
                 /\ WF_vars(ElapseOf(j))

FairSpec == Spec /\ Fairness

(* Every stored job is eventually completed or dead-lettered, even if every *)
(* consumer crashes: the budget bounds the redeliveries.                    *)
EveryJobEnds ==
  \A j \in Job : status[j] \in {"queued", "processing"} ~> status[j] \in Terminal
=============================================================================
