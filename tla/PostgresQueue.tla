---------------------------- MODULE PostgresQueue ----------------------------
(***************************************************************************)
(* PostgresWorkerQueue (worker-database/src/postgres.rs): one tenant's     *)
(* queue as the table fl_worker.jobs, used by concurrent sessions.         *)
(*                                                                         *)
(* Each call is one READ COMMITTED transaction.  A statement reads the     *)
(* committed rows and the session's own writes, locks what it writes and   *)
(* keeps its writes private until Commit; Abort (an error, a timeout that  *)
(* drops the future, a crash) discards them.  A statement with SKIP LOCKED *)
(* passes over locked rows, any other waits until they are unlocked: its   *)
(* action is disabled meanwhile.  A statement is atomic and sees one       *)
(* clock_timestamp().                                                      *)
(*                                                                         *)
(* A call that changes no row (a refused settlement, a claim of nothing)   *)
(* is not an action.  `held` are the leases consumers were given: any of   *)
(* them, however stale, may be presented at any time.                      *)
(***************************************************************************)
EXTENDS Naturals, FiniteSets

CONSTANTS
  Job, Session, Token, NoToken, Absent,
  Lease,       \* lease durations callers ask for
  Policy,      \* RetryPolicy: [max, backoff]
  Age,         \* minimum ages callers purge with
  Limit,       \* batch sizes callers ask for
  MaxTime,     \* bound on the clock
  MaxInserts,  \* bound on INSERTs, aborted ones included
  MaxArrivals  \* bound on enqueued batches plus retried dead letters

ASSUME PostgresAssumption ==
  /\ NoToken \notin Token
  /\ Lease \subseteq Nat \ {0}
  /\ Policy \subseteq [max : Nat \ {0}, backoff : Nat] /\ Policy # {}
  /\ Age \subseteq Nat \ {0}
  /\ Limit \subseteq Nat \ {0}
  /\ MaxTime \in Nat
  /\ MaxInserts \in Nat
  /\ MaxArrivals \in Nat

VARIABLES
  now,      \* the server's clock
  rows,     \* the committed table: a row or Absent for every identity
  sequence, \* the next value of the identity column
  tx,       \* each session's open transaction
  held,     \* the leases consumers hold
  issued,   \* history: tokens of committed claims, by identity
  outcome,  \* history: the settlement committed for a token
  arrivals  \* committed enqueues and retried dead letters

vars == <<now, rows, sequence, tx, held, issued, outcome, arrivals>>
history == <<issued, outcome>>

Row == [status : {"queued", "processing", "completed", "failed"},
        attempts : Nat, max_attempts : Nat, backoff : Nat, available_at : Nat,
        lease_token : Token \cup {NoToken}, lease_until : Nat,
        updated_at : Nat, sequence : Nat]

ASSUME AbsentAssumption == Absent \notin Row

\* lease_until is NULL (here 0) unless the row is processing.
Null == 0

\* The table's CHECK constraints.
RowChecks(r) ==
  /\ r.status = "processing" <=> r.lease_token # NoToken
  /\ r.status # "processing" => r.lease_until = Null
  /\ r.attempts <= r.max_attempts
  /\ r.max_attempts > 0

\* A transaction: its call, the token it presented and its uncommitted writes.
Idle == [op |-> "idle", token |-> NoToken, writes |-> <<>>]
Ops  == {"idle", "enqueue", "claim", "claimed", "ack", "fail", "renew", "retry", "purge"}

LeaseRecord == [job : Job, token : Token, until : Nat, open : BOOLEAN]

\* Types, with the table's CHECK constraints and the lock table: a row is
\* written by at most one open transaction.
TypeOK ==
  /\ now \in 0..MaxTime
  /\ rows \in [Job -> Row \cup {Absent}]
  /\ \A j \in Job : rows[j] # Absent => RowChecks(rows[j])
  /\ sequence \in Nat
  /\ \A s \in Session :
       /\ tx[s].op \in Ops
       /\ tx[s].token \in Token \cup {NoToken}
       /\ DOMAIN tx[s].writes \subseteq Job
       /\ \A j \in DOMAIN tx[s].writes : tx[s].writes[j] \in Row \cup {Absent}
  /\ \A s, q \in Session :
       s # q => DOMAIN tx[s].writes \cap DOMAIN tx[q].writes = {}
  /\ held \subseteq LeaseRecord
  /\ issued \in [Job -> SUBSET Token]
  /\ outcome \in [Token -> {"open", "acked", "failed"}]
  /\ arrivals \in 0..MaxArrivals

Init ==
  /\ now = 0
  /\ rows = [j \in Job |-> Absent]
  /\ sequence = 1
  /\ tx = [s \in Session |-> Idle]
  /\ held = {}
  /\ issued = [j \in Job |-> {}]
  /\ outcome = [t \in Token |-> "open"]
  /\ arrivals = 0

-----------------------------------------------------------------------------
(* Transactions and row locks. *)

LockedByNobody(s, j) == FALSE   \* mutant: no row locks
Locked(s, j) == \E q \in Session \ {s} : j \in DOMAIN tx[q].writes

Merge(old, new) == [j \in DOMAIN old \cup DOMAIN new |->
                      IF j \in DOMAIN new THEN new[j] ELSE old[j]]

\* Session s ran a statement with these writes.
Wrote(s, op, tok, writes) ==
  tx' = [tx EXCEPT ![s] =
           [op |-> op, token |-> tok,
            writes |-> Merge(tx[s].writes, writes)]]

\* The table after session s commits.
Committed(s) == Merge(rows, tx[s].writes)

Finish(s) == tx' = [tx EXCEPT ![s] = Idle]

StoredAs(j, st) == rows[j] # Absent /\ rows[j].status = st
Expired(j)  == StoredAs(j, "processing") /\ rows[j].lease_until <= now
Spent(j)    == rows[j].attempts >= rows[j].max_attempts

-----------------------------------------------------------------------------
(* enqueue, enqueue_batch, enqueue_in_transaction: one INSERT per job.  A   *)
(* stored identity violates the primary key and aborts the transaction; an  *)
(* identity another session is writing is waited for.                       *)
NewRow(policy) ==
  [status |-> "queued", attempts |-> 0, max_attempts |-> policy.max,
   backoff |-> policy.backoff, available_at |-> now, lease_token |-> NoToken,
   lease_until |-> Null, updated_at |-> now, sequence |-> sequence]

InsertJob(s, j, policy) ==
  /\ tx[s].op \in {"idle", "enqueue"}
  /\ arrivals < MaxArrivals
  /\ sequence <= MaxInserts
  /\ j \notin DOMAIN tx[s].writes
  /\ ~Locked(s, j)
  /\ rows[j] = Absent
  /\ Wrote(s, "enqueue", NoToken, [i \in {j} |-> NewRow(policy)])
  /\ sequence' = sequence + 1
  /\ UNCHANGED <<now, rows, held, history, arrivals>>

CommitEnqueue(s) ==
  /\ tx[s].op = "enqueue"
  /\ arrivals < MaxArrivals
  /\ rows' = Committed(s)
  /\ Finish(s)
  /\ arrivals' = arrivals + 1
  /\ UNCHANGED <<now, sequence, held, history>>

-----------------------------------------------------------------------------
(* claim, claim_batch: two statements.  The first dead-letters deliveries   *)
(* whose lease expired on the final attempt, and waits for locked ones.     *)
DeadLettered(j) ==
  [rows[j] EXCEPT !.status = "failed", !.lease_token = NoToken,
                  !.lease_until = Null, !.updated_at = now]

ClaimExhausted(s) ==
  LET dead == {j \in Job : Expired(j) /\ Spent(j)}
  IN  /\ tx[s].op = "idle"
      /\ \A j \in dead : ~Locked(s, j)
      /\ Wrote(s, "claim", NoToken, [j \in dead |-> DeadLettered(j)])
      /\ UNCHANGED <<now, rows, sequence, held, history, arrivals>>

(* The second leases the first `limit` unlocked candidates in delivery      *)
(* order (available_at, sequence), each with a fresh token.                 *)
Candidate(j) ==
  /\ \/ StoredAs(j, "queued") /\ rows[j].available_at <= now
     \/ Expired(j)
  /\ ~Spent(j)

Before(i, j) ==
  \/ rows[i].available_at < rows[j].available_at
  \/ /\ rows[i].available_at = rows[j].available_at
     /\ rows[i].sequence < rows[j].sequence

\* The first `limit` jobs of S in delivery order.
FirstInOrder(S, limit) == {j \in S : Cardinality({i \in S : Before(i, j)}) < limit}

\* Tokens never generated before: gen_random_uuid().
Given  == UNION {issued[j] : j \in Job}
Minted == UNION {{tx[s].writes[j].lease_token : j \in
                    {i \in DOMAIN tx[s].writes : tx[s].writes[i] # Absent}} :
                 s \in Session}
Fresh  == Token \ (Given \cup Minted)

Leased(j, tok, d) ==
  [rows[j] EXCEPT !.status = "processing", !.attempts = @ + 1,
                  !.lease_token = tok, !.lease_until = now + d,
                  !.updated_at = now]

ClaimCandidates(s, limit, d) ==
  LET ready == {j \in Job : Candidate(j) /\ ~Locked(s, j)} \ DOMAIN tx[s].writes
      taken == FirstInOrder(ready, limit)
  IN  /\ tx[s].op = "claim"
      /\ \E tok \in [taken -> Fresh] :
           /\ \A i, j \in taken : i # j => tok[i] # tok[j]
           /\ Wrote(s, "claimed", NoToken, [j \in taken |-> Leased(j, tok[j], d)])
      /\ UNCHANGED <<now, rows, sequence, held, history, arrivals>>

\* The deliveries of the claim session s is about to commit.
Delivered(s) == {j \in DOMAIN tx[s].writes : tx[s].writes[j].status = "processing"}

(* The reply may be lost after the commit: then nobody holds the leases.    *)
CommitClaim(s, replied) ==
  /\ tx[s].op = "claimed"
  /\ rows' = Committed(s)
  /\ Finish(s)
  /\ held' = IF replied
               THEN held \cup {[job |-> j, token |-> tx[s].writes[j].lease_token,
                                until |-> tx[s].writes[j].lease_until,
                                open |-> TRUE] : j \in Delivered(s)}
               ELSE held
  /\ issued' = [j \in Job |-> IF j \in Delivered(s)
                                THEN issued[j] \cup {tx[s].writes[j].lease_token}
                                ELSE issued[j]]
  /\ UNCHANGED <<now, sequence, outcome, arrivals>>

-----------------------------------------------------------------------------
(* ack, fail, renew: one UPDATE guarded by the token and the lease.         *)
\* Mutant: without the token.
OwnsAnyToken(s, l) ==
  /\ tx[s].op = "idle"
  /\ ~Locked(s, l.job)
  /\ StoredAs(l.job, "processing")
  /\ rows[l.job].lease_until > now
Owns(s, l) ==
  /\ tx[s].op = "idle"
  /\ ~Locked(s, l.job)
  /\ StoredAs(l.job, "processing")
  /\ rows[l.job].lease_token = l.token
  /\ rows[l.job].lease_until > now

\* Having asked for a settlement, the consumer no longer counts on the lease.
Close(l) == held' = (held \ {l}) \cup {[l EXCEPT !.open = FALSE]}

Acked(j) == [rows[j] EXCEPT !.status = "completed", !.lease_token = NoToken,
                            !.lease_until = Null, !.updated_at = now]

Ack(s, l) ==
  /\ Owns(s, l)
  /\ Wrote(s, "ack", l.token, [j \in {l.job} |-> Acked(j)])
  /\ Close(l)
  /\ UNCHANGED <<now, rows, sequence, history, arrivals>>

FailedRow(j) ==
  [rows[j] EXCEPT !.status = IF rows[j].attempts < rows[j].max_attempts
                               THEN "queued" ELSE "failed",
                  !.available_at = now + rows[j].backoff,
                  !.lease_token = NoToken, !.lease_until = Null,
                  !.updated_at = now]

Fail(s, l) ==
  /\ Owns(s, l)
  /\ Wrote(s, "fail", l.token, [j \in {l.job} |-> FailedRow(j)])
  /\ Close(l)
  /\ UNCHANGED <<now, rows, sequence, history, arrivals>>

CommitSettle(s) ==
  /\ tx[s].op \in {"ack", "fail"}
  /\ rows' = Committed(s)
  /\ Finish(s)
  /\ outcome' = [outcome EXCEPT ![tx[s].token] =
                   IF tx[s].op = "ack" THEN "acked" ELSE "failed"]
  /\ UNCHANGED <<now, sequence, held, issued, arrivals>>

Max2(a, b) == IF a >= b THEN a ELSE b

\* Mutant: a short renewal shortens the lease.
RenewedFromNow(j, d) == [rows[j] EXCEPT !.lease_until = now + d, !.updated_at = now]
Renewed(j, d) == [rows[j] EXCEPT !.lease_until = Max2(@, now + d), !.updated_at = now]

Renew(s, l, d) ==
  /\ Owns(s, l)
  /\ Wrote(s, "renew", l.token, [j \in {l.job} |-> Renewed(j, d)])
  /\ UNCHANGED <<now, rows, sequence, held, history, arrivals>>

\* A renewal that returned true promises the consumer the longer lease.
CommitRenew(s) ==
  /\ tx[s].op = "renew"
  /\ rows' = Committed(s)
  /\ Finish(s)
  /\ held' = {IF l.token = tx[s].token
                THEN [l EXCEPT !.until = Max2(@, tx[s].writes[l.job].lease_until)]
                ELSE l : l \in held}
  /\ UNCHANGED <<now, sequence, history, arrivals>>

-----------------------------------------------------------------------------
(* retry_dead_letter: back to the queue with a new budget. *)
Revived(j, policy) ==
  [rows[j] EXCEPT !.status = "queued", !.attempts = 0,
                  !.max_attempts = policy.max, !.backoff = policy.backoff,
                  !.available_at = now, !.updated_at = now,
                  !.lease_token = NoToken, !.lease_until = Null]

RetryDeadLetter(s, j, policy) ==
  /\ tx[s].op = "idle"
  /\ arrivals < MaxArrivals
  /\ ~Locked(s, j)
  /\ StoredAs(j, "failed")
  /\ Wrote(s, "retry", NoToken, [i \in {j} |-> Revived(i, policy)])
  /\ UNCHANGED <<now, rows, sequence, held, history, arrivals>>

CommitRetry(s) ==
  /\ tx[s].op = "retry"
  /\ arrivals < MaxArrivals
  /\ rows' = Committed(s)
  /\ Finish(s)
  /\ arrivals' = arrivals + 1
  /\ UNCHANGED <<now, sequence, held, history>>

(* purge_terminal: delete the oldest `limit` unlocked rows of one terminal  *)
(* status, untouched for at least `age`.                                    *)
OlderTerminal(i, j) ==
  \/ rows[i].updated_at < rows[j].updated_at
  \/ /\ rows[i].updated_at = rows[j].updated_at
     /\ rows[i].sequence < rows[j].sequence

PurgeTerminal(s, st, age, limit) ==
  LET old  == {j \in Job : /\ StoredAs(j, st)
                           /\ rows[j].updated_at + age <= now
                           /\ ~Locked(s, j)}
      gone == {j \in old : Cardinality({i \in old : OlderTerminal(i, j)}) < limit}
  IN  /\ tx[s].op = "idle"
      /\ gone # {}
      /\ Wrote(s, "purge", NoToken, [j \in gone |-> Absent])
      /\ UNCHANGED <<now, rows, sequence, held, history, arrivals>>

CommitPurge(s) ==
  /\ tx[s].op = "purge"
  /\ rows' = Committed(s)
  /\ Finish(s)
  /\ UNCHANGED <<now, sequence, held, history, arrivals>>

-----------------------------------------------------------------------------
Abort(s) ==
  /\ tx[s].op # "idle"
  /\ Finish(s)
  /\ UNCHANGED <<now, rows, sequence, held, history, arrivals>>

Tick ==
  /\ now < MaxTime
  /\ now' = now + 1
  /\ UNCHANGED <<rows, sequence, tx, held, history, arrivals>>

Next ==
  \/ Tick
  \/ \E s \in Session :
       \/ \E j \in Job, p \in Policy : InsertJob(s, j, p)
       \/ CommitEnqueue(s)
       \/ ClaimExhausted(s)
       \/ \E limit \in Limit, d \in Lease : ClaimCandidates(s, limit, d)
       \/ \E replied \in BOOLEAN : CommitClaim(s, replied)
       \/ \E l \in held : Ack(s, l)
       \/ \E l \in held : Fail(s, l)
       \/ CommitSettle(s)
       \/ \E l \in held, d \in Lease : Renew(s, l, d)
       \/ CommitRenew(s)
       \/ \E j \in Job, p \in Policy : RetryDeadLetter(s, j, p)
       \/ CommitRetry(s)
       \/ \E st \in {"completed", "failed"}, age \in Age, limit \in Limit :
            PurgeTerminal(s, st, age, limit)
       \/ CommitPurge(s)
       \/ Abort(s)

Spec == Init /\ [][Next]_vars

-----------------------------------------------------------------------------
(* Properties. *)

(* While a lease a consumer was given has not run out (as last reported to  *)
(* it, by claim or by a successful renew) and it has not asked to settle    *)
(* it, the job is still its: nobody else is delivered the job, and the row  *)
(* is neither settled, retried nor purged under it.                         *)
LeaseIsExclusive ==
  \A l \in held : l.open /\ l.until > now =>
    /\ StoredAs(l.job, "processing")
    /\ rows[l.job].lease_token = l.token

-----------------------------------------------------------------------------
(* Refinement: the contract's view of the table.  A lease is not considered *)
(* lapsed while a settlement or renewal accepted in time holds the row's    *)
(* lock: nobody can take the job before that transaction ends.              *)
Settling(j) ==
  \E s \in Session : tx[s].op \in {"ack", "fail", "renew"} /\ j \in DOMAIN tx[s].writes

StatusView   == [j \in Job |-> IF rows[j] = Absent THEN "absent" ELSE rows[j].status]
AttemptsView == [j \in Job |-> IF rows[j] = Absent THEN 0 ELSE rows[j].attempts]
BudgetView   == [j \in Job |-> IF rows[j] = Absent THEN 0 ELSE rows[j].max_attempts]
DelayedView  == [j \in Job |-> StoredAs(j, "queued") /\ rows[j].available_at > now]
TokenView    == [j \in Job |-> IF rows[j] = Absent THEN NoToken ELSE rows[j].lease_token]
LapsedView   == [j \in Job |-> Expired(j) /\ ~Settling(j)]

Contract == INSTANCE JobQueueContract WITH
  Budget <- {p.max : p \in Policy},
  status <- StatusView, attempts <- AttemptsView, maxAttempts <- BudgetView,
  delayed <- DelayedView, token <- TokenView, lapsed <- LapsedView

(* The table, with its transactions, locks and clock, implements the queue  *)
(* contract: every commit is one contract step at that moment.              *)
ImplementsContract == Contract!Spec
=============================================================================
