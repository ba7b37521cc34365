----------------------------- MODULE RedisQueue -----------------------------
(***************************************************************************)
(* RedisLeasedQueue (worker-redis/src/leased.rs and leased.lua): one       *)
(* queue as a hash of job records and five indexes.  Every call runs the   *)
(* script once, or again while it answers "indexing", and Redis runs a     *)
(* script without interleaving: `db` is what it reads and writes, and an   *)
(* action is one invocation, with every maintenance step it makes.         *)
(*                                                                         *)
(* Records of the release before the terminal indexes have no terminal_at  *)
(* and are in no index; admin calls upgrade them a page at a time, while   *)
(* all other calls go on.  A reply may be lost after the script ran.       *)
(***************************************************************************)
EXTENDS Naturals, FiniteSets

CONSTANTS
  Job, Token, NoToken, Absent,
  Lease, Policy, Age, Limit,
  RecoverLimit, \* expired leases recovered per invocation (128)
  MaxSequence,  \* the sequence must stay below it (2^53 - 1)
  MaxTime,      \* bound on the clock
  MaxArrivals   \* bound on enqueued batches plus retried dead letters

ASSUME RedisAssumption ==
  /\ NoToken \notin Token
  /\ Lease \subseteq Nat \ {0}
  /\ Policy \subseteq [max : Nat \ {0}, backoff : Nat]
  /\ Age \subseteq Nat \ {0}
  /\ Limit \subseteq Nat \ {0}
  /\ RecoverLimit \in Nat \ {0}
  /\ MaxSequence \in Nat
  /\ MaxTime \in Nat \ {0}
  /\ MaxArrivals \in Nat

VARIABLES
  now,      \* TIME of the server
  db,       \* the queue's keys
  held,     \* the leases consumers hold
  issued,   \* history: tokens of executed claims, by identity
  outcome,  \* history: the settlement accepted for a token
  ended,    \* history: when the job became terminal, or was first observed so
  arrivals  \* enqueues and retried dead letters

vars == <<now, db, held, issued, outcome, ended, arrivals>>

Null == 0   \* a null terminal_at, lease_until

StoredJob ==
  [status : {"queued", "processing", "completed", "failed"},
   attempts : Nat, max_attempts : Nat, backoff : Nat, member : Nat,
   available_at : Nat, token : Token \cup {NoToken}, lease_until : Nat,
   terminal_at : Nat]

ASSUME AbsentAssumption == Absent \notin StoredJob

Member == Nat \X Job   \* "<sequence>:<id>", ordered by sequence
LeaseRecord == [job : Job, token : Token, until : Nat, open : BOOLEAN]

\* A sorted set is a function from its members to their scores.
IsZset(z, S) == DOMAIN z \subseteq S /\ \A x \in DOMAIN z : z[x] \in Nat

\* Types of the keys.
TypeOK ==
  /\ now \in 1..MaxTime
  /\ db.jobs \in [Job -> StoredJob \cup {Absent}]
  /\ IsZset(db.ready, Member)
  /\ IsZset(db.leased, Job) /\ IsZset(db.completed, Job) /\ IsZset(db.failed, Job)
  /\ db.sequence \in Nat
  /\ db.cursor \in {"none", "scanning", "done"}
  /\ db.unscanned \subseteq Job
  /\ held \subseteq LeaseRecord
  /\ issued \in [Job -> SUBSET Token]
  /\ outcome \in [Token -> {"open", "acked", "failed"}]
  /\ ended \in [Job -> Nat]
  /\ arrivals \in 0..MaxArrivals

StoredIn(b, j, st) == b.jobs[j] # Absent /\ b.jobs[j].status = st
Stored(j, st) == StoredIn(db, j, st)

\* Terminal records of the earlier release.
Legacy(j, st, policy) ==
  [status |-> st, attempts |-> policy.max, max_attempts |-> policy.max,
   backoff |-> policy.backoff, member |-> 0, available_at |-> 1,
   token |-> NoToken, lease_until |-> Null, terminal_at |-> Null]

Init ==
  /\ now = 1
  /\ \E S \in [Job -> {"absent", "completed", "failed"}], p \in Policy :
       db = [jobs |-> [j \in Job |-> IF S[j] = "absent" THEN Absent ELSE Legacy(j, S[j], p)],
             ready |-> <<>>, leased |-> <<>>, completed |-> <<>>, failed |-> <<>>,
             sequence |-> 0, cursor |-> "none", unscanned |-> {}]
  /\ held = {}
  /\ issued = [j \in Job |-> {}]
  /\ outcome = [t \in Token |-> "open"]
  /\ ended = [j \in Job |-> 0]
  /\ arrivals = 0

-----------------------------------------------------------------------------
(* ZADD and ZREM of several members at once. *)
ZAdd(z, new) == [x \in DOMAIN z \cup DOMAIN new |->
                   IF x \in DOMAIN new THEN new[x] ELSE z[x]]
ZRem(z, S) == [x \in DOMAIN z \ S |-> z[x]]

\* ZRANGEBYSCORE -inf upTo LIMIT 0 n.  Ties of equal score are broken by the
\* member's bytes: any of them may come first.
IsLowest(z, upTo, n, S) ==
  LET upper == {x \in DOMAIN z : z[x] <= upTo}
  IN  /\ S \subseteq upper
      /\ Cardinality(S) = IF Cardinality(upper) <= n THEN Cardinality(upper) ELSE n
      /\ \A x \in S, y \in upper \ S : z[x] <= z[y]

MemberOf(b, j) == <<b.jobs[j].member, j>>
MembersOf(b, S) == {MemberOf(b, j) : j \in S}

\* save(job) for the records of `new`, a function of identities.
Save(b, new) ==
  [b EXCEPT !.jobs = [j \in Job |-> IF j \in DOMAIN new THEN new[j] ELSE b.jobs[j]]]

ClearLease(r) == [r EXCEPT !.token = NoToken, !.lease_until = Null]

-----------------------------------------------------------------------------
(* recover_expired: expired deliveries R return to the queue at their old   *)
(* place, or are dead-lettered when their budget is spent.  It trusts the   *)
(* lease index and does not look at the record's status.                    *)
\* Mutant: a dead letter is not added to its index.
DeadNotIndexed(b, S) == b.failed
DeadIndexed(b, S) == ZAdd(b.failed, [j \in S |-> now])

Recovered(b, R) ==
  LET spent == {j \in R : b.jobs[j].attempts >= b.jobs[j].max_attempts}
      again == R \ spent
      back  == [j \in R |-> [ClearLease(b.jobs[j]) EXCEPT
                               !.status = IF j \in spent THEN "failed" ELSE "queued",
                               !.terminal_at = IF j \in spent THEN now ELSE @]]
  IN  [Save(b, back) EXCEPT
         !.leased = ZRem(b.leased, R),
         !.failed = DeadIndexed(b, spent),
         !.ready  = ZAdd(b.ready, [m \in MembersOf(b, again) |->
                                     b.jobs[m[2]].available_at])]

Newly(st, b) == {j \in Job : StoredIn(b, j, st) /\ ~Stored(j, st)}

\* History of a step that made jobs terminal.
Ends(S) == ended' = [j \in Job |-> IF j \in S THEN now ELSE ended[j]]

Fresh == Token \ UNION {issued[j] : j \in Job}

(* claim, claim_batch: recover, then lease the first members that are due.  *)
Take(b, C, tok, d) ==
  LET leased == [j \in C |-> [b.jobs[j] EXCEPT
                                !.status = "processing", !.attempts = @ + 1,
                                !.token = tok[j], !.lease_until = now + d]]
  IN  [Save(b, leased) EXCEPT
         !.ready  = ZRem(b.ready, MembersOf(b, C)),
         !.leased = ZAdd(b.leased, [j \in C |-> now + d])]

\* The first n due members, in order of score and sequence.
Head(b, n) ==
  LET upper == {m \in DOMAIN b.ready : b.ready[m] <= now}
      Before(x, y) == \/ b.ready[x] < b.ready[y]
                      \/ b.ready[x] = b.ready[y] /\ x[1] < y[1]
  IN  {m \in upper : Cardinality({x \in upper : Before(x, m)}) < n}

Claim(R, n, d, replied) ==
  LET b == Recovered(db, R)
      C == {m[2] : m \in Head(b, n)}
  IN  /\ IsLowest(db.leased, now, RecoverLimit, R)
      /\ \E tok \in [C -> Fresh] :
           /\ \A i, j \in C : i # j => tok[i] # tok[j]
           /\ db' = Take(b, C, tok, d)
           /\ issued' = [j \in Job |-> IF j \in C THEN issued[j] \cup {tok[j]}
                                                  ELSE issued[j]]
           /\ held' = IF replied
                        THEN held \cup {[job |-> j, token |-> tok[j],
                                         until |-> now + d, open |-> TRUE] : j \in C}
                        ELSE held
      /\ Ends(Newly("failed", b))
      /\ UNCHANGED <<now, outcome, arrivals>>

(* peek: recovers too, then only reads. *)
Peek(R) ==
  /\ IsLowest(db.leased, now, RecoverLimit, R)
  /\ db' = Recovered(db, R)
  /\ Ends(Newly("failed", db'))
  /\ UNCHANGED <<now, held, issued, outcome, arrivals>>

-----------------------------------------------------------------------------
(* enqueue, enqueue_batch: every identity and the sequence are checked      *)
(* before anything is written.  Q is the batch in input order.              *)
Enqueue(Q, policy) ==
  LET n == Cardinality(DOMAIN Q)
      B == {Q[i] : i \in DOMAIN Q}
      Place(j) == db.sequence + (CHOOSE i \in DOMAIN Q : Q[i] = j)
      new == [j \in B |->
                [status |-> "queued", attempts |-> 0, max_attempts |-> policy.max,
                 backoff |-> policy.backoff, member |-> Place(j), available_at |-> now,
                 token |-> NoToken, lease_until |-> Null, terminal_at |-> Null]]
  IN  /\ arrivals < MaxArrivals
      /\ Cardinality(B) = n
      /\ \A j \in B : db.jobs[j] = Absent
      /\ db.sequence + n < MaxSequence
      /\ db' = [Save(db, new) EXCEPT
                  !.sequence = @ + n,
                  !.ready = ZAdd(db.ready, [m \in {<<Place(j), j>> : j \in B} |-> now])]
      /\ arrivals' = arrivals + 1
      /\ UNCHANGED <<now, held, issued, outcome, ended>>

-----------------------------------------------------------------------------
(* ack, fail, renew. *)
\* Mutant: without the token.
OwnsAnyToken(l) == Stored(l.job, "processing") /\ db.jobs[l.job].lease_until > now
Owns(l) ==
  /\ Stored(l.job, "processing")
  /\ db.jobs[l.job].token = l.token
  /\ db.jobs[l.job].lease_until > now

\* Having asked for a settlement, the consumer no longer counts on the lease.
Close(l) == held' = (held \ {l}) \cup {[l EXCEPT !.open = FALSE]}

Ack(l) ==
  /\ Owns(l)
  /\ db' = [db EXCEPT
              !.jobs[l.job] = [ClearLease(@) EXCEPT !.status = "completed",
                                                    !.terminal_at = now],
              !.leased = ZRem(@, {l.job}),
              !.completed = ZAdd(@, [j \in {l.job} |-> now])]
  /\ outcome' = [outcome EXCEPT ![l.token] = "acked"]
  /\ Close(l)
  /\ Ends({l.job})
  /\ UNCHANGED <<now, issued, arrivals>>

FailedRetry(l) ==
  LET at == now + db.jobs[l.job].backoff
  IN  [db EXCEPT
         !.jobs[l.job] = [ClearLease(@) EXCEPT !.status = "queued", !.available_at = at],
         !.leased = ZRem(@, {l.job}),
         !.ready = ZAdd(@, [m \in {MemberOf(db, l.job)} |-> at])]

\* Mutant: the index of failed jobs is given the ready set's member.
DeadIndexMember(j) == [m \in {MemberOf(db, j)} |-> now]
DeadIndexEntry(j) == [i \in {j} |-> now]

FailedForGood(l) ==
  [db EXCEPT
     !.jobs[l.job] = [ClearLease(@) EXCEPT !.status = "failed", !.terminal_at = now],
     !.leased = ZRem(@, {l.job}),
     !.failed = ZAdd(@, DeadIndexEntry(l.job))]

Fail(l) ==
  /\ Owns(l)
  /\ db' = IF db.jobs[l.job].attempts < db.jobs[l.job].max_attempts
             THEN FailedRetry(l) ELSE FailedForGood(l)
  /\ outcome' = [outcome EXCEPT ![l.token] = "failed"]
  /\ Close(l)
  /\ Ends(Newly("failed", db'))
  /\ UNCHANGED <<now, issued, arrivals>>

Max2(a, b) == IF a >= b THEN a ELSE b

UntilFromNow(j, d) == now + d   \* mutant: a short renewal shortens the lease
RenewedUntil(j, d) == Max2(db.jobs[j].lease_until, now + d)

Renew(l, d) ==
  LET until == RenewedUntil(l.job, d)
  IN  /\ Owns(l)
      /\ db' = [db EXCEPT !.jobs[l.job].lease_until = until,
                          !.leased = ZAdd(@, [j \in {l.job} |-> until])]
      /\ held' = (held \ {l}) \cup {[l EXCEPT !.until = Max2(@, until)]}
      /\ UNCHANGED <<now, issued, outcome, ended, arrivals>>

-----------------------------------------------------------------------------
(* terminal_index_ready: HSCAN returns at least every identity that is      *)
(* stored for the whole scan, in pages chosen by the server.                *)
StoredIds == {j \in Job : db.jobs[j] # Absent}
Unscanned == IF db.cursor = "none" THEN StoredIds ELSE db.unscanned

\* The date a scanned terminal record gets.  Mutant: the oldest possible one.
DateOldest(j) == IF db.jobs[j].terminal_at = Null THEN 1 ELSE db.jobs[j].terminal_at
DateObserved(j) == IF db.jobs[j].terminal_at = Null THEN now ELSE db.jobs[j].terminal_at

Indexed(P, cursor) ==
  LET done == {j \in P : Stored(j, "completed")}
      dead == {j \in P : Stored(j, "failed")}
      b == Save(db, [j \in done \cup dead |->
                       [db.jobs[j] EXCEPT !.terminal_at = DateObserved(j)]])
  IN  [b EXCEPT !.completed = ZAdd(db.completed, [j \in done |-> b.jobs[j].terminal_at]),
                !.failed = ZAdd(db.failed, [j \in dead |-> b.jobs[j].terminal_at]),
                !.cursor = cursor,
                !.unscanned = IF cursor = "done" THEN {} ELSE Unscanned \ P]

\* Records that got their date from this page.
Observed(b) == {j \in StoredIds : /\ b.jobs[j].terminal_at # db.jobs[j].terminal_at
                                  /\ db.jobs[j].status \in {"completed", "failed"}}

\* A page that is not the last: the call answers "indexing".
IndexPage(P) ==
  /\ db.cursor # "done"
  /\ P # {}
  /\ db' = Indexed(P, "scanning")
  /\ Ends(Observed(db'))
  /\ UNCHANGED <<now, held, issued, outcome, arrivals>>

\* The page that ends the scan.  Mutant: any page may.
AnyPageIsLast(P) == IF db.cursor = "done" THEN P = {} ELSE TRUE
LastPage(P) == IF db.cursor = "done" THEN P = {} ELSE Unscanned \subseteq P

\* What an admin call works on: the index complete, or its last page just read.
Ready(P) == IF db.cursor = "done" THEN db ELSE Indexed(P, "done")

(* dead_letters: only the index changes. *)
DeadLetters(P) ==
  /\ db.cursor # "done"
  /\ LastPage(P)
  /\ db' = Ready(P)
  /\ Ends(Observed(db'))
  /\ UNCHANGED <<now, held, issued, outcome, arrivals>>

RetryDeadLetter(P, j, policy) ==
  LET b == Ready(P)
      revived == [ClearLease(b.jobs[j]) EXCEPT
                    !.status = "queued", !.attempts = 0, !.max_attempts = policy.max,
                    !.backoff = policy.backoff, !.available_at = now, !.terminal_at = Null]
  IN  /\ LastPage(P)
      /\ arrivals < MaxArrivals
      /\ StoredIn(b, j, "failed")
      /\ db' = [b EXCEPT !.jobs[j] = revived,
                         !.failed = ZRem(@, {j}),
                         !.ready = ZAdd(@, [m \in {MemberOf(b, j)} |-> now])]
      /\ arrivals' = arrivals + 1
      /\ Ends(Observed(b))
      /\ UNCHANGED <<now, held, issued, outcome>>

\* The index of a terminal status.
TerminalIndex(b, st) == IF st = "failed" THEN b.failed ELSE b.completed

PurgeTerminal(P, st, age, n, S) ==
  LET b == Ready(P)
  IN  /\ LastPage(P)
      /\ age <= now
      /\ S # {}
      /\ IsLowest(TerminalIndex(b, st), now - age, n, S)
      \* The whole selection is validated before anything is deleted.
      /\ \A j \in S : /\ StoredIn(b, j, st)
                      /\ b.jobs[j].terminal_at \in 1..(now - age)
      /\ db' = [b EXCEPT !.jobs = [j \in Job |-> IF j \in S THEN Absent ELSE @[j]],
                         !.failed = IF st = "failed" THEN ZRem(@, S) ELSE @,
                         !.completed = IF st = "completed" THEN ZRem(@, S) ELSE @]
      /\ Ends(Observed(b))
      /\ UNCHANGED <<now, held, issued, outcome, arrivals>>

-----------------------------------------------------------------------------
Tick ==
  /\ now < MaxTime
  /\ now' = now + 1
  /\ UNCHANGED <<db, held, issued, outcome, ended, arrivals>>

Batch == UNION {[1..n -> Job] : n \in 1..Cardinality(Job)}

Next ==
  \/ Tick
  \/ \E Q \in Batch, p \in Policy : Enqueue(Q, p)
  \/ \E R \in SUBSET Job, n \in Limit, d \in Lease, replied \in BOOLEAN :
       Claim(R, n, d, replied)
  \/ \E R \in SUBSET Job : Peek(R)
  \/ \E l \in held : Ack(l)
  \/ \E l \in held : Fail(l)
  \/ \E l \in held, d \in Lease : Renew(l, d)
  \/ \E P \in SUBSET StoredIds : IndexPage(P)
  \/ \E P \in SUBSET StoredIds : DeadLetters(P)
  \/ \E P \in SUBSET StoredIds, j \in Job, p \in Policy : RetryDeadLetter(P, j, p)
  \/ \E P, S \in SUBSET StoredIds, st \in {"completed", "failed"}, age \in Age, n \in Limit :
       PurgeTerminal(P, st, age, n, S)

Spec == Init /\ [][Next]_vars

-----------------------------------------------------------------------------
(* Properties. *)

(* The indexes say exactly what the records say.  recover_expired resurrects*)
(* whatever the lease index names, claims deliver whatever the ready set    *)
(* names, and every script answers "corrupt" for good when they disagree.   *)
IndexesAgree ==
  /\ db.ready = [m \in MembersOf(db, {j \in Job : Stored(j, "queued")}) |->
                   db.jobs[m[2]].available_at]
  /\ db.leased = [j \in {i \in Job : Stored(i, "processing")} |-> db.jobs[j].lease_until]
  /\ \A st \in {"completed", "failed"} :
       TerminalIndex(db, st) =
         [j \in {i \in Job : Stored(i, st) /\ db.jobs[i].terminal_at # Null} |->
            db.jobs[j].terminal_at]

(* Once the incremental upgrade says it is done, no terminal record is      *)
(* missing from its index, whatever calls ran between its pages: a record   *)
(* missed would never be listed, retried or purged.                         *)
UpgradeMissesNothing ==
  db.cursor = "done" =>
    \A j \in StoredIds : /\ Stored(j, "completed") => j \in DOMAIN db.completed
                         /\ Stored(j, "failed") => j \in DOMAIN db.failed

(* While a lease a consumer was given has not run out and it has not asked  *)
(* to settle it, the job is its.                                            *)
LeaseIsExclusive ==
  \A l \in held : l.open /\ l.until > now =>
    Stored(l.job, "processing") /\ db.jobs[l.job].token = l.token

(* A record disappears only when terminal, the minimum age after it became  *)
(* so or, for a record of the earlier release, after it was first observed. *)
PurgeRespectsRetention ==
  [][\A j \in Job : db.jobs[j] # Absent /\ db'.jobs[j] = Absent =>
       /\ Stored(j, "completed") \/ Stored(j, "failed")
       /\ \E age \in Age : ended'[j] + age <= now]_vars

-----------------------------------------------------------------------------
(* Refinement: the contract's view of the records. *)
StatusView   == [j \in Job |-> IF db.jobs[j] = Absent THEN "absent" ELSE db.jobs[j].status]
AttemptsView == [j \in Job |-> IF db.jobs[j] = Absent THEN 0 ELSE db.jobs[j].attempts]
BudgetView   == [j \in Job |-> IF db.jobs[j] = Absent THEN 0 ELSE db.jobs[j].max_attempts]
TokenView    == [j \in Job |-> IF db.jobs[j] = Absent THEN NoToken ELSE db.jobs[j].token]
DelayedView  == [j \in Job |-> Stored(j, "queued") /\ db.jobs[j].available_at > now]
LapsedView   == [j \in Job |-> Stored(j, "processing") /\ db.jobs[j].lease_until <= now]

Contract == INSTANCE JobQueueContract WITH
  Budget <- {p.max : p \in Policy},
  status <- StatusView, attempts <- AttemptsView, maxAttempts <- BudgetView,
  delayed <- DelayedView, token <- TokenView, lapsed <- LapsedView

(* The script implements the queue contract: every invocation, with the     *)
(* recovery and indexing it does on the way, is one step of it or none.     *)
ImplementsContract == Contract!Spec
=============================================================================
