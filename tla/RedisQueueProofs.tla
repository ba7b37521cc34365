-------------------------- MODULE RedisQueueProofs --------------------------
(***************************************************************************)
(* Proofs of the properties of the Redis store, for any number of jobs,    *)
(* consumers, tokens, policies and pages of the index upgrade.             *)
(*                                                                         *)
(* The invariant has four parts.  Good(db) relates the records to the      *)
(* indexes and to the scan: each record is in the index of its status with *)
(* its own score and in no other, and a terminal record without a date is  *)
(* one the scan has still to read.  Leases ties the leases that consumers  *)
(* hold to the records; DatesTrue ties dates to history; Histories types   *)
(* the rest.  Good is shown per script step (RecoveredGood, TakeGood,      *)
(* MovedGood, IndexedGood, PurgedGood, EnqueuedGood), on any database b,   *)
(* because an invocation makes several of them in a row.                   *)
(*                                                                         *)
(* The last part shows that the store implements JobQueueContract.  It     *)
(* adds RecordsSound, what every record says of its budget, its delivery   *)
(* and its token, and maps each call to steps of the contract: the records *)
(* a recovery takes, the deliveries, and the answers to them, while the    *)
(* dating and the indexing of records are invisible.                       *)
(***************************************************************************)
EXTENDS RedisQueue, FiniteSetTheorems, TLAPS

KeyName == {"jobs", "ready", "leased", "completed", "failed", "sequence", "cursor",
            "unscanned"}

\* The keys have their types.
Shape(b) ==
  /\ b = [k \in KeyName |-> b[k]]
  /\ b.jobs \in [Job -> StoredJob \cup {Absent}]
  /\ b.ready = [m \in DOMAIN b.ready |-> b.ready[m]] /\ DOMAIN b.ready \subseteq Member
  /\ b.leased = [j \in DOMAIN b.leased |-> b.leased[j]] /\ DOMAIN b.leased \subseteq Job
  /\ b.completed = [j \in DOMAIN b.completed |-> b.completed[j]] /\ DOMAIN b.completed \subseteq Job
  /\ b.failed = [j \in DOMAIN b.failed |-> b.failed[j]] /\ DOMAIN b.failed \subseteq Job
  /\ b.sequence \in Nat
  /\ b.cursor \in {"none", "scanning", "done"}
  /\ b.unscanned \subseteq Job

\* A record is in the index of its status, with its score, and in no other.
InReady(b, j) ==
  /\ \A n \in Nat : <<n, j>> \in DOMAIN b.ready <=>
       StoredIn(b, j, "queued") /\ b.jobs[j].member = n
  /\ StoredIn(b, j, "queued") => b.ready[<<b.jobs[j].member, j>>] = b.jobs[j].available_at
InLeased(b, j) ==
  /\ j \in DOMAIN b.leased <=> StoredIn(b, j, "processing")
  /\ j \in DOMAIN b.leased => b.leased[j] = b.jobs[j].lease_until
InCompleted(b, j) ==
  /\ j \in DOMAIN b.completed <=> StoredIn(b, j, "completed") /\ b.jobs[j].terminal_at # Null
  /\ j \in DOMAIN b.completed => b.completed[j] = b.jobs[j].terminal_at
InFailed(b, j) ==
  /\ j \in DOMAIN b.failed <=> StoredIn(b, j, "failed") /\ b.jobs[j].terminal_at # Null
  /\ j \in DOMAIN b.failed => b.failed[j] = b.jobs[j].terminal_at

Listed(b, j) == InReady(b, j) /\ InLeased(b, j) /\ InCompleted(b, j) /\ InFailed(b, j)

\* Terminal records without a date are those the scan has still to read.
Scanned(b) ==
  b.cursor # "none" => \A j \in Job :
    (StoredIn(b, j, "completed") \/ StoredIn(b, j, "failed")) /\ b.jobs[j].terminal_at = Null
    => b.cursor = "scanning" /\ j \in b.unscanned

Good(b) == Shape(b) /\ (\A j \in Job : Listed(b, j)) /\ Scanned(b)

\* Recovered, key by key and job by job.
Spent(r) == r.attempts >= r.max_attempts
Back(r) == [ClearLease(r) EXCEPT !.status = IF Spent(r) THEN "failed" ELSE "queued",
                                 !.terminal_at = IF Spent(r) THEN now ELSE @]

LEMMA BackFields ==
  ASSUME now \in Nat, NEW r \in StoredJob
  PROVE  /\ Back(r) \in StoredJob
         /\ Back(r).status = IF Spent(r) THEN "failed" ELSE "queued"
         /\ Back(r).terminal_at = IF Spent(r) THEN now ELSE r.terminal_at
         /\ Back(r).member = r.member /\ Back(r).available_at = r.available_at
         /\ Back(r).token = NoToken /\ Back(r).lease_until = Null
BY DEF Back, ClearLease, StoredJob, Null

LEMMA RecoveredKeys ==
  ASSUME NEW b, Good(b), now \in Nat \ {0}, NEW R \in SUBSET DOMAIN b.leased
  PROVE  LET c == Recovered(b, R)
             spent == {j \in R : Spent(b.jobs[j])}
         IN  /\ c = [k \in KeyName |-> c[k]]
             /\ c.jobs = [j \in Job |-> IF j \in R THEN Back(b.jobs[j]) ELSE b.jobs[j]]
             /\ c.ready = ZAdd(b.ready, [m \in MembersOf(b, R \ spent) |-> b.jobs[m[2]].available_at])
             /\ c.leased = ZRem(b.leased, R)
             /\ c.failed = ZAdd(b.failed, [j \in spent |-> now])
             /\ c.completed = b.completed /\ c.sequence = b.sequence
             /\ c.cursor = b.cursor /\ c.unscanned = b.unscanned
<1> DEFINE spent == {j \in R : Spent(b.jobs[j])}
           back == [j \in R |-> Back(b.jobs[j])]
           jobs == [j \in Job |-> IF j \in DOMAIN back THEN back[j] ELSE b.jobs[j]]
           ready == ZAdd(b.ready, [m \in MembersOf(b, R \ spent) |-> b.jobs[m[2]].available_at])
           leased == ZRem(b.leased, R)
           failed == ZAdd(b.failed, [j \in spent |-> now])
<1>1. back = [j \in R |-> [ClearLease(b.jobs[j]) EXCEPT
                             !.status = IF j \in spent THEN "failed" ELSE "queued",
                             !.terminal_at = IF j \in spent THEN now ELSE @]]
  BY DEF Back
<1>2. Recovered(b, R) = [[b EXCEPT !.jobs = jobs] EXCEPT !.leased = leased, !.failed = failed, !.ready = ready]
  BY <1>1, Zenon DEF Recovered, Save, DeadIndexed, Spent
<1>3. b = [k \in KeyName |-> b[k]]
  BY DEF Good, Shape
<1>4. jobs = [j \in Job |-> IF j \in R THEN Back(b.jobs[j]) ELSE b.jobs[j]]
  OBVIOUS
<1> HIDE DEF spent, back, jobs, ready, leased, failed
<1>5. LET c == Recovered(b, R)
      IN  /\ c = [k \in KeyName |-> c[k]]
          /\ c.jobs = jobs /\ c.ready = ready /\ c.leased = leased /\ c.failed = failed
          /\ c.completed = b.completed /\ c.sequence = b.sequence
          /\ c.cursor = b.cursor /\ c.unscanned = b.unscanned
  BY <1>2, <1>3 DEF KeyName
<1> QED
  BY <1>4, <1>5, Zenon DEF spent, ready, leased, failed

LEMMA RecoveredGood ==
  ASSUME NEW b, Good(b), now \in Nat \ {0}, NEW R \in SUBSET DOMAIN b.leased
  PROVE  /\ Good(Recovered(b, R))
         /\ \A j \in Job \ R : Recovered(b, R).jobs[j] = b.jobs[j]
         /\ \A j \in R : Recovered(b, R).jobs[j] = Back(b.jobs[j])
<1> DEFINE spent == {j \in R : Spent(b.jobs[j])}
           again == R \ spent
           back == [m \in MembersOf(b, again) |-> b.jobs[m[2]].available_at]
<1> PICK c : c = Recovered(b, R)
  OBVIOUS
<1>1. /\ c = [k \in KeyName |-> c[k]]
      /\ c.jobs = [j \in Job |-> IF j \in R THEN Back(b.jobs[j]) ELSE b.jobs[j]]
      /\ c.ready = ZAdd(b.ready, back)
      /\ c.leased = ZRem(b.leased, R)
      /\ c.failed = ZAdd(b.failed, [j \in spent |-> now])
      /\ c.completed = b.completed /\ c.sequence = b.sequence
      /\ c.cursor = b.cursor /\ c.unscanned = b.unscanned
  BY RecoveredKeys
<1>2. /\ R \subseteq Job /\ \A j \in Job : b.jobs[j] \in StoredJob \cup {Absent}
      /\ \A j \in R : b.jobs[j] # Absent /\ b.jobs[j] \in StoredJob /\ b.jobs[j].status = "processing"
  BY DEF Good, Shape, Listed, InLeased, StoredIn
<1>3. \A j \in R : /\ Back(b.jobs[j]) \in StoredJob /\ Back(b.jobs[j]) # Absent
                   /\ Back(b.jobs[j]).status = IF j \in spent THEN "failed" ELSE "queued"
                   /\ j \in spent => Back(b.jobs[j]).terminal_at = now
                   /\ Back(b.jobs[j]).member = b.jobs[j].member
                   /\ Back(b.jobs[j]).available_at = b.jobs[j].available_at
  BY <1>2, BackFields, AbsentAssumption
<1>4. DOMAIN back = {<<b.jobs[j].member, j>> : j \in again} /\ DOMAIN back \subseteq Member
  BY <1>2 DEF MembersOf, MemberOf, Member, StoredJob
<1>5. \A j \in again : back[<<b.jobs[j].member, j>>] = b.jobs[j].available_at
  BY <1>4
<1> HIDE DEF back
<1>6. /\ DOMAIN c.ready = DOMAIN b.ready \cup DOMAIN back
      /\ c.ready = [m \in DOMAIN c.ready |-> c.ready[m]]
      /\ \A m \in DOMAIN back : c.ready[m] = back[m]
      /\ \A m \in DOMAIN b.ready \ DOMAIN back : c.ready[m] = b.ready[m]
  BY <1>1 DEF ZAdd
<1>7. /\ DOMAIN c.leased = DOMAIN b.leased \ R
      /\ c.leased = [j \in DOMAIN c.leased |-> c.leased[j]]
      /\ \A j \in DOMAIN c.leased : c.leased[j] = b.leased[j]
  BY <1>1 DEF ZRem
<1>8. /\ DOMAIN c.failed = DOMAIN b.failed \cup spent
      /\ c.failed = [j \in DOMAIN c.failed |-> c.failed[j]]
      /\ \A j \in spent : c.failed[j] = now
      /\ \A j \in DOMAIN b.failed \ spent : c.failed[j] = b.failed[j]
  <2> DEFINE dead == [j \in spent |-> now]
  <2>1. DOMAIN dead = spent /\ \A j \in spent : dead[j] = now
    OBVIOUS
  <2> HIDE DEF dead
  <2>2. c.failed = ZAdd(b.failed, dead)
    BY <1>1 DEF dead
  <2> QED
    BY <2>1, <2>2 DEF ZAdd
<1>9. /\ c = [k \in KeyName |-> c[k]]
      /\ \A j \in Job \ R : c.jobs[j] = b.jobs[j]
      /\ \A j \in R : c.jobs[j] = Back(b.jobs[j])
      /\ c.jobs = [j \in Job |-> c.jobs[j]]
      /\ c.completed = b.completed /\ c.sequence = b.sequence
      /\ c.cursor = b.cursor /\ c.unscanned = b.unscanned
  BY <1>1, <1>2
<1>10. Shape(b) /\ (\A j \in Job : Listed(b, j)) /\ Scanned(b)
  BY DEF Good
<1>11. Shape(c)
  <2>1. c.jobs \in [Job -> StoredJob \cup {Absent}]
    BY <1>2, <1>3, <1>9
  <2>2. DOMAIN c.ready \subseteq Member /\ DOMAIN c.leased \subseteq Job /\ DOMAIN c.failed \subseteq Job
    BY <1>2, <1>4, <1>6, <1>7, <1>8, <1>10 DEF Shape
  <2> QED
    BY <1>6, <1>7, <1>8, <1>9, <1>10, <2>1, <2>2 DEF Shape
<1>12. ASSUME NEW j \in Job PROVE Listed(c, j)
  <2>1. Listed(b, j) /\ (b.jobs[j] # Absent => b.jobs[j].member \in Nat)
    BY <1>2, <1>10 DEF StoredJob
  <2>2. CASE j \notin R
    <3>1. c.jobs[j] = b.jobs[j] /\ \A n \in Nat : <<n, j>> \notin DOMAIN back
      BY <1>4, <1>9, <2>2
    <3>2. InReady(c, j)
      BY <1>6, <2>1, <3>1 DEF Listed, InReady, StoredIn
    <3>3. InLeased(c, j)
      BY <1>7, <2>1, <2>2, <3>1 DEF Listed, InLeased, StoredIn
    <3>4. InCompleted(c, j)
      BY <1>9, <2>1, <3>1 DEF Listed, InCompleted, StoredIn
    <3>5. InFailed(c, j)
      BY <1>8, <2>1, <2>2, <3>1 DEF Listed, InFailed, StoredIn
    <3> QED
      BY <3>2, <3>3, <3>4, <3>5 DEF Listed
  <2>3. CASE j \in R
    <3>1. /\ c.jobs[j] = Back(b.jobs[j]) /\ c.jobs[j] # Absent
          /\ c.jobs[j].status = IF j \in spent THEN "failed" ELSE "queued"
          /\ StoredIn(b, j, "processing")
      BY <1>2, <1>3, <1>9, <2>3 DEF StoredIn
    <3>2. InReady(c, j)
      <4>1. \A n \in Nat : <<n, j>> \notin DOMAIN b.ready
        BY <2>1, <3>1 DEF Listed, InReady, StoredIn
      <4>2. \A n \in Nat : <<n, j>> \in DOMAIN back <=> j \in again /\ n = b.jobs[j].member
        BY <1>4, <2>1, <3>1 DEF StoredIn
      <4>3. /\ c.jobs[j].member = b.jobs[j].member
            /\ c.jobs[j].available_at = b.jobs[j].available_at
            /\ b.jobs[j].member \in Nat
        BY <1>2, <1>3, <2>3, <3>1 DEF StoredJob
      <4>4. CASE j \in again
        <5>1. <<b.jobs[j].member, j>> \in DOMAIN back
          BY <4>2, <4>3, <4>4
        <5>2. c.ready[<<b.jobs[j].member, j>>] = b.jobs[j].available_at
          BY <1>5, <1>6, <4>4, <5>1
        <5>3. StoredIn(c, j, "queued")
          BY <3>1, <4>4 DEF StoredIn
        <5> HIDE DEF again
        <5> QED
          BY <1>6, <4>1, <4>2, <4>3, <4>4, <5>2, <5>3 DEF InReady
      <4>5. CASE j \in spent
        BY <1>6, <3>1, <4>1, <4>2, <4>5 DEF InReady, StoredIn
      <4> QED
        BY <2>3, <4>4, <4>5
    <3>3. InLeased(c, j)
      BY <1>7, <2>3, <3>1 DEF InLeased, StoredIn
    <3>4. InCompleted(c, j)
      BY <1>9, <2>1, <3>1 DEF Listed, InCompleted, StoredIn
    <3>5. InFailed(c, j)
      <4>1. j \notin DOMAIN b.failed
        BY <2>1, <3>1 DEF Listed, InFailed, StoredIn
      <4>2. j \in spent => c.jobs[j].terminal_at = now
        BY <1>3, <2>3, <3>1
      <4> HIDE DEF spent, again
      <4> QED
        BY <1>8, <3>1, <4>1, <4>2 DEF InFailed, StoredIn, Null
    <3> QED
      BY <3>2, <3>3, <3>4, <3>5 DEF Listed
  <2> QED
    BY <2>2, <2>3
<1>13. Scanned(c)
  <2>1. ASSUME NEW j \in R, StoredIn(c, j, "completed") \/ StoredIn(c, j, "failed")
        PROVE  c.jobs[j].terminal_at # Null
    BY <1>3, <1>9, <2>1 DEF StoredIn, Null
  <2> QED
    BY <1>9, <1>10, <2>1 DEF Scanned, StoredIn
<1> QED
  BY <1>9, <1>11, <1>12, <1>13 DEF Good

\* What every step of the script has to show: S are the records it rewrites.
Same(b, c, j) ==
  /\ c.jobs[j] = b.jobs[j]
  /\ \A n \in Nat : /\ <<n, j>> \in DOMAIN c.ready <=> <<n, j>> \in DOMAIN b.ready
                    /\ <<n, j>> \in DOMAIN b.ready => c.ready[<<n, j>>] = b.ready[<<n, j>>]
  /\ j \in DOMAIN c.leased <=> j \in DOMAIN b.leased
  /\ j \in DOMAIN b.leased => c.leased[j] = b.leased[j]
  /\ j \in DOMAIN c.completed <=> j \in DOMAIN b.completed
  /\ j \in DOMAIN b.completed => c.completed[j] = b.completed[j]
  /\ j \in DOMAIN c.failed <=> j \in DOMAIN b.failed
  /\ j \in DOMAIN b.failed => c.failed[j] = b.failed[j]

Dated(c, j) == StoredIn(c, j, "completed") \/ StoredIn(c, j, "failed") => c.jobs[j].terminal_at # Null

LEMMA RewrittenGood ==
  ASSUME NEW b, Good(b), NEW c, Shape(c), NEW S \in SUBSET Job,
         \A j \in Job \ S : Same(b, c, j),
         \A j \in S : Listed(c, j) /\ Dated(c, j),
         c.cursor = b.cursor, c.unscanned = b.unscanned
  PROVE  Good(c)
<1>1. ASSUME NEW j \in Job \ S PROVE Listed(c, j)
  <2>1. Same(b, c, j) /\ Listed(b, j) /\ (b.jobs[j] # Absent => b.jobs[j].member \in Nat)
    BY DEF Good, Shape, StoredJob
  <2>2. InReady(c, j)
    BY <2>1 DEF Same, Listed, InReady, StoredIn
  <2>3. InLeased(c, j)
    BY <2>1 DEF Same, Listed, InLeased, StoredIn
  <2>4. InCompleted(c, j)
    BY <2>1 DEF Same, Listed, InCompleted, StoredIn
  <2>5. InFailed(c, j)
    BY <2>1 DEF Same, Listed, InFailed, StoredIn
  <2> QED
    BY <2>2, <2>3, <2>4, <2>5 DEF Listed
<1>2. Scanned(c)
  BY DEF Good, Scanned, Same, Dated, StoredIn
<1> QED
  BY <1>1, <1>2 DEF Good

Leasing(r, t, until) == [r EXCEPT !.status = "processing", !.attempts = @ + 1,
                                 !.token = t, !.lease_until = until]

LEMMA LeasingFields ==
  ASSUME NEW r \in StoredJob, NEW t \in Token, NEW until \in Nat
  PROVE  /\ Leasing(r, t, until) \in StoredJob
         /\ Leasing(r, t, until).status = "processing"
         /\ Leasing(r, t, until).token = t /\ Leasing(r, t, until).lease_until = until
         /\ Leasing(r, t, until).member = r.member
<1>1. r.attempts \in Nat /\ r.attempts + 1 \in Nat
  BY DEF StoredJob
<1> DEFINE q == [r EXCEPT !.status = "processing", !.attempts = r.attempts + 1,
                          !.token = t, !.lease_until = until]
<1>2. Leasing(r, t, until) = q
  BY DEF Leasing, StoredJob
<1>3. q \in StoredJob
  BY <1>1 DEF StoredJob
<1>4. q.status = "processing" /\ q.token = t /\ q.lease_until = until /\ q.member = r.member
  BY DEF StoredJob
<1> QED
  BY <1>2, <1>3, <1>4

LEMMA TakeGood ==
  ASSUME NEW b, Good(b), now \in Nat, NEW d \in Nat,
         NEW C \in SUBSET {j \in Job : StoredIn(b, j, "queued")}, NEW tok \in [C -> Token]
  PROVE  /\ Good(Take(b, C, tok, d))
         /\ \A j \in Job \ C : Take(b, C, tok, d).jobs[j] = b.jobs[j]
         /\ \A j \in C : LET r == Take(b, C, tok, d).jobs[j]
                         IN  /\ r \in StoredJob /\ r # Absent /\ r.status = "processing"
                             /\ r.token = tok[j] /\ r.lease_until = now + d
<1> DEFINE new == [j \in C |-> [b.jobs[j] EXCEPT !.status = "processing", !.attempts = @ + 1,
                                                !.token = tok[j], !.lease_until = now + d]]
           jobs == [j \in Job |-> IF j \in DOMAIN new THEN new[j] ELSE b.jobs[j]]
           ready == ZRem(b.ready, MembersOf(b, C))
           until == [j \in C |-> now + d]
           leased == ZAdd(b.leased, until)
<1> PICK c : c = Take(b, C, tok, d)
  OBVIOUS
<1>1. c = [[b EXCEPT !.jobs = jobs] EXCEPT !.ready = ready, !.leased = leased]
  BY Zenon DEF Take, Save
<1>2. Shape(b) /\ b = [k \in KeyName |-> b[k]] /\ \A j \in Job : Listed(b, j)
  BY DEF Good, Shape
<1>3. \A j \in C : j \in Job /\ b.jobs[j] \in StoredJob /\ b.jobs[j].status = "queued"
  BY <1>2 DEF Shape, StoredIn
<1>4. \A j \in C : /\ new[j] \in StoredJob /\ new[j] # Absent /\ new[j].status = "processing"
                   /\ new[j].token = tok[j] /\ new[j].lease_until = now + d
                   /\ new[j].member = b.jobs[j].member
  <2> SUFFICES ASSUME NEW j \in C
               PROVE  /\ new[j] \in StoredJob /\ new[j] # Absent
                      /\ new[j].status = "processing"
                      /\ new[j].token = tok[j] /\ new[j].lease_until = now + d
                      /\ new[j].member = b.jobs[j].member
    OBVIOUS
  <2>1. new[j] = Leasing(b.jobs[j], tok[j], now + d)
    BY DEF Leasing
  <2>2. b.jobs[j] \in StoredJob /\ tok[j] \in Token /\ now + d \in Nat
    BY <1>3
  <2> HIDE DEF new
  <2> QED
    BY <2>1, <2>2, LeasingFields, AbsentAssumption
<1>5. /\ \A j \in Job \ C : jobs[j] = b.jobs[j]
      /\ \A j \in C : jobs[j] = new[j]
      /\ jobs \in [Job -> StoredJob \cup {Absent}]
  BY <1>2, <1>3, <1>4 DEF Shape
<1>6. DOMAIN new = C /\ DOMAIN until = C /\ \A j \in C : until[j] = now + d
  OBVIOUS
<1> HIDE DEF new, jobs, ready, until, leased
<1>7. /\ c = [k \in KeyName |-> c[k]]
      /\ c.jobs = jobs /\ c.ready = ready /\ c.leased = leased
      /\ c.completed = b.completed /\ c.failed = b.failed
      /\ c.sequence = b.sequence /\ c.cursor = b.cursor /\ c.unscanned = b.unscanned
  BY <1>1, <1>2 DEF KeyName
<1>8. /\ DOMAIN c.ready = DOMAIN b.ready \ MembersOf(b, C)
      /\ c.ready = [m \in DOMAIN c.ready |-> c.ready[m]]
      /\ \A m \in DOMAIN c.ready : c.ready[m] = b.ready[m]
  BY <1>7 DEF ready, ZRem
<1>9. /\ DOMAIN c.leased = DOMAIN b.leased \cup C
      /\ c.leased = [j \in DOMAIN c.leased |-> c.leased[j]]
      /\ \A j \in C : c.leased[j] = now + d
      /\ \A j \in DOMAIN b.leased \ C : c.leased[j] = b.leased[j]
  BY <1>6, <1>7 DEF leased, ZAdd
<1>10. Shape(c)
  BY <1>2, <1>3, <1>5, <1>7, <1>8, <1>9 DEF Shape
<1>11. ASSUME NEW j \in Job \ C PROVE Same(b, c, j)
  <2>1. \A n \in Nat : <<n, j>> \notin MembersOf(b, C)
    BY DEF MembersOf, MemberOf
  <2> QED
    BY <1>5, <1>7, <1>8, <1>9, <2>1 DEF Same
<1>12. ASSUME NEW j \in C PROVE Listed(c, j) /\ Dated(c, j)
  <2>1. /\ c.jobs[j] = new[j] /\ c.jobs[j] # Absent /\ c.jobs[j].status = "processing"
        /\ Listed(b, j) /\ StoredIn(b, j, "queued")
    BY <1>2, <1>3, <1>4, <1>5, <1>7
  <2>2. InReady(c, j)
    <3>1. <<b.jobs[j].member, j>> \in MembersOf(b, C)
      BY DEF MembersOf, MemberOf
    <3> QED
      BY <1>8, <2>1, <3>1 DEF Listed, InReady, StoredIn
  <2>3. InLeased(c, j)
    BY <1>4, <1>9, <2>1 DEF InLeased, StoredIn
  <2>4. InCompleted(c, j)
    BY <1>7, <2>1 DEF Listed, InCompleted, StoredIn
  <2>5. InFailed(c, j)
    BY <1>7, <2>1 DEF Listed, InFailed, StoredIn
  <2> QED
    BY <2>1, <2>2, <2>3, <2>4, <2>5 DEF Listed, Dated, StoredIn
<1>13. Good(c)
  BY <1>7, <1>10, <1>11, <1>12, <1>3, RewrittenGood
<1> QED
  BY <1>4, <1>5, <1>7, <1>13

\* A step that rewrites one record, not a queued one, and moves its entry.
One(x, score) == [y \in {x} |-> score]

Moved(b, j, r, c) ==
  /\ c = [k \in KeyName |-> c[k]]
  /\ c.jobs = [b.jobs EXCEPT ![j] = r]
  /\ \/ r.status = "queued" /\ c.ready = ZAdd(b.ready, One(<<r.member, j>>, r.available_at))
     \/ r.status # "queued" /\ c.ready = b.ready
  /\ \/ r.status = "processing" /\ c.leased = ZAdd(b.leased, One(j, r.lease_until))
     \/ r.status # "processing" /\ c.leased = ZRem(b.leased, {j})
     \/ r.status # "processing" /\ c.leased = b.leased /\ j \notin DOMAIN b.leased
  /\ \/ r.status = "completed" /\ c.completed = ZAdd(b.completed, One(j, r.terminal_at))
     \/ r.status # "completed" /\ c.completed = b.completed /\ j \notin DOMAIN b.completed
  /\ \/ r.status = "failed" /\ c.failed = ZAdd(b.failed, One(j, r.terminal_at))
     \/ r.status # "failed" /\ c.failed = ZRem(b.failed, {j})
     \/ r.status # "failed" /\ c.failed = b.failed /\ j \notin DOMAIN b.failed
  /\ c.sequence = b.sequence /\ c.cursor = b.cursor /\ c.unscanned = b.unscanned

LEMMA MovedGood ==
  ASSUME NEW b, Good(b), NEW j \in Job, ~StoredIn(b, j, "queued"),
         NEW r \in StoredJob, r.status \in {"completed", "failed"} => r.terminal_at # Null,
         NEW c, Moved(b, j, r, c)
  PROVE  Good(c)
<1>1. Shape(b) /\ \A i \in Job : Listed(b, i)
  BY DEF Good
<1>2. /\ c = [k \in KeyName |-> c[k]]
      /\ c.jobs \in [Job -> StoredJob \cup {Absent}] /\ c.jobs[j] = r
      /\ \A i \in Job \ {j} : c.jobs[i] = b.jobs[i]
      /\ c.sequence = b.sequence /\ c.cursor = b.cursor /\ c.unscanned = b.unscanned
  <2>1. b.jobs \in [Job -> StoredJob \cup {Absent}]
    BY <1>1 DEF Shape
  <2>2. c.jobs = [b.jobs EXCEPT ![j] = r]
    BY DEF Moved
  <2>3. c.jobs \in [Job -> StoredJob \cup {Absent}]
    BY <2>1, <2>2
  <2>4. c.jobs[j] = r /\ \A i \in Job \ {j} : c.jobs[i] = b.jobs[i]
    BY <2>1, <2>2
  <2>5. /\ c = [k \in KeyName |-> c[k]]
        /\ c.sequence = b.sequence /\ c.cursor = b.cursor /\ c.unscanned = b.unscanned
    BY DEF Moved
  <2> QED BY <2>3, <2>4, <2>5
<1>3. r # Absent /\ r.member \in Nat
  BY AbsentAssumption DEF StoredJob
<1>4. /\ c.ready = [m \in DOMAIN c.ready |-> c.ready[m]]
      /\ DOMAIN c.ready = IF r.status = "queued" THEN DOMAIN b.ready \cup {<<r.member, j>>}
                                                ELSE DOMAIN b.ready
      /\ r.status = "queued" => c.ready[<<r.member, j>>] = r.available_at
      /\ \A m \in DOMAIN b.ready \ {<<r.member, j>>} : c.ready[m] = b.ready[m]
  <2>1. CASE r.status = "queued" /\ c.ready = ZAdd(b.ready, One(<<r.member, j>>, r.available_at))
    BY <2>1 DEF ZAdd, One
  <2>2. CASE r.status # "queued" /\ c.ready = b.ready
    BY <1>1, <2>2 DEF Shape
  <2> QED
    BY <2>1, <2>2 DEF Moved
<1>5. /\ c.leased = [i \in DOMAIN c.leased |-> c.leased[i]]
      /\ DOMAIN c.leased = IF r.status = "processing" THEN DOMAIN b.leased \cup {j}
                                                     ELSE DOMAIN b.leased \ {j}
      /\ r.status = "processing" => c.leased[j] = r.lease_until
      /\ \A i \in DOMAIN b.leased \ {j} : c.leased[i] = b.leased[i]
  <2>1. CASE r.status = "processing" /\ c.leased = ZAdd(b.leased, One(j, r.lease_until))
    BY <2>1 DEF ZAdd, One
  <2>2. CASE r.status # "processing" /\ c.leased = ZRem(b.leased, {j})
    BY <2>2 DEF ZRem
  <2>3. CASE r.status # "processing" /\ c.leased = b.leased /\ j \notin DOMAIN b.leased
    BY <1>1, <2>3 DEF Shape
  <2> QED
    BY <2>1, <2>2, <2>3 DEF Moved
<1>6. /\ c.completed = [i \in DOMAIN c.completed |-> c.completed[i]]
      /\ DOMAIN c.completed = IF r.status = "completed" THEN DOMAIN b.completed \cup {j}
                                                       ELSE DOMAIN b.completed \ {j}
      /\ r.status = "completed" => c.completed[j] = r.terminal_at
      /\ \A i \in DOMAIN b.completed \ {j} : c.completed[i] = b.completed[i]
  <2>1. CASE r.status = "completed" /\ c.completed = ZAdd(b.completed, One(j, r.terminal_at))
    BY <2>1 DEF ZAdd, One
  <2>2. CASE r.status # "completed" /\ c.completed = b.completed /\ j \notin DOMAIN b.completed
    BY <1>1, <2>2 DEF Shape
  <2> QED
    BY <2>1, <2>2 DEF Moved
<1>7. /\ c.failed = [i \in DOMAIN c.failed |-> c.failed[i]]
      /\ DOMAIN c.failed = IF r.status = "failed" THEN DOMAIN b.failed \cup {j}
                                                 ELSE DOMAIN b.failed \ {j}
      /\ r.status = "failed" => c.failed[j] = r.terminal_at
      /\ \A i \in DOMAIN b.failed \ {j} : c.failed[i] = b.failed[i]
  <2>1. CASE r.status = "failed" /\ c.failed = ZAdd(b.failed, One(j, r.terminal_at))
    BY <2>1 DEF ZAdd, One
  <2>2. CASE r.status # "failed" /\ c.failed = ZRem(b.failed, {j})
    BY <2>2 DEF ZRem
  <2>3. CASE r.status # "failed" /\ c.failed = b.failed /\ j \notin DOMAIN b.failed
    BY <1>1, <2>3 DEF Shape
  <2> QED
    BY <2>1, <2>2, <2>3 DEF Moved
<1>8. Shape(c)
  <2>1. /\ DOMAIN b.ready \subseteq Member /\ DOMAIN b.leased \subseteq Job
        /\ DOMAIN b.completed \subseteq Job /\ DOMAIN b.failed \subseteq Job
    BY <1>1 DEF Shape
  <2>2. DOMAIN c.ready \subseteq DOMAIN b.ready \cup {<<r.member, j>>} /\ <<r.member, j>> \in Member
    BY <1>3, <1>4 DEF Member
  <2>3. DOMAIN c.ready \subseteq Member
    BY <2>1, <2>2
  <2>4. /\ DOMAIN c.leased \subseteq DOMAIN b.leased \cup {j}
        /\ DOMAIN c.completed \subseteq DOMAIN b.completed \cup {j}
        /\ DOMAIN c.failed \subseteq DOMAIN b.failed \cup {j}
    BY <1>5, <1>6, <1>7
  <2>5. DOMAIN c.leased \subseteq Job /\ DOMAIN c.completed \subseteq Job /\ DOMAIN c.failed \subseteq Job
    BY <2>1, <2>4
  <2> QED
    BY <1>1, <1>2, <1>4, <1>5, <1>6, <1>7, <2>3, <2>5 DEF Shape
<1>9. ASSUME NEW i \in Job \ {j} PROVE Same(b, c, i)
  <2>1. \A n \in Nat : <<n, i>> # <<r.member, j>>
    OBVIOUS
  <2>2. \A n \in Nat : /\ <<n, i>> \in DOMAIN c.ready <=> <<n, i>> \in DOMAIN b.ready
                       /\ <<n, i>> \in DOMAIN b.ready => c.ready[<<n, i>>] = b.ready[<<n, i>>]
    BY <1>4, <2>1
  <2>3. /\ i \in DOMAIN c.leased <=> i \in DOMAIN b.leased
        /\ i \in DOMAIN b.leased => c.leased[i] = b.leased[i]
    BY <1>5
  <2>4. /\ i \in DOMAIN c.completed <=> i \in DOMAIN b.completed
        /\ i \in DOMAIN b.completed => c.completed[i] = b.completed[i]
    BY <1>6
  <2>5. /\ i \in DOMAIN c.failed <=> i \in DOMAIN b.failed
        /\ i \in DOMAIN b.failed => c.failed[i] = b.failed[i]
    BY <1>7
  <2> QED
    BY <1>2, <2>2, <2>3, <2>4, <2>5 DEF Same
<1>10. InReady(c, j)
  <2>1. \A n \in Nat : <<n, j>> \notin DOMAIN b.ready
    BY <1>1 DEF Listed, InReady
  <2> QED
    BY <1>2, <1>3, <1>4, <2>1 DEF InReady, StoredIn
<1>11. InLeased(c, j) /\ InCompleted(c, j) /\ InFailed(c, j)
  BY <1>2, <1>3, <1>5, <1>6, <1>7 DEF InLeased, InCompleted, InFailed, StoredIn
<1>12. Dated(c, j)
  BY <1>2 DEF Dated, StoredIn
<1>13. \A i \in {j} : Listed(c, i) /\ Dated(c, i)
  BY <1>10, <1>11, <1>12 DEF Listed
<1>14. {j} \in SUBSET Job
  OBVIOUS
<1> QED
  BY <1>2, <1>8, <1>9, <1>13, <1>14, RewrittenGood, Zenon

\* A page of the scan dates and indexes the terminal records on it.
Terminal(b, j) == StoredIn(b, j, "completed") \/ StoredIn(b, j, "failed")
Dating(j) == [db.jobs[j] EXCEPT !.terminal_at = DateObserved(j)]

LEMMA DatingFields ==
  ASSUME now \in Nat \ {0}, NEW j \in Job, db.jobs[j] \in StoredJob
  PROVE  /\ Dating(j) \in StoredJob
         /\ Dating(j).status = db.jobs[j].status /\ Dating(j).member = db.jobs[j].member
         /\ Dating(j).token = db.jobs[j].token /\ Dating(j).lease_until = db.jobs[j].lease_until
         /\ Dating(j).terminal_at # Null
         /\ db.jobs[j].terminal_at # Null => Dating(j) = db.jobs[j]
         /\ Dating(j).terminal_at = IF db.jobs[j].terminal_at = Null THEN now
                                                                  ELSE db.jobs[j].terminal_at
<1>1. DateObserved(j) \in Nat \ {0}
  BY DEF DateObserved, StoredJob, Null
<1>2. DateObserved(j) = IF db.jobs[j].terminal_at = Null THEN now ELSE db.jobs[j].terminal_at
  BY DEF DateObserved
<1>3. db.jobs[j].terminal_at # Null => Dating(j) = db.jobs[j]
  BY <1>2 DEF Dating, StoredJob
<1> QED
  BY <1>1, <1>2, <1>3 DEF Dating, StoredJob, Null

LEMMA IndexedGood ==
  ASSUME Good(db), now \in Nat \ {0}, NEW P \in SUBSET StoredIds,
         NEW cursor \in {"scanning", "done"}, cursor = "done" => Unscanned \subseteq P,
         db.cursor # "done"
  PROVE  /\ Good(Indexed(P, cursor))
         /\ \A j \in Job : Indexed(P, cursor).jobs[j] =
              IF j \in P /\ Terminal(db, j) THEN Dating(j) ELSE db.jobs[j]
         /\ Indexed(P, cursor).cursor = cursor
<1> DEFINE done == {j \in P : Stored(j, "completed")}
           dead == {j \in P : Stored(j, "failed")}
           new == [j \in done \cup dead |-> Dating(j)]
           jobs == [j \in Job |-> IF j \in DOMAIN new THEN new[j] ELSE db.jobs[j]]
           completed == ZAdd(db.completed, [j \in done |-> Save(db, new).jobs[j].terminal_at])
           failed == ZAdd(db.failed, [j \in dead |-> Save(db, new).jobs[j].terminal_at])
           unscanned == IF cursor = "done" THEN {} ELSE Unscanned \ P
<1> PICK c : c = Indexed(P, cursor)
  OBVIOUS
<1>1. c = [[db EXCEPT !.jobs = jobs] EXCEPT !.completed = completed, !.failed = failed,
                                         !.cursor = cursor, !.unscanned = unscanned]
  BY Zenon DEF Indexed, Save, Dating
<1>2. Shape(db) /\ db = [k \in KeyName |-> db[k]] /\ (\A j \in Job : Listed(db, j)) /\ Scanned(db)
  BY DEF Good, Shape
<1>3. /\ P \subseteq Job /\ done \subseteq Job /\ dead \subseteq Job
      /\ \A j \in P : db.jobs[j] \in StoredJob
  BY <1>2 DEF Shape, StoredIds
<1>4. /\ \A j \in Job : jobs[j] = IF j \in P /\ Terminal(db, j) THEN Dating(j) ELSE db.jobs[j]
      /\ jobs = [j \in Job |-> jobs[j]]
  BY <1>3 DEF Terminal, Stored
<1>5. Save(db, new).jobs = jobs
  BY <1>2 DEF Save, KeyName
<1> HIDE DEF new, jobs
<1>6. \A j \in P : Terminal(db, j) =>
        /\ jobs[j] \in StoredJob /\ jobs[j] # Absent
        /\ jobs[j].status = db.jobs[j].status /\ jobs[j].terminal_at # Null
        /\ db.jobs[j].terminal_at # Null => jobs[j] = db.jobs[j]
  BY <1>3, <1>4, DatingFields, AbsentAssumption
<1>7. completed = ZAdd(db.completed, [j \in done |-> jobs[j].terminal_at])
  BY <1>5
<1>8. failed = ZAdd(db.failed, [j \in dead |-> jobs[j].terminal_at])
  BY <1>5
<1> HIDE DEF completed, failed, unscanned
<1>9. /\ c = [k \in KeyName |-> c[k]]
      /\ c.jobs = jobs /\ c.completed = completed /\ c.failed = failed
      /\ c.ready = db.ready /\ c.leased = db.leased /\ c.sequence = db.sequence
      /\ c.cursor = cursor /\ c.unscanned = unscanned
  BY <1>1, <1>2 DEF KeyName
<1>10. /\ DOMAIN c.completed = DOMAIN db.completed \cup done
       /\ c.completed = [j \in DOMAIN c.completed |-> c.completed[j]]
       /\ \A j \in done : c.completed[j] = jobs[j].terminal_at
       /\ \A j \in DOMAIN db.completed \ done : c.completed[j] = db.completed[j]
  BY <1>7, <1>9 DEF ZAdd
<1>11. /\ DOMAIN c.failed = DOMAIN db.failed \cup dead
       /\ c.failed = [j \in DOMAIN c.failed |-> c.failed[j]]
       /\ \A j \in dead : c.failed[j] = jobs[j].terminal_at
       /\ \A j \in DOMAIN db.failed \ dead : c.failed[j] = db.failed[j]
  BY <1>8, <1>9 DEF ZAdd
<1>12. Shape(c)
  <2>1. c.jobs \in [Job -> StoredJob \cup {Absent}]
    <3>1. \A j \in Job : jobs[j] \in StoredJob \cup {Absent}
      BY <1>2, <1>4, <1>6 DEF Shape
    <3> QED
      BY <1>4, <1>9, <3>1
  <2>2. c.unscanned \subseteq Job
    BY <1>2, <1>9 DEF Shape, unscanned, Unscanned, StoredIds
  <2>3. DOMAIN c.completed \subseteq Job /\ DOMAIN c.failed \subseteq Job
    BY <1>2, <1>3, <1>10, <1>11 DEF Shape
  <2> QED
    BY <1>2, <1>9, <1>10, <1>11, <2>1, <2>2, <2>3 DEF Shape
<1>13. ASSUME NEW j \in Job PROVE Listed(c, j)
  <2>1. Listed(db, j)
    BY <1>2
  <2>2. CASE ~(j \in P /\ Terminal(db, j))
    <3>1. c.jobs[j] = db.jobs[j] /\ j \notin done /\ j \notin dead
      BY <1>4, <1>9, <2>2 DEF Terminal, Stored
    <3>2. InReady(c, j) /\ InLeased(c, j)
      BY <1>9, <2>1, <3>1 DEF Listed, InReady, InLeased, StoredIn
    <3> HIDE DEF done, dead
    <3>3. InCompleted(c, j)
      BY <1>10, <2>1, <3>1 DEF Listed, InCompleted, StoredIn
    <3>4. InFailed(c, j)
      BY <1>11, <2>1, <3>1 DEF Listed, InFailed, StoredIn
    <3> QED
      BY <3>2, <3>3, <3>4 DEF Listed
  <2>3. CASE j \in P /\ Terminal(db, j)
    <3>1. /\ c.jobs[j] = jobs[j] /\ jobs[j] # Absent /\ jobs[j].terminal_at # Null
          /\ jobs[j].status = db.jobs[j].status /\ db.jobs[j] # Absent
          /\ j \in done <=> db.jobs[j].status = "completed"
          /\ j \in dead <=> db.jobs[j].status = "failed"
      BY <1>6, <1>9, <2>3 DEF Terminal, Stored, StoredIn
    <3>2. db.jobs[j].status \in {"completed", "failed"}
      BY <2>3 DEF Terminal, StoredIn
    <3>3. InReady(c, j) /\ InLeased(c, j)
      BY <1>9, <2>1, <3>1, <3>2 DEF Listed, InReady, InLeased, StoredIn
    <3> HIDE DEF done, dead
    <3>4. InCompleted(c, j)
      BY <1>10, <2>1, <3>1, <3>2 DEF Listed, InCompleted, StoredIn
    <3>5. InFailed(c, j)
      BY <1>11, <2>1, <3>1, <3>2 DEF Listed, InFailed, StoredIn
    <3> QED
      BY <3>3, <3>4, <3>5 DEF Listed
  <2> QED
    BY <2>2, <2>3
<1>14. Scanned(c)
  <2> SUFFICES ASSUME NEW j \in Job, StoredIn(c, j, "completed") \/ StoredIn(c, j, "failed"),
                      c.jobs[j].terminal_at = Null
               PROVE  cursor = "scanning" /\ j \in c.unscanned
    BY <1>9 DEF Scanned
  <2>1. ~(j \in P /\ Terminal(db, j)) /\ c.jobs[j] = db.jobs[j]
    BY <1>4, <1>6, <1>9
  <2>2. j \notin P /\ j \in StoredIds
    BY <2>1 DEF Terminal, StoredIn, StoredIds
  <2>3. j \in Unscanned
    BY <1>2, <2>1, <2>2 DEF Scanned, Unscanned, StoredIn
  <2> QED
    BY <1>9, <2>2, <2>3 DEF unscanned
<1> QED
  BY <1>4, <1>9, <1>12, <1>13, <1>14 DEF Good

\* purge_terminal and enqueue_batch.
IsPurged(b, st, S, c) ==
  c = [b EXCEPT !.jobs = [j \in Job |-> IF j \in S THEN Absent ELSE @[j]],
                !.failed = IF st = "failed" THEN ZRem(@, S) ELSE @,
                !.completed = IF st = "completed" THEN ZRem(@, S) ELSE @]

IsEnqueued(b, n, B, place, new, c) ==
  c = [Save(b, new) EXCEPT
         !.sequence = @ + n,
         !.ready = ZAdd(b.ready, [m \in {<<place[j], j>> : j \in B} |-> now])]

LEMMA PurgedGood ==
  ASSUME NEW b, Good(b), NEW st \in {"completed", "failed"}, NEW S \in SUBSET Job,
         \A j \in S : StoredIn(b, j, st),
         NEW c, IsPurged(b, st, S, c)
  PROVE  Good(c)
<1> DEFINE jobs == [j \in Job |-> IF j \in S THEN Absent ELSE b.jobs[j]]
           failed == IF st = "failed" THEN ZRem(b.failed, S) ELSE b.failed
           completed == IF st = "completed" THEN ZRem(b.completed, S) ELSE b.completed
<1>1. Shape(b) /\ b = [k \in KeyName |-> b[k]] /\ (\A j \in Job : Listed(b, j))
  BY DEF Good, Shape
<1>2. c = [b EXCEPT !.jobs = jobs, !.failed = failed, !.completed = completed]
  BY <1>1 DEF KeyName, IsPurged
<1>3. /\ jobs \in [Job -> StoredJob \cup {Absent}]
      /\ \A j \in S : jobs[j] = Absent
      /\ \A j \in Job \ S : jobs[j] = b.jobs[j]
  BY <1>1 DEF Shape
<1>4. /\ DOMAIN failed = IF st = "failed" THEN DOMAIN b.failed \ S ELSE DOMAIN b.failed
      /\ failed = [j \in DOMAIN failed |-> failed[j]]
      /\ \A j \in DOMAIN failed : failed[j] = b.failed[j]
  BY <1>1 DEF ZRem, Shape
<1>5. /\ DOMAIN completed = IF st = "completed" THEN DOMAIN b.completed \ S ELSE DOMAIN b.completed
      /\ completed = [j \in DOMAIN completed |-> completed[j]]
      /\ \A j \in DOMAIN completed : completed[j] = b.completed[j]
  BY <1>1 DEF ZRem, Shape
<1> HIDE DEF jobs, failed, completed
<1>6. /\ c = [k \in KeyName |-> c[k]]
      /\ c.jobs = jobs /\ c.completed = completed /\ c.failed = failed
      /\ c.ready = b.ready /\ c.leased = b.leased /\ c.sequence = b.sequence
      /\ c.cursor = b.cursor /\ c.unscanned = b.unscanned
  BY <1>1, <1>2 DEF KeyName
<1>7. Shape(c)
  <2>1. DOMAIN failed \subseteq Job /\ DOMAIN completed \subseteq Job
    BY <1>1, <1>4, <1>5 DEF Shape
  <2>2. c.failed = [j \in DOMAIN c.failed |-> c.failed[j]] /\ DOMAIN c.failed \subseteq Job
    BY <1>4, <1>6, <2>1
  <2>3. c.completed = [j \in DOMAIN c.completed |-> c.completed[j]] /\ DOMAIN c.completed \subseteq Job
    BY <1>5, <1>6, <2>1
  <2> QED
    BY <1>1, <1>3, <1>6, <2>2, <2>3 DEF Shape
<1>8. ASSUME NEW j \in Job \ S PROVE Same(b, c, j)
  BY <1>3, <1>4, <1>5, <1>6 DEF Same
<1>9. ASSUME NEW j \in S PROVE Listed(c, j) /\ Dated(c, j)
  <2>1. c.jobs[j] = Absent /\ Listed(b, j) /\ b.jobs[j] # Absent /\ b.jobs[j].status = st
    BY <1>1, <1>3, <1>6 DEF StoredIn
  <2>2. InReady(c, j) /\ InLeased(c, j)
    BY <1>6, <2>1 DEF Listed, InReady, InLeased, StoredIn
  <2>3. InCompleted(c, j) /\ InFailed(c, j)
    BY <1>4, <1>5, <1>6, <2>1 DEF Listed, InCompleted, InFailed, StoredIn
  <2> QED
    BY <2>1, <2>2, <2>3 DEF Listed, Dated, StoredIn
<1> QED
  BY <1>6, <1>7, <1>8, <1>9, RewrittenGood, Zenon

LEMMA EnqueuedGood ==
  ASSUME NEW b, Good(b), now \in Nat, NEW n \in Nat, NEW B \in SUBSET Job,
         \A j \in B : b.jobs[j] = Absent,
         NEW place \in [B -> Nat], NEW new \in [B -> StoredJob],
         \A j \in B : /\ new[j].status = "queued" /\ new[j].member = place[j]
                      /\ new[j].available_at = now,
         NEW c, IsEnqueued(b, n, B, place, new, c)
  PROVE  Good(c)
<1> DEFINE jobs == [j \in Job |-> IF j \in DOMAIN new THEN new[j] ELSE b.jobs[j]]
           added == [m \in {<<place[j], j>> : j \in B} |-> now]
           ready == ZAdd(b.ready, added)
<1>1. Shape(b) /\ b = [k \in KeyName |-> b[k]] /\ (\A j \in Job : Listed(b, j))
  BY DEF Good, Shape
<1>2. c = [[b EXCEPT !.jobs = jobs] EXCEPT !.sequence = b.sequence + n, !.ready = ready]
  BY <1>1 DEF Save, KeyName, IsEnqueued
<1>3. /\ jobs \in [Job -> StoredJob \cup {Absent}]
      /\ \A j \in B : jobs[j] = new[j]
      /\ \A j \in Job \ B : jobs[j] = b.jobs[j]
  BY <1>1 DEF Shape
<1>4. /\ DOMAIN added = {<<place[j], j>> : j \in B}
      /\ \A m \in DOMAIN added : added[m] = now
  OBVIOUS
<1> HIDE DEF jobs, added
<1>5. /\ DOMAIN ready = DOMAIN b.ready \cup DOMAIN added
      /\ ready = [m \in DOMAIN ready |-> ready[m]]
      /\ \A m \in DOMAIN added : ready[m] = now
      /\ \A m \in DOMAIN b.ready \ DOMAIN added : ready[m] = b.ready[m]
  BY <1>4 DEF ZAdd
<1> HIDE DEF ready
<1>6. /\ c = [k \in KeyName |-> c[k]]
      /\ c.jobs = jobs /\ c.ready = ready /\ c.sequence = b.sequence + n
      /\ c.completed = b.completed /\ c.failed = b.failed /\ c.leased = b.leased
      /\ c.cursor = b.cursor /\ c.unscanned = b.unscanned
  BY <1>1, <1>2 DEF KeyName
<1>7. Shape(c)
  <2>1. DOMAIN b.ready \subseteq Member /\ DOMAIN added \subseteq Member
    <3>1. \A j \in B : place[j] \in Nat /\ j \in Job
      OBVIOUS
    <3>2. DOMAIN added \subseteq Member
      BY <1>4, <3>1 DEF Member
    <3> QED
      BY <1>1, <3>2 DEF Shape
  <2>2. c.ready = [m \in DOMAIN c.ready |-> c.ready[m]] /\ DOMAIN c.ready \subseteq Member
    BY <1>5, <1>6, <2>1
  <2>3. c.sequence \in Nat
    BY <1>1, <1>6 DEF Shape
  <2> QED
    BY <1>1, <1>3, <1>6, <2>2, <2>3 DEF Shape
<1>8. ASSUME NEW j \in Job \ B PROVE Same(b, c, j)
  <2>1. \A k \in Nat : <<k, j>> \notin DOMAIN added
    BY <1>4
  <2> QED
    BY <1>3, <1>5, <1>6, <2>1 DEF Same
<1>9. ASSUME NEW j \in B PROVE Listed(c, j) /\ Dated(c, j)
  <2>1. /\ c.jobs[j] = new[j] /\ new[j] # Absent /\ Listed(b, j) /\ b.jobs[j] = Absent
        /\ new[j].status = "queued" /\ new[j].member = place[j] /\ new[j].available_at = now
    <3>1. new[j] \in StoredJob
      OBVIOUS
    <3> QED
      BY <1>1, <1>3, <1>6, <3>1, AbsentAssumption
  <2>2. /\ <<place[j], j>> \in DOMAIN added
        /\ \A k \in Nat : <<k, j>> \in DOMAIN added => k = place[j]
    BY <1>4
  <2>3. InReady(c, j)
    BY <1>4, <1>5, <1>6, <2>1, <2>2 DEF Listed, InReady, StoredIn
  <2>4. InLeased(c, j) /\ InCompleted(c, j) /\ InFailed(c, j)
    BY <1>6, <2>1 DEF Listed, InLeased, InCompleted, InFailed, StoredIn
  <2> QED
    BY <2>1, <2>3, <2>4 DEF Listed, Dated, StoredIn
<1> QED
  BY <1>6, <1>7, <1>8, <1>9, RewrittenGood, Zenon

-----------------------------------------------------------------------------
(* The histories and the leases that consumers hold.                        *)
Histories ==
  /\ now \in 1..MaxTime
  /\ held \subseteq LeaseRecord
  /\ issued \in [Job -> SUBSET Token]
  /\ outcome \in [Token -> {"open", "acked", "failed"}]
  /\ ended \in [Job -> Nat]
  /\ arrivals \in 0..MaxArrivals

\* A held lease has a token of its own, one that was issued for its job, and
\* while it runs the job is leased with it, at least as long.
Leases ==
  /\ \A l \in held : l.token \in issued[l.job]
  /\ \A l, k \in held : l.token = k.token => l = k
  /\ \A l \in held : l.open /\ l.until > now =>
       /\ Stored(l.job, "processing")
       /\ db.jobs[l.job].token = l.token
       /\ db.jobs[l.job].lease_until >= l.until

\* A dated record became terminal when it says.
DatesTrue ==
  \A j \in Job : Terminal(db, j) /\ db.jobs[j].terminal_at # Null =>
    ended[j] = db.jobs[j].terminal_at

RedisInv == Good(db) /\ Histories /\ Leases /\ DatesTrue

\* No record disappears.
Kept == \A j \in Job : db.jobs[j] # Absent => db'.jobs[j] # Absent

LEMMA RedisInit == ASSUME Init PROVE RedisInv
<1>1. PICK S \in [Job -> {"absent", "completed", "failed"}], p \in Policy :
        db = [jobs |-> [j \in Job |-> IF S[j] = "absent" THEN Absent ELSE Legacy(j, S[j], p)],
              ready |-> <<>>, leased |-> <<>>, completed |-> <<>>, failed |-> <<>>,
              sequence |-> 0, cursor |-> "none", unscanned |-> {}]
  BY DEF Init
<1>2. \A j \in Job : S[j] # "absent" =>
        /\ Legacy(j, S[j], p) \in StoredJob /\ Legacy(j, S[j], p) # Absent
        /\ Legacy(j, S[j], p).status \in {"completed", "failed"}
        /\ Legacy(j, S[j], p).terminal_at = Null
  BY RedisAssumption, AbsentAssumption DEF Legacy, StoredJob, Null
<1>3. /\ db = [k \in KeyName |-> db[k]]
      /\ db.jobs = [j \in Job |-> IF S[j] = "absent" THEN Absent ELSE Legacy(j, S[j], p)]
      /\ db.ready = <<>> /\ db.leased = <<>> /\ db.completed = <<>> /\ db.failed = <<>>
      /\ db.sequence = 0 /\ db.cursor = "none" /\ db.unscanned = {}
  BY <1>1 DEF KeyName
<1>4. DOMAIN <<>> = {} /\ <<>> = [x \in {} |-> x]
  OBVIOUS
<1>5. Shape(db)
  <2>1. db.jobs \in [Job -> StoredJob \cup {Absent}]
    BY <1>2, <1>3
  <2>2. <<>> = [x \in DOMAIN <<>> |-> <<>>[x]]
    OBVIOUS
  <2> QED BY <1>3, <1>4, <2>1, <2>2 DEF Shape
<1>6. ASSUME NEW j \in Job PROVE Listed(db, j)
  BY <1>2, <1>3, <1>4 DEF Listed, InReady, InLeased, InCompleted, InFailed, StoredIn
<1>7. Good(db)
  BY <1>3, <1>5, <1>6 DEF Good, Scanned
<1>8. DatesTrue
  BY <1>2, <1>3 DEF DatesTrue, Terminal, StoredIn
<1>9. Histories /\ Leases
  BY RedisAssumption DEF Init, Histories, Leases
<1> QED
  BY <1>7, <1>8, <1>9 DEF RedisInv

-----------------------------------------------------------------------------
LEMMA LowestLeases ==
  ASSUME RedisInv, NEW R \in SUBSET Job, IsLowest(db.leased, now, RecoverLimit, R)
  PROVE  /\ R \in SUBSET DOMAIN db.leased
         /\ \A j \in R : Stored(j, "processing") /\ db.jobs[j].lease_until <= now
         /\ \A j \in Job \ R : Recovered(db, R).jobs[j] = db.jobs[j]
         /\ \A j \in R : Recovered(db, R).jobs[j] = Back(db.jobs[j])
         /\ Good(Recovered(db, R))
<1>1. R \in SUBSET DOMAIN db.leased /\ \A j \in R : db.leased[j] <= now
  BY DEF IsLowest
<1>2. \A j \in R : Stored(j, "processing") /\ db.jobs[j].lease_until <= now
  BY <1>1 DEF RedisInv, Good, Listed, InLeased, Stored
<1>3. Good(db) /\ now \in Nat \ {0}
  BY DEF RedisInv, Histories
<1> QED
  BY <1>1, <1>2, <1>3, RecoveredGood

\* Recovery dates the dead letters it makes, and no other record.
LEMMA DatesAfterRecovery ==
  ASSUME RedisInv, NEW R \in SUBSET Job, IsLowest(db.leased, now, RecoverLimit, R),
         Ends(Newly("failed", Recovered(db, R))),
         NEW j \in Job, Terminal(Recovered(db, R), j), Recovered(db, R).jobs[j].terminal_at # Null
  PROVE  ended'[j] = Recovered(db, R).jobs[j].terminal_at
<1>1. CASE j \notin R
  <2>1. Recovered(db, R).jobs[j] = db.jobs[j]
    BY <1>1, LowestLeases
  <2>2. Terminal(db, j) /\ ended[j] = db.jobs[j].terminal_at
    BY <2>1 DEF RedisInv, DatesTrue, Terminal, StoredIn
  <2>3. j \notin Newly("failed", Recovered(db, R))
    BY <2>1 DEF Newly, Stored, StoredIn
  <2> QED
    BY <2>1, <2>2, <2>3 DEF Ends
<1>2. CASE j \in R
  <2>1. /\ Recovered(db, R).jobs[j] = Back(db.jobs[j]) /\ Stored(j, "processing")
        /\ db.jobs[j] \in StoredJob /\ now \in Nat
    <3>1. Recovered(db, R).jobs[j] = Back(db.jobs[j]) /\ Stored(j, "processing")
      BY <1>2, LowestLeases
    <3> QED
      BY <3>1 DEF RedisInv, Good, Shape, Stored, StoredIn, Histories
  <2>2. /\ Back(db.jobs[j]).status = "failed" /\ Back(db.jobs[j]).terminal_at = now
    BY <2>1, BackFields DEF Terminal, StoredIn
  <2>3. j \in Newly("failed", Recovered(db, R))
    BY <2>1, <2>2 DEF Newly, Terminal, Stored, StoredIn
  <2> QED
    BY <2>1, <2>2, <2>3 DEF Ends
<1> QED
  BY <1>1, <1>2

\* A live lease is on a record that no recovery takes.
LEMMA LiveNotRecovered ==
  ASSUME RedisInv, NEW R \in SUBSET Job, IsLowest(db.leased, now, RecoverLimit, R),
         NEW l \in held, l.open, l.until > now
  PROVE  l.job \notin R
<1>1. /\ Stored(l.job, "processing") /\ db.jobs[l.job].lease_until >= l.until
      /\ l.job \in Job /\ l.until \in Nat /\ now \in Nat
  BY DEF RedisInv, Leases, Histories, LeaseRecord
<1>2. db.jobs[l.job].lease_until \in Nat
  BY <1>1 DEF RedisInv, Good, Shape, StoredJob, Stored, StoredIn
<1>3. \A j \in R : db.jobs[j].lease_until <= now
  BY LowestLeases
<1> QED
  BY <1>1, <1>2, <1>3

LEMMA PeekInv ==
  ASSUME RedisInv, NEW R \in SUBSET Job, Peek(R) PROVE RedisInv' /\ Kept
<1>1. /\ IsLowest(db.leased, now, RecoverLimit, R) /\ db' = Recovered(db, R)
      /\ Ends(Newly("failed", Recovered(db, R)))
      /\ UNCHANGED <<now, held, issued, outcome, arrivals>>
  BY DEF Peek
<1>2. Good(db)'
  BY <1>1, LowestLeases
<1>3. Histories'
  BY <1>1 DEF RedisInv, Histories, Ends
<1>4. Leases'
  <2> SUFFICES ASSUME NEW l \in held, l.open, l.until > now
               PROVE  /\ StoredIn(db', l.job, "processing")
                      /\ db'.jobs[l.job].token = l.token
                      /\ db'.jobs[l.job].lease_until >= l.until
    BY <1>1 DEF RedisInv, Leases, Stored
  <2>1. /\ Stored(l.job, "processing") /\ db.jobs[l.job].token = l.token
        /\ db.jobs[l.job].lease_until >= l.until /\ l.job \in Job
    BY DEF RedisInv, Leases, Histories, LeaseRecord
  <2>2. l.job \notin R
    BY <1>1, <2>1, LiveNotRecovered
  <2>3. db'.jobs[l.job] = db.jobs[l.job]
    BY <1>1, <2>1, <2>2, LowestLeases
  <2> QED
    BY <2>1, <2>3 DEF Stored, StoredIn
<1>5. DatesTrue'
  BY <1>1, DatesAfterRecovery DEF DatesTrue, Terminal
<1>6. Kept
  <2> SUFFICES ASSUME NEW j \in R, db.jobs[j] # Absent PROVE Back(db.jobs[j]) # Absent
    BY <1>1, LowestLeases DEF Kept
  <2>1. db.jobs[j] \in StoredJob /\ now \in Nat
    BY DEF RedisInv, Good, Shape, Histories
  <2> QED
    BY <2>1, BackFields, AbsentAssumption
<1> QED
  BY <1>2, <1>3, <1>4, <1>5, <1>6 DEF RedisInv

LEMMA ClaimInv ==
  ASSUME RedisInv, NEW R \in SUBSET Job, NEW n \in Limit, NEW d \in Lease,
         NEW replied \in BOOLEAN, Claim(R, n, d, replied)
  PROVE  RedisInv' /\ Kept
<1> DEFINE b == Recovered(db, R)
           C == {m[2] : m \in Head(b, n)}
<1>1. PICK tok \in [C -> Fresh] :
        /\ \A i, j \in C : i # j => tok[i] # tok[j]
        /\ db' = Take(b, C, tok, d)
        /\ issued' = [j \in Job |-> IF j \in C THEN issued[j] \cup {tok[j]} ELSE issued[j]]
        /\ held' = IF replied
                     THEN held \cup {[job |-> j, token |-> tok[j], until |-> now + d,
                                      open |-> TRUE] : j \in C}
                     ELSE held
  BY Zenon DEF Claim
<1>2. /\ IsLowest(db.leased, now, RecoverLimit, R) /\ Ends(Newly("failed", b))
      /\ UNCHANGED <<now, outcome, arrivals>>
  BY Zenon DEF Claim
<1>3. Good(b) /\ now \in Nat /\ d \in Nat
  BY <1>2, LowestLeases, RedisAssumption DEF RedisInv, Histories
<1>4. C \in SUBSET {j \in Job : StoredIn(b, j, "queued")}
  <2>1. DOMAIN b.ready \subseteq Member /\ \A j \in Job : InReady(b, j)
    BY <1>3 DEF Good, Shape, Listed
  <2>2. C = {m[2] : m \in Head(b, n)} /\ Head(b, n) \subseteq DOMAIN b.ready
    BY DEF Head
  <2> HIDE DEF b, C
  <2>3. ASSUME NEW m \in DOMAIN b.ready PROVE m[2] \in Job /\ StoredIn(b, m[2], "queued")
    <3>1. m[1] \in Nat /\ m[2] \in Job /\ m = <<m[1], m[2]>>
      BY <2>1 DEF Member
    <3>2. <<m[1], m[2]>> \in DOMAIN b.ready
      BY <3>1
    <3>3. InReady(b, m[2])
      BY <2>1, <3>1
    <3> QED
      BY <3>1, <3>2, <3>3 DEF InReady
  <2> QED
    BY <2>2, <2>3
<1>5. Fresh \subseteq Token /\ \A t \in Fresh, j \in Job : t \notin issued[j]
  BY DEF Fresh
<1>6. tok \in [C -> Token]
  BY <1>5
<1> HIDE DEF b, C
<1>7. /\ Good(db')
      /\ \A j \in Job \ C : db'.jobs[j] = b.jobs[j]
      /\ \A j \in C : /\ db'.jobs[j] \in StoredJob /\ db'.jobs[j] # Absent
                      /\ db'.jobs[j].status = "processing"
                      /\ db'.jobs[j].token = tok[j] /\ db'.jobs[j].lease_until = now + d
  BY <1>1, <1>3, <1>4, <1>6, TakeGood
<1>8. \A j \in C : j \in Job /\ tok[j] \in Fresh /\ tok[j] \in Token
  BY <1>1, <1>4, <1>5
<1>9. \A l \in held : l.job \in Job /\ l.token \in Token /\ l.token \in issued[l.job]
  BY DEF RedisInv, Histories, LeaseRecord, Leases
<1> DEFINE lease(j) == [job |-> j, token |-> tok[j], until |-> now + d, open |-> TRUE]
<1>10. /\ \A j \in C : /\ lease(j) \in LeaseRecord /\ lease(j).job = j
                       /\ lease(j).token = tok[j] /\ lease(j).until = now + d
       /\ \A l \in held' : l \in held \/ \E j \in C : l = lease(j)
  BY <1>1, <1>3, <1>8 DEF LeaseRecord
<1>11. Histories'
  <2>1. held' \subseteq LeaseRecord
    BY <1>10 DEF RedisInv, Histories
  <2>2. issued' \in [Job -> SUBSET Token]
    BY <1>1, <1>8 DEF RedisInv, Histories
  <2>3. ended' \in [Job -> Nat]
    BY <1>2, <1>3 DEF RedisInv, Histories, Ends
  <2> QED
    BY <1>2, <2>1, <2>2, <2>3 DEF RedisInv, Histories
<1>12. Leases'
  <2> HIDE DEF lease
  <2>1. ASSUME NEW l \in held' PROVE l.token \in issued'[l.job]
    BY <1>1, <1>4, <1>9, <1>10
  <2>2. ASSUME NEW l \in held', NEW k \in held', l.token = k.token PROVE l = k
    <3>1. CASE l \in held /\ k \in held
      BY <2>2, <3>1 DEF RedisInv, Leases
    <3>2. ASSUME NEW i \in C PROVE \A h \in held : h.token # lease(i).token
      BY <1>5, <1>8, <1>9, <1>10
    <3>3. ASSUME NEW i \in C, NEW j \in C, lease(i).token = lease(j).token PROVE lease(i) = lease(j)
      BY <1>1, <1>10, <3>3
    <3> QED
      BY <1>10, <2>2, <3>1, <3>2, <3>3
  <2>3. ASSUME NEW l \in held', l.open, l.until > now
        PROVE  /\ StoredIn(db', l.job, "processing") /\ db'.jobs[l.job].token = l.token
               /\ db'.jobs[l.job].lease_until >= l.until
    <3>1. CASE l \in held
      <4>1. /\ Stored(l.job, "processing") /\ db.jobs[l.job].token = l.token
            /\ db.jobs[l.job].lease_until >= l.until
        BY <2>3, <3>1 DEF RedisInv, Leases
      <4>2. l.job \notin R
        BY <1>2, <2>3, <3>1, LiveNotRecovered
      <4>3. b.jobs[l.job] = db.jobs[l.job]
        BY <1>2, <1>9, <3>1, <4>2, LowestLeases DEF b
      <4>4. l.job \notin C
        BY <1>4, <4>1, <4>3 DEF Stored, StoredIn
      <4>5. db'.jobs[l.job] = db.jobs[l.job]
        BY <1>7, <1>9, <3>1, <4>3, <4>4
      <4> QED
        BY <4>1, <4>5 DEF Stored, StoredIn
    <3>2. ASSUME NEW j \in C, l = lease(j)
          PROVE  /\ StoredIn(db', l.job, "processing") /\ db'.jobs[l.job].token = l.token
                 /\ db'.jobs[l.job].lease_until >= l.until
      BY <1>3, <1>7, <1>10, <3>2 DEF StoredIn
    <3> QED
      BY <1>10, <3>1, <3>2
  <2> QED
    BY <1>2, <2>1, <2>2, <2>3 DEF Leases, Stored
<1>13. DatesTrue'
  <2> SUFFICES ASSUME NEW j \in Job, Terminal(db', j), db'.jobs[j].terminal_at # Null
               PROVE  ended'[j] = db'.jobs[j].terminal_at
    BY DEF DatesTrue, Terminal
  <2>1. j \notin C
    BY <1>7 DEF Terminal, StoredIn
  <2>2. Terminal(b, j) /\ db'.jobs[j] = b.jobs[j]
    BY <1>7, <2>1 DEF Terminal, StoredIn
  <2> QED
    BY <1>2, <2>2, DatesAfterRecovery DEF b
<1>14. Kept
  <2> SUFFICES ASSUME NEW j \in Job, db.jobs[j] # Absent PROVE b.jobs[j] # Absent
    BY <1>7 DEF Kept
  <2>1. CASE j \notin R
    BY <1>2, <2>1, LowestLeases DEF b
  <2>2. CASE j \in R
    <3>1. b.jobs[j] = Back(db.jobs[j])
      BY <1>2, <2>2, LowestLeases DEF b
    <3>2. db.jobs[j] \in StoredJob
      BY DEF RedisInv, Good, Shape
    <3> QED
      BY <1>3, <3>1, <3>2, BackFields, AbsentAssumption
  <2> QED
    BY <2>1, <2>2
<1> QED
  BY <1>7, <1>11, <1>12, <1>13, <1>14 DEF RedisInv

-----------------------------------------------------------------------------
(* Settlements and renewals: the owner rewrites its record.                 *)
LEMMA OwnerIsAlone ==
  ASSUME RedisInv, NEW l \in held, Owns(l)
  PROVE  /\ l.job \in Job /\ l.token \in Token /\ l.until \in Nat
         /\ db.jobs[l.job] \in StoredJob /\ db.jobs[l.job] # Absent
         /\ db.jobs[l.job].status = "processing" /\ l.job \in DOMAIN db.leased
         /\ l.job \notin DOMAIN db.completed /\ l.job \notin DOMAIN db.failed
         /\ \A k \in held \ {l} : k.open /\ k.until > now => k.job # l.job
<1>1. l.job \in Job /\ l.token \in Token /\ l.until \in Nat
  BY DEF RedisInv, Histories, LeaseRecord
<1>2. db.jobs[l.job] \in StoredJob /\ db.jobs[l.job] # Absent /\ db.jobs[l.job].status = "processing"
  BY <1>1 DEF RedisInv, Good, Shape, Owns, Stored, StoredIn
<1>3. l.job \in DOMAIN db.leased /\ l.job \notin DOMAIN db.completed /\ l.job \notin DOMAIN db.failed
  BY <1>1, <1>2 DEF RedisInv, Good, Listed, InLeased, InCompleted, InFailed, StoredIn
<1>4. ASSUME NEW k \in held \ {l}, k.open, k.until > now PROVE k.job # l.job
  BY <1>4 DEF RedisInv, Leases, Owns
<1> QED
  BY <1>1, <1>2, <1>3, <1>4

LEMMA SettledInv ==
  ASSUME RedisInv, NEW l \in held, Owns(l), NEW r \in StoredJob, Moved(db, l.job, r, db'),
         r.status # "processing",
         r.status \in {"completed", "failed"} => r.terminal_at = now,
         Ends(IF r.status \in {"completed", "failed"} THEN {l.job} ELSE {}),
         Close(l), outcome' \in [Token -> {"open", "acked", "failed"}],
         UNCHANGED <<now, issued, arrivals>>
  PROVE  RedisInv' /\ Kept
<1>1. now \in Nat \ {0} /\ Good(db)
  BY DEF RedisInv, Histories
<1>2. Good(db')
  BY <1>1, OwnerIsAlone, MovedGood DEF StoredIn, Null
<1>3. /\ \A j \in Job \ {l.job} : db'.jobs[j] = db.jobs[j]
      /\ db'.jobs[l.job] = r
  BY <1>1, OwnerIsAlone DEF Moved, Good, Shape
<1>4. Histories'
  <2>1. [l EXCEPT !.open = FALSE] \in LeaseRecord
    BY DEF RedisInv, Histories, LeaseRecord
  <2>2. held' \subseteq LeaseRecord
    BY <2>1 DEF RedisInv, Histories, Close
  <2>3. ended' \in [Job -> Nat]
    BY <1>1 DEF RedisInv, Histories, Ends
  <2> QED
    BY <2>2, <2>3 DEF RedisInv, Histories
<1>5. Leases'
  <2> DEFINE closed == [l EXCEPT !.open = FALSE]
  <2>1. closed.job = l.job /\ closed.token = l.token /\ closed.open = FALSE
    BY DEF RedisInv, Histories, LeaseRecord
  <2>2. held' = (held \ {l}) \cup {closed}
    BY DEF Close
  <2> HIDE DEF closed
  <2>3. ASSUME NEW k \in held' PROVE k.token \in issued[k.job]
    BY <2>1, <2>2 DEF RedisInv, Leases
  <2>4. ASSUME NEW k \in held', NEW h \in held', k.token = h.token PROVE k = h
    BY <2>1, <2>2, <2>4 DEF RedisInv, Leases
  <2>5. ASSUME NEW k \in held', k.open, k.until > now
        PROVE  /\ StoredIn(db', k.job, "processing") /\ db'.jobs[k.job].token = k.token
               /\ db'.jobs[k.job].lease_until >= k.until
    <3>1. k \in held \ {l}
      BY <2>1, <2>2, <2>5
    <3>2. k.job \in Job \ {l.job}
      BY <2>5, <3>1, OwnerIsAlone DEF RedisInv, Histories, LeaseRecord
    <3> QED
      BY <1>3, <2>5, <3>1, <3>2 DEF RedisInv, Leases, Stored, StoredIn
  <2> QED
    BY <2>3, <2>4, <2>5 DEF Leases, Stored
<1>6. DatesTrue'
  <2> SUFFICES ASSUME NEW j \in Job, Terminal(db', j), db'.jobs[j].terminal_at # Null
               PROVE  ended'[j] = db'.jobs[j].terminal_at
    BY DEF DatesTrue, Terminal
  <2>1. CASE j = l.job
    BY <1>3, <2>1 DEF Terminal, StoredIn, Ends
  <2>2. CASE j # l.job
    BY <1>3, <2>2 DEF RedisInv, DatesTrue, Terminal, StoredIn, Ends
  <2> QED
    BY <2>1, <2>2
<1>7. Kept
  BY <1>3, AbsentAssumption DEF Kept
<1> QED
  BY <1>2, <1>4, <1>5, <1>6, <1>7 DEF RedisInv

Settling(r, st) == [ClearLease(r) EXCEPT !.status = st, !.terminal_at = now]
Retrying(r, at) == [ClearLease(r) EXCEPT !.status = "queued", !.available_at = at]

LEMMA SettlingFields ==
  ASSUME now \in Nat, NEW r \in StoredJob, NEW st \in {"completed", "failed"}
  PROVE  /\ Settling(r, st) \in StoredJob
         /\ Settling(r, st).status = st /\ Settling(r, st).terminal_at = now
BY DEF Settling, ClearLease, StoredJob, Null

LEMMA RetryingFields ==
  ASSUME NEW r \in StoredJob, NEW at \in Nat
  PROVE  /\ Retrying(r, at) \in StoredJob
         /\ Retrying(r, at).status = "queued" /\ Retrying(r, at).available_at = at
         /\ Retrying(r, at).member = r.member
BY DEF Retrying, ClearLease, StoredJob, Null

LEMMA AckInv == ASSUME RedisInv, NEW l \in held, Ack(l) PROVE RedisInv' /\ Kept
<1> DEFINE r == Settling(db.jobs[l.job], "completed")
           jobs == [db.jobs EXCEPT ![l.job] = r]
           leased == ZRem(db.leased, {l.job})
           completed == ZAdd(db.completed, One(l.job, now))
<1>1. Owns(l) /\ Close(l) /\ Ends({l.job}) /\ UNCHANGED <<now, issued, arrivals>>
  BY DEF Ack
<1>2. db' = [db EXCEPT !.jobs = jobs, !.leased = leased, !.completed = completed]
  BY DEF Ack, One, Settling
<1>3. outcome' \in [Token -> {"open", "acked", "failed"}]
  BY <1>1, OwnerIsAlone DEF Ack, RedisInv, Histories
<1>4. r \in StoredJob /\ r.status = "completed" /\ r.terminal_at = now
  <2>1. db.jobs[l.job] \in StoredJob /\ now \in Nat
    BY <1>1, OwnerIsAlone DEF RedisInv, Histories
  <2> QED
    BY <2>1, SettlingFields
<1>5. db = [k \in KeyName |-> db[k]]
  BY DEF RedisInv, Good, Shape
<1> HIDE DEF r, leased, completed
<1>6. Moved(db, l.job, r, db')
  <2> HIDE DEF jobs
  <2>1. /\ db' = [k \in KeyName |-> db'[k]]
        /\ db'.jobs = jobs /\ db'.leased = leased /\ db'.completed = completed
        /\ db'.ready = db.ready /\ db'.failed = db.failed /\ db'.sequence = db.sequence
        /\ db'.cursor = db.cursor /\ db'.unscanned = db.unscanned
    BY <1>2, <1>5 DEF KeyName
  <2> QED
    BY <1>1, <1>4, <2>1, OwnerIsAlone DEF Moved, jobs, leased, completed
<1> QED
  BY <1>1, <1>3, <1>4, <1>6, SettledInv

LEMMA FailInv == ASSUME RedisInv, NEW l \in held, Fail(l) PROVE RedisInv' /\ Kept
<1>1. Owns(l) /\ Close(l) /\ Ends(Newly("failed", db')) /\ UNCHANGED <<now, issued, arrivals>>
  BY DEF Fail
<1>2. outcome' \in [Token -> {"open", "acked", "failed"}]
  BY <1>1, OwnerIsAlone DEF Fail, RedisInv, Histories
<1>3. /\ db = [k \in KeyName |-> db[k]] /\ db.jobs[l.job] \in StoredJob
      /\ now \in Nat /\ l.job \in Job /\ db.jobs[l.job].status = "processing"
      /\ db.jobs[l.job].backoff \in Nat /\ db.jobs \in [Job -> StoredJob \cup {Absent}]
  <2>1. /\ db.jobs[l.job] \in StoredJob /\ l.job \in Job
        /\ db.jobs[l.job].status = "processing"
    BY <1>1, OwnerIsAlone
  <2>2. db.jobs[l.job].backoff \in Nat
    BY <2>1 DEF StoredJob
  <2> QED
    BY <2>1, <2>2 DEF RedisInv, Histories, Good, Shape
<1>4. CASE db' = FailedRetry(l)
  <2> DEFINE at == now + db.jobs[l.job].backoff
             r == Retrying(db.jobs[l.job], at)
             jobs == [db.jobs EXCEPT ![l.job] = r]
             leased == ZRem(db.leased, {l.job})
             ready == ZAdd(db.ready, One(<<db.jobs[l.job].member, l.job>>, at))
  <2>1. db' = [db EXCEPT !.jobs = jobs, !.leased = leased, !.ready = ready]
    BY <1>4 DEF FailedRetry, One, Retrying, MemberOf
  <2>2. /\ r \in StoredJob /\ r.status = "queued" /\ r.available_at = at
        /\ r.member = db.jobs[l.job].member
    <3>1. at \in Nat
      BY <1>3
    <3> HIDE DEF at
    <3> QED
      BY <1>3, <3>1, RetryingFields
  <2> HIDE DEF at, r, leased, ready
  <2>3. Moved(db, l.job, r, db')
    <3> HIDE DEF jobs
    <3>1. /\ db' = [k \in KeyName |-> db'[k]]
          /\ db'.jobs = jobs /\ db'.leased = leased /\ db'.ready = ready
          /\ db'.completed = db.completed /\ db'.failed = db.failed
          /\ db'.sequence = db.sequence
          /\ db'.cursor = db.cursor /\ db'.unscanned = db.unscanned
      BY <1>3, <2>1 DEF KeyName
    <3> QED
      BY <1>1, <2>2, <3>1, OwnerIsAlone DEF Moved, jobs, leased, ready
  <2>4. Newly("failed", db') = {}
    BY <1>3, <2>2, <2>3 DEF Newly, Moved, Stored, StoredIn
  <2> QED
    BY <1>1, <1>2, <2>2, <2>3, <2>4, SettledInv
<1>5. CASE db' = FailedForGood(l)
  <2> DEFINE r == Settling(db.jobs[l.job], "failed")
             jobs == [db.jobs EXCEPT ![l.job] = r]
             leased == ZRem(db.leased, {l.job})
             failed == ZAdd(db.failed, One(l.job, now))
  <2>1. db' = [db EXCEPT !.jobs = jobs, !.leased = leased, !.failed = failed]
    BY <1>5 DEF FailedForGood, DeadIndexEntry, One, Settling
  <2>2. r \in StoredJob /\ r.status = "failed" /\ r.terminal_at = now
    BY <1>3, SettlingFields
  <2> HIDE DEF r, leased, failed
  <2>3. Moved(db, l.job, r, db')
    <3> HIDE DEF jobs
    <3>1. /\ db' = [k \in KeyName |-> db'[k]]
          /\ db'.jobs = jobs /\ db'.leased = leased /\ db'.failed = failed
          /\ db'.completed = db.completed /\ db'.ready = db.ready
          /\ db'.sequence = db.sequence
          /\ db'.cursor = db.cursor /\ db'.unscanned = db.unscanned
      BY <1>3, <2>1 DEF KeyName
    <3> QED
      BY <1>1, <2>2, <3>1, OwnerIsAlone DEF Moved, jobs, leased, failed
  <2>4. Newly("failed", db') = {l.job}
    BY <1>3, <2>2, <2>3, AbsentAssumption DEF Newly, Moved, Stored, StoredIn
  <2> QED
    BY <1>1, <1>2, <2>2, <2>3, <2>4, SettledInv
<1> QED
  BY <1>4, <1>5 DEF Fail

LEMMA RenewInv ==
  ASSUME RedisInv, NEW l \in held, NEW d \in Lease, Renew(l, d) PROVE RedisInv' /\ Kept
<1> DEFINE until == RenewedUntil(l.job, d)
           r == [db.jobs[l.job] EXCEPT !.lease_until = until]
           jobs == [db.jobs EXCEPT ![l.job] = r]
           leased == ZAdd(db.leased, One(l.job, until))
           longer == [l EXCEPT !.until = Max2(@, until)]
<1>1. Owns(l) /\ UNCHANGED <<now, issued, outcome, ended, arrivals>>
  BY DEF Renew
<1>2. /\ db = [k \in KeyName |-> db[k]] /\ db.jobs[l.job] \in StoredJob
      /\ now \in Nat /\ l.job \in Job /\ db.jobs[l.job].status = "processing"
      /\ db.jobs[l.job].lease_until \in Nat /\ db.jobs \in [Job -> StoredJob \cup {Absent}]
      /\ d \in Nat /\ l \in LeaseRecord /\ l.until \in Nat
  <2>1. /\ db.jobs[l.job] \in StoredJob /\ l.job \in Job /\ l.until \in Nat
        /\ db.jobs[l.job].status = "processing"
    BY <1>1, OwnerIsAlone
  <2>2. db.jobs[l.job].lease_until \in Nat
    BY <2>1 DEF StoredJob
  <2> QED
    BY <2>1, <2>2, RedisAssumption DEF RedisInv, Histories, Good, Shape
<1>3. /\ until \in Nat /\ until >= db.jobs[l.job].lease_until /\ until >= now + d
  BY <1>2 DEF RenewedUntil, Max2
<1>4. db' = [db EXCEPT !.jobs = jobs, !.leased = leased] /\ held' = (held \ {l}) \cup {longer}
  BY <1>2 DEF Renew, One
<1> HIDE DEF until
<1>5. /\ r \in StoredJob /\ r.status = "processing" /\ r.lease_until = until
      /\ r.token = db.jobs[l.job].token /\ r.member = db.jobs[l.job].member
  BY <1>2, <1>3 DEF StoredJob
<1>6. /\ longer \in LeaseRecord /\ longer.job = l.job /\ longer.token = l.token
      /\ longer.open = l.open /\ longer.until = Max2(l.until, until)
  BY <1>2, <1>3 DEF LeaseRecord, Max2
<1> HIDE DEF r, leased, longer
<1>7. Moved(db, l.job, r, db')
  <2> HIDE DEF jobs
  <2>1. /\ db' = [k \in KeyName |-> db'[k]]
        /\ db'.jobs = jobs /\ db'.leased = leased
        /\ db'.completed = db.completed /\ db'.ready = db.ready /\ db'.failed = db.failed
        /\ db'.sequence = db.sequence
        /\ db'.cursor = db.cursor /\ db'.unscanned = db.unscanned
    BY <1>2, <1>4 DEF KeyName
  <2> QED
    BY <1>1, <1>5, <2>1, OwnerIsAlone DEF Moved, jobs, leased
<1>8. Good(db')
  <2>1. Good(db) /\ ~StoredIn(db, l.job, "queued")
    BY <1>2 DEF RedisInv, StoredIn
  <2> QED
    BY <1>2, <1>5, <1>7, <2>1, MovedGood
<1>9. /\ \A j \in Job \ {l.job} : db'.jobs[j] = db.jobs[j]
      /\ db'.jobs[l.job] = r
  BY <1>2, <1>7 DEF Moved
<1>10. Histories'
  BY <1>1, <1>4, <1>6 DEF RedisInv, Histories
<1>11. Leases'
  <2>1. ASSUME NEW k \in held' PROVE k.token \in issued[k.job]
    BY <1>4, <1>6 DEF RedisInv, Leases
  <2>2. ASSUME NEW k \in held', NEW h \in held', k.token = h.token PROVE k = h
    BY <1>4, <1>6, <2>2 DEF RedisInv, Leases
  <2>3. ASSUME NEW k \in held', k.open, k.until > now
        PROVE  /\ StoredIn(db', k.job, "processing") /\ db'.jobs[k.job].token = k.token
               /\ db'.jobs[k.job].lease_until >= k.until
    <3>1. CASE k \in held \ {l}
      <4>1. k.job \in Job \ {l.job}
        BY <1>1, <2>3, <3>1, OwnerIsAlone DEF RedisInv, Histories, LeaseRecord
      <4> QED
        BY <1>9, <2>3, <3>1, <4>1 DEF RedisInv, Leases, Stored, StoredIn
    <3>2. CASE k = longer
      <4>1. StoredIn(db', l.job, "processing") /\ db'.jobs[l.job].token = l.token
        BY <1>1, <1>5, <1>9, AbsentAssumption DEF Owns, StoredIn
      <4>2. until >= longer.until
        <5>1. CASE l.until > now
          <6>1. l.open /\ l \in held
            BY <1>6, <2>3, <3>2
          <6>2. db.jobs[l.job].lease_until >= l.until
            BY <5>1, <6>1 DEF RedisInv, Leases
          <6> QED
            BY <1>2, <1>3, <1>6, <6>2 DEF Max2
        <5>2. CASE l.until <= now
          BY <1>2, <1>3, <1>6, <5>2 DEF Max2
        <5> QED
          BY <1>2, <5>1, <5>2
      <4> QED
        BY <1>5, <1>6, <1>9, <3>2, <4>1, <4>2
    <3> QED
      BY <1>4, <3>1, <3>2
  <2> QED
    BY <1>1, <2>1, <2>2, <2>3 DEF Leases, Stored
<1>12. DatesTrue'
  <2> SUFFICES ASSUME NEW j \in Job, Terminal(db', j), db'.jobs[j].terminal_at # Null
               PROVE  ended[j] = db'.jobs[j].terminal_at
    BY <1>1 DEF DatesTrue, Terminal
  <2>1. j # l.job
    BY <1>5, <1>9 DEF Terminal, StoredIn
  <2> QED
    BY <1>9, <2>1 DEF RedisInv, DatesTrue, Terminal, StoredIn
<1>13. Kept
  BY <1>5, <1>9, AbsentAssumption DEF Kept
<1> QED
  BY <1>8, <1>10, <1>11, <1>12, <1>13 DEF RedisInv

-----------------------------------------------------------------------------
(* Admin calls, producers and the clock.                                    *)
LEMMA DatesAfterPage ==
  ASSUME RedisInv, NEW P \in SUBSET StoredIds, NEW cursor \in {"scanning", "done"},
         cursor = "done" => Unscanned \subseteq P, db.cursor # "done",
         NEW b, b = Indexed(P, cursor)
  PROVE  /\ \A j \in Job : /\ ~Terminal(db, j) => b.jobs[j] = db.jobs[j]
                           /\ b.jobs[j] # Absent <=> db.jobs[j] # Absent
                           /\ b.jobs[j] # Absent => b.jobs[j].status = db.jobs[j].status
         /\ Ends(Observed(b)) =>
              \A j \in Job : Terminal(b, j) /\ b.jobs[j].terminal_at # Null =>
                             ended'[j] = b.jobs[j].terminal_at
         /\ Good(b)
<1>1. Good(db) /\ now \in Nat \ {0} /\ \A j \in Job : db.jobs[j] \in StoredJob \cup {Absent}
  <2>1. Good(db) /\ now \in Nat \ {0}
    BY DEF RedisInv, Histories
  <2>2. db.jobs \in [Job -> StoredJob \cup {Absent}]
    BY <2>1 DEF Good, Shape
  <2> QED
    BY <2>1, <2>2
<1>2. /\ Good(b)
      /\ \A j \in Job : b.jobs[j] = IF j \in P /\ Terminal(db, j) THEN Dating(j) ELSE db.jobs[j]
  BY <1>1, IndexedGood
<1>3. ASSUME NEW j \in Job, Terminal(db, j)
      PROVE  /\ Dating(j) # Absent /\ Dating(j).status = db.jobs[j].status
             /\ db.jobs[j].terminal_at # Null => Dating(j) = db.jobs[j]
             /\ db.jobs[j].terminal_at = Null => Dating(j).terminal_at = now
  BY <1>1, <1>3, DatingFields, AbsentAssumption DEF Terminal, StoredIn
<1>4. \A j \in Job : /\ ~Terminal(db, j) => b.jobs[j] = db.jobs[j]
                     /\ b.jobs[j] # Absent <=> db.jobs[j] # Absent
                     /\ b.jobs[j] # Absent => b.jobs[j].status = db.jobs[j].status
  BY <1>2, <1>3 DEF Terminal, StoredIn
<1>5. ASSUME NEW j \in Job, Ends(Observed(b)), Terminal(b, j), b.jobs[j].terminal_at # Null
      PROVE  ended'[j] = b.jobs[j].terminal_at
  <2>1. Terminal(db, j) /\ j \in StoredIds
    BY <1>4, <1>5 DEF Terminal, StoredIn, StoredIds
  <2>2. CASE b.jobs[j] = db.jobs[j]
    <3>1. j \notin Observed(b)
      BY <2>2 DEF Observed
    <3> QED
      BY <1>5, <2>1, <2>2, <3>1 DEF RedisInv, DatesTrue, Ends
  <2>3. CASE b.jobs[j] # db.jobs[j]
    <3>1. db.jobs[j].terminal_at = Null /\ b.jobs[j].terminal_at = now
      BY <1>2, <1>3, <2>1, <2>3
    <3>2. j \in Observed(b)
      BY <1>5, <2>1, <3>1 DEF Observed, Terminal, StoredIn
    <3> QED
      BY <1>5, <3>1, <3>2 DEF Ends
  <2> QED
    BY <2>2, <2>3
<1> QED
  BY <1>2, <1>4, <1>5

\* A step that keeps the leased records keeps the leases.
LEMMA LeasesKept ==
  ASSUME RedisInv, UNCHANGED <<now, held, issued>>,
         \A j \in Job : Stored(j, "processing") => db'.jobs[j] = db.jobs[j]
  PROVE  Leases'
BY DEF RedisInv, Leases, Histories, LeaseRecord, Stored, StoredIn

LEMMA HistoriesKept ==
  ASSUME RedisInv, UNCHANGED <<now, held, issued, outcome>>, arrivals' \in 0..MaxArrivals,
         NEW S, Ends(S) \/ UNCHANGED ended
  PROVE  Histories'
BY DEF RedisInv, Histories, Ends

LEMMA PageInv ==
  ASSUME RedisInv, NEW P \in SUBSET StoredIds, NEW cursor \in {"scanning", "done"},
         cursor = "done" => Unscanned \subseteq P, db.cursor # "done",
         db' = Indexed(P, cursor), Ends(Observed(db')),
         UNCHANGED <<now, held, issued, outcome, arrivals>>
  PROVE  RedisInv' /\ Kept
<1>1. Good(db') /\ DatesTrue'
  BY DatesAfterPage DEF DatesTrue, Terminal
<1>2. Leases'
  <2>1. \A j \in Job : Stored(j, "processing") => db'.jobs[j] = db.jobs[j]
    BY DatesAfterPage DEF Terminal, Stored, StoredIn
  <2> QED
    BY <2>1, LeasesKept
<1>3. arrivals' \in 0..MaxArrivals
  BY DEF RedisInv, Histories
<1>4. Histories'
  BY <1>3, HistoriesKept
<1>5. Kept
  BY DatesAfterPage DEF Kept
<1> QED
  BY <1>1, <1>2, <1>4, <1>5 DEF RedisInv

LEMMA ReadyFacts ==
  ASSUME RedisInv, NEW P \in SUBSET StoredIds, LastPage(P), NEW b, b = Ready(P)
  PROVE  /\ \A j \in Job : /\ ~Terminal(db, j) => b.jobs[j] = db.jobs[j]
                           /\ b.jobs[j] # Absent <=> db.jobs[j] # Absent
                           /\ b.jobs[j] # Absent => b.jobs[j].status = db.jobs[j].status
         /\ Ends(Observed(b)) =>
              \A j \in Job : Terminal(b, j) /\ b.jobs[j].terminal_at # Null =>
                             ended'[j] = b.jobs[j].terminal_at
         /\ Good(b)
<1>1. CASE db.cursor # "done"
  <2>1. Unscanned \subseteq P /\ b = Indexed(P, "done")
    BY <1>1 DEF LastPage, Ready
  <2> QED
    BY <1>1, <2>1, DatesAfterPage
<1>2. CASE db.cursor = "done"
  <2>1. b = db
    BY <1>2 DEF Ready
  <2>2. Observed(b) = {}
    BY <2>1 DEF Observed
  <2> QED
    BY <2>1, <2>2 DEF RedisInv, DatesTrue, Ends
<1> QED
  BY <1>1, <1>2

LEMMA RetryDeadLetterInv ==
  ASSUME RedisInv, NEW P \in SUBSET StoredIds, NEW j \in Job, NEW policy \in Policy,
         RetryDeadLetter(P, j, policy)
  PROVE  RedisInv' /\ Kept
<1> PICK b : b = Ready(P)
  OBVIOUS
<1> DEFINE r == [ClearLease(b.jobs[j]) EXCEPT
                   !.status = "queued", !.attempts = 0, !.max_attempts = policy.max,
                   !.backoff = policy.backoff, !.available_at = now, !.terminal_at = Null]
           jobs == [b.jobs EXCEPT ![j] = r]
           failed == ZRem(b.failed, {j})
           ready == ZAdd(b.ready, One(MemberOf(b, j), now))
<1>1. /\ LastPage(P) /\ StoredIn(b, j, "failed") /\ Ends(Observed(b))
      /\ arrivals < MaxArrivals /\ arrivals' = arrivals + 1
      /\ UNCHANGED <<now, held, issued, outcome>>
      /\ db' = [b EXCEPT !.jobs = jobs, !.failed = failed, !.ready = ready]
  BY DEF RetryDeadLetter, One
<1>2. /\ \A i \in Job : /\ ~Terminal(db, i) => b.jobs[i] = db.jobs[i]
                        /\ b.jobs[i] # Absent <=> db.jobs[i] # Absent
                        /\ b.jobs[i] # Absent => b.jobs[i].status = db.jobs[i].status
      /\ \A i \in Job : Terminal(b, i) /\ b.jobs[i].terminal_at # Null =>
                       ended'[i] = b.jobs[i].terminal_at
      /\ Good(b)
  BY <1>1, ReadyFacts
<1>3. /\ b = [k \in KeyName |-> b[k]] /\ b.jobs \in [Job -> StoredJob \cup {Absent}]
      /\ \A i \in Job : Listed(b, i)
  BY <1>2 DEF Good, Shape
<1>4. b.jobs[j] \in StoredJob /\ b.jobs[j].status = "failed"
  BY <1>1, <1>3 DEF StoredIn
<1>5. /\ r \in StoredJob /\ r.status = "queued" /\ r.available_at = now
      /\ r.member = b.jobs[j].member
  <2>1. policy.max \in Nat /\ policy.backoff \in Nat /\ now \in Nat
    BY RedisAssumption DEF RedisInv, Histories
  <2>2. ClearLease(b.jobs[j]) \in StoredJob /\ ClearLease(b.jobs[j]).member = b.jobs[j].member
    BY <1>4 DEF ClearLease, StoredJob, Null
  <2> HIDE DEF ClearLease
  <2> QED
    BY <2>1, <2>2 DEF StoredJob, Null
<1> HIDE DEF r, failed, ready
<1>6. Moved(b, j, r, db')
  <2>1. j \notin DOMAIN b.leased /\ j \notin DOMAIN b.completed
    BY <1>3, <1>4 DEF Listed, InLeased, InCompleted, StoredIn
  <2> HIDE DEF jobs
  <2>2. /\ db' = [k \in KeyName |-> db'[k]]
        /\ db'.jobs = jobs /\ db'.failed = failed /\ db'.ready = ready
        /\ db'.completed = b.completed /\ db'.leased = b.leased
        /\ db'.sequence = b.sequence /\ db'.cursor = b.cursor /\ db'.unscanned = b.unscanned
    BY <1>1, <1>3 DEF KeyName
  <2> QED
    BY <1>5, <2>1, <2>2 DEF Moved, jobs, failed, ready, MemberOf
<1>7. Good(db')
  <2>1. ~StoredIn(b, j, "queued")
    BY <1>4 DEF StoredIn
  <2> QED
    BY <1>2, <1>5, <1>6, <2>1, MovedGood
<1>8. /\ \A i \in Job \ {j} : db'.jobs[i] = b.jobs[i]
      /\ db'.jobs[j] = r
  BY <1>3, <1>6 DEF Moved
<1>9. Leases'
  <2>1. ASSUME NEW i \in Job, Stored(i, "processing") PROVE db'.jobs[i] = db.jobs[i]
    <3>1. b.jobs[i] = db.jobs[i]
      BY <1>2, <2>1 DEF Terminal, Stored, StoredIn
    <3>2. i # j
      BY <1>4, <2>1, <3>1 DEF Stored, StoredIn
    <3> QED
      BY <1>8, <3>1, <3>2
  <2> QED
    BY <1>1, <2>1, LeasesKept
<1>10. DatesTrue'
  BY <1>2, <1>5, <1>8 DEF DatesTrue, Terminal, StoredIn
<1>11. Histories'
  <2>1. arrivals' \in 0..MaxArrivals
    BY <1>1, RedisAssumption DEF RedisInv, Histories
  <2> QED
    BY <1>1, <2>1, HistoriesKept
<1>12. Kept
  BY <1>2, <1>5, <1>8, AbsentAssumption DEF Kept
<1> QED
  BY <1>7, <1>9, <1>10, <1>11, <1>12 DEF RedisInv

LEMMA PurgeInv ==
  ASSUME RedisInv, NEW P \in SUBSET StoredIds, NEW S \in SUBSET StoredIds,
         NEW st \in {"completed", "failed"}, NEW age \in Age, NEW n \in Limit,
         PurgeTerminal(P, st, age, n, S)
  PROVE  /\ RedisInv'
         /\ \A j \in Job : db.jobs[j] # Absent /\ db'.jobs[j] = Absent =>
              Terminal(db, j) /\ ended'[j] + age <= now
<1> PICK b : b = Ready(P)
  OBVIOUS
<1>1. /\ LastPage(P) /\ Ends(Observed(b)) /\ UNCHANGED <<now, held, issued, outcome, arrivals>>
      /\ \A j \in S : StoredIn(b, j, st) /\ b.jobs[j].terminal_at \in 1..(now - age)
      /\ IsPurged(b, st, S, db')
  BY DEF PurgeTerminal, IsPurged
<1>2. /\ \A i \in Job : /\ ~Terminal(db, i) => b.jobs[i] = db.jobs[i]
                        /\ b.jobs[i] # Absent <=> db.jobs[i] # Absent
                        /\ b.jobs[i] # Absent => b.jobs[i].status = db.jobs[i].status
      /\ \A i \in Job : Terminal(b, i) /\ b.jobs[i].terminal_at # Null =>
                       ended'[i] = b.jobs[i].terminal_at
      /\ Good(b)
  BY <1>1, ReadyFacts
<1>3. S \in SUBSET Job
  BY DEF StoredIds
<1>4. Good(db')
  BY <1>1, <1>2, <1>3, PurgedGood
<1>5. \A j \in Job : db'.jobs[j] = IF j \in S THEN Absent ELSE b.jobs[j]
  BY <1>1, <1>2 DEF IsPurged, Good, Shape, KeyName
<1>6. Leases'
  <2>1. ASSUME NEW i \in Job, Stored(i, "processing") PROVE db'.jobs[i] = db.jobs[i]
    <3>1. b.jobs[i] = db.jobs[i]
      BY <1>2, <2>1 DEF Terminal, Stored, StoredIn
    <3>2. i \notin S
      BY <1>1, <2>1, <3>1 DEF Stored, StoredIn
    <3> QED
      BY <1>5, <3>1, <3>2
  <2> QED
    BY <1>1, <2>1, LeasesKept
<1>7. DatesTrue'
  BY <1>2, <1>5 DEF DatesTrue, Terminal, StoredIn
<1>8. Histories'
  <2>1. arrivals' \in 0..MaxArrivals
    BY <1>1 DEF RedisInv, Histories
  <2> QED
    BY <1>1, <2>1, HistoriesKept
<1>9. ASSUME NEW j \in Job, db.jobs[j] # Absent, db'.jobs[j] = Absent
      PROVE  Terminal(db, j) /\ ended'[j] + age <= now
  <2>1. j \in S
    BY <1>2, <1>5, <1>9
  <2>2. Terminal(db, j) /\ Terminal(b, j)
    BY <1>1, <1>2, <2>1 DEF Terminal, StoredIn
  <2>3. /\ b.jobs[j].terminal_at \in 1..(now - age) /\ b.jobs[j].terminal_at # Null
        /\ now \in Nat /\ age \in Nat
    BY <1>1, <2>1, RedisAssumption DEF RedisInv, Histories, Null
  <2>4. ended'[j] = b.jobs[j].terminal_at
    BY <1>2, <2>2, <2>3
  <2> QED
    BY <2>2, <2>3, <2>4
<1> QED
  BY <1>4, <1>6, <1>7, <1>8, <1>9 DEF RedisInv

LEMMA EnqueueInv ==
  ASSUME RedisInv, NEW Q \in Batch, NEW policy \in Policy, Enqueue(Q, policy)
  PROVE  RedisInv' /\ Kept
<1> DEFINE n == Cardinality(DOMAIN Q)
           B == {Q[i] : i \in DOMAIN Q}
           Place(j) == db.sequence + (CHOOSE i \in DOMAIN Q : Q[i] = j)
           place == [j \in B |-> Place(j)]
           new == [j \in B |->
                [status |-> "queued", attempts |-> 0, max_attempts |-> policy.max,
                 backoff |-> policy.backoff, member |-> Place(j), available_at |-> now,
                 token |-> NoToken, lease_until |-> Null, terminal_at |-> Null]]
<1>1. /\ \A j \in B : db.jobs[j] = Absent
      /\ arrivals < MaxArrivals /\ arrivals' = arrivals + 1
      /\ UNCHANGED <<now, held, issued, outcome, ended>>
      /\ db' = [Save(db, new) EXCEPT
                  !.sequence = @ + n,
                  !.ready = ZAdd(db.ready, [m \in {<<Place(j), j>> : j \in B} |-> now])]
  BY DEF Enqueue
<1>2. PICK k \in 1..Cardinality(Job) : Q \in [1..k -> Job]
  BY DEF Batch
<1>3. DOMAIN Q = 1..k /\ n \in Nat /\ B \in SUBSET Job
  <2>1. k \in Nat
    BY <1>2
  <2> QED
    BY <1>2, <2>1, FS_Interval
<1>4. Good(db) /\ db.sequence \in Nat /\ now \in Nat
  <2>1. Good(db) /\ now \in Nat
    BY DEF RedisInv, Histories
  <2>2. db.sequence \in Nat
    BY <2>1 DEF Good, Shape
  <2> QED
    BY <2>1, <2>2
<1>5. \A j \in B : Place(j) \in Nat
  <2> SUFFICES ASSUME NEW j \in B PROVE Place(j) \in Nat
    OBVIOUS
  <2>1. \E i \in DOMAIN Q : Q[i] = j
    OBVIOUS
  <2>2. (CHOOSE i \in DOMAIN Q : Q[i] = j) \in 1..k
    BY <1>3, <2>1
  <2> QED
    BY <1>4, <2>2
<1> HIDE DEF n, B, Place
<1>6. place \in [B -> Nat] /\ \A j \in B : place[j] = Place(j)
  BY <1>5
<1>7. /\ new \in [B -> StoredJob]
      /\ \A j \in B : /\ new[j].status = "queued" /\ new[j].member = place[j]
                      /\ new[j].available_at = now
  BY <1>4, <1>5, RedisAssumption DEF StoredJob, Null
<1>8. IsEnqueued(db, n, B, place, new, db')
  BY <1>1, <1>6 DEF IsEnqueued
<1> HIDE DEF place, new
<1>9. Good(db')
  BY <1>1, <1>3, <1>4, <1>6, <1>7, <1>8, EnqueuedGood
<1>10. \A j \in Job : db'.jobs[j] = IF j \in B THEN new[j] ELSE db.jobs[j]
  BY <1>4, <1>7, <1>8 DEF IsEnqueued, Save, Good, Shape, KeyName
<1>11. Leases'
  <2>1. \A i \in Job : Stored(i, "processing") => db'.jobs[i] = db.jobs[i]
    BY <1>1, <1>10 DEF Stored, StoredIn
  <2> QED
    BY <1>1, <2>1, LeasesKept
<1>12. DatesTrue'
  BY <1>1, <1>7, <1>10 DEF RedisInv, DatesTrue, Terminal, StoredIn
<1>13. Histories'
  <2>1. arrivals' \in 0..MaxArrivals
    BY <1>1, RedisAssumption DEF RedisInv, Histories
  <2> QED
    BY <1>1, <2>1, HistoriesKept
<1>14. Kept
  BY <1>1, <1>10 DEF Kept
<1> QED
  BY <1>9, <1>11, <1>12, <1>13, <1>14 DEF RedisInv

LEMMA TickInv == ASSUME RedisInv, Tick PROVE RedisInv' /\ Kept
<1>1. now' = now + 1 /\ now < MaxTime /\ now \in Nat
  BY DEF Tick, RedisInv, Histories
<1>2. UNCHANGED <<db, held, issued, outcome, ended, arrivals>>
  BY DEF Tick
<1>3. Good(db') /\ DatesTrue'
  BY <1>2 DEF RedisInv, DatesTrue, Terminal
<1>4. Histories'
  BY <1>1, <1>2, RedisAssumption DEF RedisInv, Histories
<1>5. \A l \in held : l.until \in Nat
  BY DEF RedisInv, Histories, LeaseRecord
<1>6. Leases'
  BY <1>1, <1>2, <1>5 DEF RedisInv, Leases, Stored
<1> QED
  BY <1>2, <1>3, <1>4, <1>6 DEF RedisInv, Kept

LEMMA RedisStep ==
  ASSUME RedisInv, [Next]_vars
  PROVE  /\ RedisInv'
         /\ \/ Kept
            \/ \E age \in Age : \A j \in Job : db.jobs[j] # Absent /\ db'.jobs[j] = Absent =>
                 Terminal(db, j) /\ ended'[j] + age <= now
<1>1. ASSUME NEW P \in SUBSET StoredIds, IndexPage(P) PROVE RedisInv' /\ Kept
  BY <1>1, PageInv DEF IndexPage
<1>2. ASSUME NEW P \in SUBSET StoredIds, DeadLetters(P) PROVE RedisInv' /\ Kept
  BY <1>2, PageInv DEF DeadLetters, LastPage, Ready
<1>3. CASE UNCHANGED vars
  BY <1>3 DEF vars, RedisInv, Histories, Leases, DatesTrue, Stored, Terminal, Kept
<1> QED
  BY <1>1, <1>2, <1>3, TickInv, EnqueueInv, ClaimInv, PeekInv, AckInv, FailInv, RenewInv,
     RetryDeadLetterInv, PurgeInv DEF Next

LEMMA RedisInvAlways == Spec => []RedisInv
BY RedisInit, RedisStep, PTL DEF Spec

-----------------------------------------------------------------------------
(* What the invariant says of the queue.                                    *)

LEMMA ReadyMember ==
  ASSUME RedisInv, NEW m \in DOMAIN db.ready
  PROVE  /\ m[2] \in Job /\ Stored(m[2], "queued") /\ m = MemberOf(db, m[2])
         /\ db.ready[m] = db.jobs[m[2]].available_at
<1>1. DOMAIN db.ready \subseteq Member /\ \A j \in Job : InReady(db, j)
  BY DEF RedisInv, Good, Shape, Listed
<1>2. m[1] \in Nat /\ m[2] \in Job /\ m = <<m[1], m[2]>>
  BY <1>1 DEF Member
<1>3. InReady(db, m[2]) /\ <<m[1], m[2]>> \in DOMAIN db.ready
  BY <1>1, <1>2
<1>4. /\ StoredIn(db, m[2], "queued") /\ db.jobs[m[2]].member = m[1]
      /\ db.ready[<<m[1], m[2]>>] = db.jobs[m[2]].available_at
  BY <1>2, <1>3 DEF InReady
<1> QED
  BY <1>2, <1>4 DEF MemberOf, Stored

(* In every state the keys and the consumers' leases have the types that    *)
(* the script reads them with, whatever calls were made.                    *)
THEOREM RedisTypeCorrect == Spec => []TypeOK
<1>1. RedisInv => TypeOK
  <2> SUFFICES ASSUME RedisInv PROVE TypeOK
    OBVIOUS
  <2>1. Shape(db) /\ \A j \in Job : Listed(db, j)
    BY DEF RedisInv, Good
  <2>2. \A j \in Job : db.jobs[j] # Absent =>
          /\ db.jobs[j].available_at \in Nat /\ db.jobs[j].lease_until \in Nat
          /\ db.jobs[j].terminal_at \in Nat
    BY <2>1 DEF Shape, StoredJob
  <2>3. IsZset(db.ready, Member)
    <3>1. \A m \in DOMAIN db.ready : db.ready[m] \in Nat
      BY <2>2, ReadyMember DEF Stored, StoredIn
    <3> QED
      BY <2>1, <3>1 DEF IsZset, Shape
  <2>4. IsZset(db.leased, Job)
    BY <2>1, <2>2 DEF IsZset, Shape, Listed, InLeased, StoredIn
  <2>5. IsZset(db.completed, Job)
    BY <2>1, <2>2 DEF IsZset, Shape, Listed, InCompleted, StoredIn
  <2>6. IsZset(db.failed, Job)
    BY <2>1, <2>2 DEF IsZset, Shape, Listed, InFailed, StoredIn
  <2>7. /\ db.jobs \in [Job -> StoredJob \cup {Absent}] /\ db.sequence \in Nat
        /\ db.cursor \in {"none", "scanning", "done"} /\ db.unscanned \subseteq Job
    BY <2>1 DEF Shape
  <2> QED
    BY <2>3, <2>4, <2>5, <2>6, <2>7 DEF TypeOK, RedisInv, Histories
<1> QED
  BY <1>1, RedisInvAlways, PTL

(* The ready, lease and terminal indexes hold exactly the records of their  *)
(* status with the record's own score, for any number of jobs, consumers,   *)
(* pages of the upgrade and recoveries.                                     *)
THEOREM IndexesAgreeCorrect == Spec => []IndexesAgree
<1>1. RedisInv => IndexesAgree
  <2> SUFFICES ASSUME RedisInv PROVE IndexesAgree
    OBVIOUS
  <2>1. Shape(db) /\ \A j \in Job : Listed(db, j)
    BY DEF RedisInv, Good
  <2>2. db.ready = [m \in MembersOf(db, {j \in Job : Stored(j, "queued")}) |->
                      db.jobs[m[2]].available_at]
    <3> DEFINE Q == {j \in Job : Stored(j, "queued")}
    <3>1. \A j \in Q : db.jobs[j].member \in Nat
      BY <2>1 DEF Shape, StoredJob, Stored, StoredIn
    <3>2. \A m \in DOMAIN db.ready :
            m \in MembersOf(db, Q) /\ db.ready[m] = db.jobs[m[2]].available_at
      BY ReadyMember DEF MembersOf
    <3>3. ASSUME NEW j \in Q PROVE MemberOf(db, j) \in DOMAIN db.ready
      BY <2>1, <3>1 DEF Listed, InReady, MemberOf, Stored
    <3>4. DOMAIN db.ready = MembersOf(db, Q)
      BY <3>2, <3>3 DEF MembersOf
    <3> HIDE DEF Q
    <3>5. db.ready = [m \in DOMAIN db.ready |-> db.ready[m]]
      BY <2>1 DEF Shape
    <3> QED
      BY <3>2, <3>4, <3>5 DEF Q
  <2>3. db.leased = [j \in {i \in Job : Stored(i, "processing")} |-> db.jobs[j].lease_until]
    <3>1. DOMAIN db.leased = {i \in Job : Stored(i, "processing")}
      BY <2>1 DEF Shape, Listed, InLeased, Stored
    <3>2. \A j \in DOMAIN db.leased : db.leased[j] = db.jobs[j].lease_until
      BY <2>1 DEF Shape, Listed, InLeased
    <3>3. db.leased = [j \in DOMAIN db.leased |-> db.leased[j]]
      BY <2>1 DEF Shape
    <3> QED
      BY <3>1, <3>2, <3>3
  <2>4. db.completed = [j \in {i \in Job : Stored(i, "completed") /\ db.jobs[i].terminal_at # Null} |->
                          db.jobs[j].terminal_at]
    <3>1. DOMAIN db.completed = {i \in Job : Stored(i, "completed") /\ db.jobs[i].terminal_at # Null}
      BY <2>1 DEF Shape, Listed, InCompleted, Stored
    <3>2. \A j \in DOMAIN db.completed : db.completed[j] = db.jobs[j].terminal_at
      BY <2>1 DEF Shape, Listed, InCompleted
    <3>3. db.completed = [j \in DOMAIN db.completed |-> db.completed[j]]
      BY <2>1 DEF Shape
    <3> QED
      BY <3>1, <3>2, <3>3
  <2>5. db.failed = [j \in {i \in Job : Stored(i, "failed") /\ db.jobs[i].terminal_at # Null} |->
                       db.jobs[j].terminal_at]
    <3>1. DOMAIN db.failed = {i \in Job : Stored(i, "failed") /\ db.jobs[i].terminal_at # Null}
      BY <2>1 DEF Shape, Listed, InFailed, Stored
    <3>2. \A j \in DOMAIN db.failed : db.failed[j] = db.jobs[j].terminal_at
      BY <2>1 DEF Shape, Listed, InFailed
    <3>3. db.failed = [j \in DOMAIN db.failed |-> db.failed[j]]
      BY <2>1 DEF Shape
    <3> QED
      BY <3>1, <3>2, <3>3
  <2> QED
    BY <2>2, <2>3, <2>4, <2>5 DEF IndexesAgree, TerminalIndex
<1> QED
  BY <1>1, RedisInvAlways, PTL

(* Once the upgrade says it is done every terminal record is indexed, for   *)
(* any pages the server chose and any calls between them.                   *)
THEOREM UpgradeMissesNothingCorrect == Spec => []UpgradeMissesNothing
<1>1. RedisInv => UpgradeMissesNothing
  BY DEF RedisInv, Good, Scanned, Listed, InCompleted, InFailed, UpgradeMissesNothing,
         StoredIds, Stored
<1> QED
  BY <1>1, RedisInvAlways, PTL

(* A consumer's job is its own while its lease runs, for any consumers,     *)
(* lost replies, renewals and expiries.                                     *)
THEOREM LeaseIsExclusiveCorrect == Spec => []LeaseIsExclusive
<1>1. RedisInv => LeaseIsExclusive
  BY DEF RedisInv, Leases, LeaseIsExclusive
<1> QED
  BY <1>1, RedisInvAlways, PTL

(* No call deletes a record that is not terminal, nor a terminal one before *)
(* the age asked for, the records of the earlier release included.          *)
THEOREM PurgeRespectsRetentionCorrect == Spec => PurgeRespectsRetention
<1> DEFINE Purged == \A j \in Job : db.jobs[j] # Absent /\ db'.jobs[j] = Absent =>
                       /\ Stored(j, "completed") \/ Stored(j, "failed")
                       /\ \E age \in Age : ended'[j] + age <= now
<1>1. RedisInv /\ [Next]_vars => [Purged]_vars
  BY RedisStep DEF Kept, Terminal, Stored
<1> QED
  BY <1>1, RedisInvAlways, PTL DEF Spec, PurgeRespectsRetention

-----------------------------------------------------------------------------
(* The refinement of the queue contract.  What it needs beside RedisInv is  *)
(* what every record says of its budget, its delivery and its token.        *)
Sound(r) ==
  /\ r.status = "queued" => r.attempts < r.max_attempts
  /\ r.status = "processing" => r.available_at <= now
  /\ r.status # "processing" => r.token = NoToken

RecordsSound == \A j \in Job : db.jobs[j] # Absent => Sound(db.jobs[j])

LEMMA StatusShape ==
  StatusView = [j \in Job |-> StatusView[j]] /\ StatusView' = [j \in Job |-> StatusView'[j]]
BY DEF StatusView

LEMMA AttemptsShape ==
  AttemptsView = [j \in Job |-> AttemptsView[j]] /\ AttemptsView' = [j \in Job |-> AttemptsView'[j]]
BY DEF AttemptsView

LEMMA BudgetShape ==
  BudgetView = [j \in Job |-> BudgetView[j]] /\ BudgetView' = [j \in Job |-> BudgetView'[j]]
BY DEF BudgetView

LEMMA TokenShape ==
  TokenView = [j \in Job |-> TokenView[j]] /\ TokenView' = [j \in Job |-> TokenView'[j]]
BY DEF TokenView

LEMMA DelayedShape ==
  DelayedView = [j \in Job |-> DelayedView[j]] /\ DelayedView' = [j \in Job |-> DelayedView'[j]]
BY DEF DelayedView

LEMMA LapsedShape ==
  LapsedView = [j \in Job |-> LapsedView[j]] /\ LapsedView' = [j \in Job |-> LapsedView'[j]]
BY DEF LapsedView

\* What the contract sees of a record, or of none, now and after a step.
LEMMA RecordViews ==
  ASSUME NEW j \in Job
  PROVE  /\ db.jobs[j] = Absent =>
              /\ StatusView[j] = "absent" /\ AttemptsView[j] = 0 /\ BudgetView[j] = 0
              /\ TokenView[j] = NoToken /\ DelayedView[j] = FALSE /\ LapsedView[j] = FALSE
         /\ db.jobs[j] # Absent =>
              /\ StatusView[j] = db.jobs[j].status /\ AttemptsView[j] = db.jobs[j].attempts
              /\ BudgetView[j] = db.jobs[j].max_attempts /\ TokenView[j] = db.jobs[j].token
              /\ DelayedView[j] = (db.jobs[j].status = "queued" /\ db.jobs[j].available_at > now)
              /\ LapsedView[j] = (db.jobs[j].status = "processing" /\ db.jobs[j].lease_until <= now)
BY DEF StatusView, AttemptsView, BudgetView, TokenView, DelayedView, LapsedView, Stored, StoredIn

LEMMA NextViews ==
  ASSUME NEW j \in Job
  PROVE  /\ db'.jobs[j] = Absent =>
              /\ StatusView'[j] = "absent" /\ AttemptsView'[j] = 0 /\ BudgetView'[j] = 0
              /\ TokenView'[j] = NoToken /\ DelayedView'[j] = FALSE /\ LapsedView'[j] = FALSE
         /\ db'.jobs[j] # Absent =>
              /\ StatusView'[j] = db'.jobs[j].status /\ AttemptsView'[j] = db'.jobs[j].attempts
              /\ BudgetView'[j] = db'.jobs[j].max_attempts /\ TokenView'[j] = db'.jobs[j].token
              /\ DelayedView'[j] = (db'.jobs[j].status = "queued" /\ db'.jobs[j].available_at > now')
              /\ LapsedView'[j] = (db'.jobs[j].status = "processing" /\ db'.jobs[j].lease_until <= now')
BY DEF StatusView, AttemptsView, BudgetView, TokenView, DelayedView, LapsedView, Stored, StoredIn

LEMMA RecordTypes ==
  ASSUME RedisInv
  PROVE  /\ now \in Nat \ {0} /\ issued \in [Job -> SUBSET Token] /\ arrivals \in Nat
         /\ db = [k \in KeyName |-> db[k]] /\ db.jobs \in [Job -> StoredJob \cup {Absent}]
         /\ \A j \in Job : db.jobs[j] # Absent =>
              /\ db.jobs[j] \in StoredJob
              /\ db.jobs[j].attempts \in Nat /\ db.jobs[j].max_attempts \in Nat
              /\ db.jobs[j].available_at \in Nat /\ db.jobs[j].lease_until \in Nat
<1>1. /\ now \in Nat \ {0} /\ issued \in [Job -> SUBSET Token] /\ arrivals \in Nat
      /\ db = [k \in KeyName |-> db[k]] /\ db.jobs \in [Job -> StoredJob \cup {Absent}]
  BY DEF RedisInv, Histories, Good, Shape
<1>2. \A r \in StoredJob : /\ r.attempts \in Nat /\ r.max_attempts \in Nat
                          /\ r.available_at \in Nat /\ r.lease_until \in Nat
  BY DEF StoredJob
<1> QED BY <1>1, <1>2

\* Rewriting only the date of a record changes nothing the contract sees.
Alike(r, q) ==
  \/ q = r
  \/ /\ r # Absent /\ q # Absent
     /\ q.status = r.status /\ q.attempts = r.attempts /\ q.max_attempts = r.max_attempts
     /\ q.token = r.token /\ q.available_at = r.available_at /\ q.lease_until = r.lease_until

LEMMA AlikeViews ==
  ASSUME NEW j \in Job, UNCHANGED now, Alike(db.jobs[j], db'.jobs[j])
  PROVE  /\ StatusView'[j] = StatusView[j] /\ AttemptsView'[j] = AttemptsView[j]
         /\ BudgetView'[j] = BudgetView[j] /\ TokenView'[j] = TokenView[j]
         /\ DelayedView'[j] = DelayedView[j] /\ LapsedView'[j] = LapsedView[j]
         /\ (db.jobs[j] # Absent => Sound(db.jobs[j]))
              => (db'.jobs[j] # Absent => Sound(db'.jobs[j]))
<1>1. CASE db'.jobs[j] = db.jobs[j]
  BY <1>1 DEF StatusView, AttemptsView, BudgetView, TokenView, DelayedView, LapsedView,
              Stored, StoredIn
<1>2. CASE /\ db.jobs[j] # Absent /\ db'.jobs[j] # Absent
           /\ db'.jobs[j].status = db.jobs[j].status /\ db'.jobs[j].attempts = db.jobs[j].attempts
           /\ db'.jobs[j].max_attempts = db.jobs[j].max_attempts
           /\ db'.jobs[j].token = db.jobs[j].token
           /\ db'.jobs[j].available_at = db.jobs[j].available_at
           /\ db'.jobs[j].lease_until = db.jobs[j].lease_until
  <2>1. Sound(db.jobs[j]) => Sound(db'.jobs[j])
    BY <1>2 DEF Sound
  <2>2. /\ StatusView[j] = db.jobs[j].status /\ AttemptsView[j] = db.jobs[j].attempts
        /\ BudgetView[j] = db.jobs[j].max_attempts /\ TokenView[j] = db.jobs[j].token
        /\ DelayedView[j] = (db.jobs[j].status = "queued" /\ db.jobs[j].available_at > now)
        /\ LapsedView[j] = (db.jobs[j].status = "processing" /\ db.jobs[j].lease_until <= now)
    BY <1>2, RecordViews
  <2>3. /\ StatusView'[j] = db.jobs[j].status /\ AttemptsView'[j] = db.jobs[j].attempts
        /\ BudgetView'[j] = db.jobs[j].max_attempts /\ TokenView'[j] = db.jobs[j].token
        /\ DelayedView'[j] = (db.jobs[j].status = "queued" /\ db.jobs[j].available_at > now)
        /\ LapsedView'[j] = (db.jobs[j].status = "processing" /\ db.jobs[j].lease_until <= now)
    BY <1>2, NextViews
  <2>4. /\ StatusView'[j] = StatusView[j] /\ AttemptsView'[j] = AttemptsView[j]
        /\ BudgetView'[j] = BudgetView[j] /\ TokenView'[j] = TokenView[j]
        /\ DelayedView'[j] = DelayedView[j] /\ LapsedView'[j] = LapsedView[j]
    BY <2>2, <2>3, Zenon
  <2> QED BY <1>2, <2>1, <2>4, Zenon
<1> QED BY <1>1, <1>2 DEF Alike

\* A step that only lets time pass, or that the contract does not see.
LEMMA TimeStep ==
  ASSUME UNCHANGED <<StatusView, AttemptsView, BudgetView, TokenView, issued, outcome, arrivals>>,
         \A j \in Job : LapsedView[j] => LapsedView'[j],
         \A j \in Job : DelayedView'[j] => DelayedView[j]
  PROVE  Contract!Next
<1> DEFINE L == {j \in Job : LapsedView'[j] /\ ~LapsedView[j]}
           E == {j \in Job : DelayedView[j] /\ ~DelayedView'[j]}
<1>1. \A j \in Job : LapsedView'[j] => StatusView'[j] = "processing"
  BY DEF LapsedView, StatusView, Stored, StoredIn
<1>2. LapsedView' = [j \in Job |-> IF j \in L THEN TRUE ELSE LapsedView[j]]
  BY DEF LapsedView
<1>3. DelayedView' = [j \in Job |-> IF j \in E THEN FALSE ELSE DelayedView[j]]
  BY DEF DelayedView
<1>4. \A j \in L : StatusView[j] = "processing" /\ ~LapsedView[j]
  BY <1>1
<1>5. \A j \in E : DelayedView[j]
  OBVIOUS
<1>6. L \in SUBSET Job /\ E \in SUBSET Job
  OBVIOUS
<1> HIDE DEF L, E
<1>7. Contract!TimePasses(L, E)
  BY <1>2, <1>3, <1>4, <1>5 DEF Contract!TimePasses
<1> QED BY <1>6, <1>7 DEF Contract!Next, Contract!TimePassesSome

LEMMA AlikeMaps ==
  ASSUME RecordsSound, UNCHANGED <<now, issued, outcome, arrivals>>,
         \A j \in Job : Alike(db.jobs[j], db'.jobs[j])
  PROVE  RecordsSound' /\ Contract!Next
<1>1. \A j \in Job :
        /\ StatusView'[j] = StatusView[j] /\ AttemptsView'[j] = AttemptsView[j]
        /\ BudgetView'[j] = BudgetView[j] /\ TokenView'[j] = TokenView[j]
        /\ DelayedView'[j] = DelayedView[j] /\ LapsedView'[j] = LapsedView[j]
  BY AlikeViews
<1>2. UNCHANGED <<StatusView, AttemptsView, BudgetView, TokenView>>
  BY <1>1, StatusShape, AttemptsShape, BudgetShape, TokenShape
<1>3. RecordsSound'
  BY AlikeViews DEF RecordsSound, Sound
<1> QED BY <1>1, <1>2, <1>3, TimeStep

LEMMA TickMaps == ASSUME RedisInv, RecordsSound, Tick PROVE RecordsSound' /\ Contract!Next
<1>1. now' = now + 1 /\ UNCHANGED <<db, issued, outcome, arrivals>>
  BY DEF Tick
<1>2. UNCHANGED <<StatusView, AttemptsView, BudgetView, TokenView>>
  BY <1>1 DEF StatusView, AttemptsView, BudgetView, TokenView
<1>3. ASSUME NEW j \in Job
      PROVE  /\ LapsedView[j] => LapsedView'[j]
             /\ DelayedView'[j] => DelayedView[j]
  <2>1. db.jobs[j] # Absent => db.jobs[j].available_at \in Nat /\ db.jobs[j].lease_until \in Nat
    BY RecordTypes
  <2>2. now \in Nat /\ now' = now + 1 /\ db' = db
    BY <1>1, RecordTypes
  <2>3. CASE db.jobs[j] = Absent
    BY <2>2, <2>3, RecordViews, NextViews
  <2>4. CASE db.jobs[j] # Absent
    <3>1. /\ db.jobs[j].lease_until <= now => db.jobs[j].lease_until <= now'
          /\ db.jobs[j].available_at > now' => db.jobs[j].available_at > now
      BY <2>1, <2>2, <2>4
    <3>2. /\ DelayedView[j] = (db.jobs[j].status = "queued" /\ db.jobs[j].available_at > now)
          /\ LapsedView[j] = (db.jobs[j].status = "processing" /\ db.jobs[j].lease_until <= now)
      BY <2>4, RecordViews
    <3>3. /\ DelayedView'[j] = (db.jobs[j].status = "queued" /\ db.jobs[j].available_at > now')
          /\ LapsedView'[j] = (db.jobs[j].status = "processing" /\ db.jobs[j].lease_until <= now')
      BY <2>2, <2>4, NextViews
    <3> QED BY <3>1, <3>2, <3>3
  <2> QED BY <2>3, <2>4
<1>4. RecordsSound'
  <2> SUFFICES ASSUME NEW j \in Job, db.jobs[j] # Absent, Sound(db.jobs[j])
               PROVE  Sound(db.jobs[j])'
    BY <1>1 DEF RecordsSound
  <2>1. db.jobs[j].available_at \in Nat /\ now \in Nat
    BY RecordTypes
  <2> QED BY <1>1, <2>1 DEF Sound
<1> QED BY <1>1, <1>2, <1>3, <1>4, TimeStep

-----------------------------------------------------------------------------
(* Claims and peeks: recovered deliveries, then new ones. *)
LEMMA BackKeeps ==
  ASSUME now \in Nat, NEW r \in StoredJob
  PROVE  Back(r).attempts = r.attempts /\ Back(r).max_attempts = r.max_attempts
BY DEF Back, ClearLease, StoredJob, Null

LEMMA LeasingKeeps ==
  ASSUME NEW r \in StoredJob, NEW t \in Token, NEW until \in Nat
  PROVE  /\ Leasing(r, t, until).attempts = r.attempts + 1
         /\ Leasing(r, t, until).max_attempts = r.max_attempts
         /\ Leasing(r, t, until).available_at = r.available_at
<1>1. r.attempts \in Nat /\ r.attempts + 1 \in Nat
  BY DEF StoredJob
<1> DEFINE q == [r EXCEPT !.status = "processing", !.attempts = r.attempts + 1,
                          !.token = t, !.lease_until = until]
<1>2. Leasing(r, t, until) = q
  BY DEF Leasing, StoredJob
<1>3. q.attempts = r.attempts + 1 /\ q.max_attempts = r.max_attempts /\ q.available_at = r.available_at
  BY <1>1 DEF StoredJob
<1> QED BY <1>2, <1>3

LEMMA TakenJobs ==
  ASSUME NEW b, Good(b), NEW C \in SUBSET Job, NEW tok, NEW d
  PROVE  \A j \in C : Take(b, C, tok, d).jobs[j] = Leasing(b.jobs[j], tok[j], now + d)
<1> DEFINE new == [j \in C |-> Leasing(b.jobs[j], tok[j], now + d)]
           jobs == [j \in Job |-> IF j \in DOMAIN new THEN new[j] ELSE b.jobs[j]]
           ready == ZRem(b.ready, MembersOf(b, C))
           leased == ZAdd(b.leased, [j \in C |-> now + d])
<1>1. b = [k \in KeyName |-> b[k]]
  BY DEF Good, Shape
<1>2. new = [j \in C |-> [b.jobs[j] EXCEPT !.status = "processing", !.attempts = @ + 1,
                                          !.token = tok[j], !.lease_until = now + d]]
  BY DEF Leasing
<1>3. \A j \in C : jobs[j] = Leasing(b.jobs[j], tok[j], now + d)
  OBVIOUS
<1> HIDE DEF new
<1>4. Take(b, C, tok, d) = [[b EXCEPT !.jobs = jobs] EXCEPT !.ready = ready, !.leased = leased]
  BY <1>2, Zenon DEF Take, Save
<1> HIDE DEF jobs, ready, leased
<1>5. Take(b, C, tok, d).jobs = jobs
  BY <1>1, <1>4 DEF KeyName
<1> QED BY <1>3, <1>5

\* The records after a claim: D dead-lettered, A returned, C delivered.
LEMMA DeliveredMaps ==
  ASSUME RedisInv, RecordsSound,
         NEW R \in SUBSET Job, IsLowest(db.leased, now, RecoverLimit, R),
         NEW C \in SUBSET Job, NEW tok \in [C -> Fresh], NEW d \in Nat \ {0},
         \A i, j \in C : i # j => tok[i] # tok[j],
         \A j \in C : /\ StoredIn(Recovered(db, R), j, "queued")
                      /\ Recovered(db, R).jobs[j].available_at <= now,
         \A j \in Job \ C : db'.jobs[j] = Recovered(db, R).jobs[j],
         \A j \in C : db'.jobs[j] = Leasing(Recovered(db, R).jobs[j], tok[j], now + d),
         issued' = [j \in Job |-> IF j \in C THEN issued[j] \cup {tok[j]} ELSE issued[j]],
         UNCHANGED <<now, outcome, arrivals>>
  PROVE  RecordsSound' /\ Contract!Next
<1> DEFINE D == {j \in R : Spent(db.jobs[j])}
           A == (R \ D) \ C
<1> PICK b : b = Recovered(db, R)
  OBVIOUS
<1>1. /\ \A j \in Job \ R : b.jobs[j] = db.jobs[j]
      /\ \A j \in R : b.jobs[j] = Back(db.jobs[j])
      /\ \A j \in R : /\ db.jobs[j] # Absent /\ db.jobs[j].status = "processing"
                      /\ db.jobs[j].lease_until <= now
  BY LowestLeases DEF Stored, StoredIn
<1>2. /\ \A j \in Job \ C : db'.jobs[j] = b.jobs[j]
      /\ \A j \in C : /\ db'.jobs[j] = Leasing(b.jobs[j], tok[j], now + d)
                      /\ b.jobs[j] # Absent /\ b.jobs[j].status = "queued"
                      /\ b.jobs[j].available_at <= now
  BY DEF StoredIn
<1>3. now \in Nat /\ now + d \in Nat /\ ~(now + d <= now)
  BY RecordTypes
<1>4. ASSUME NEW j \in R
      PROVE  /\ Back(db.jobs[j]) \in StoredJob /\ Back(db.jobs[j]) # Absent
             /\ Back(db.jobs[j]).status = IF j \in D THEN "failed" ELSE "queued"
             /\ Back(db.jobs[j]).attempts = db.jobs[j].attempts
             /\ Back(db.jobs[j]).max_attempts = db.jobs[j].max_attempts
             /\ Back(db.jobs[j]).available_at = db.jobs[j].available_at
             /\ Back(db.jobs[j]).token = NoToken
             /\ db.jobs[j].available_at <= now
             /\ j \notin D => db.jobs[j].attempts < db.jobs[j].max_attempts
             /\ j \in D => db.jobs[j].attempts >= db.jobs[j].max_attempts
  <2>1. /\ db.jobs[j] \in StoredJob /\ db.jobs[j].attempts \in Nat /\ db.jobs[j].max_attempts \in Nat
        /\ db.jobs[j].status = "processing" /\ Sound(db.jobs[j])
    BY <1>1, RecordTypes DEF RecordsSound
  <2>2. (j \in D) <=> Spent(db.jobs[j])
    OBVIOUS
  <2> HIDE DEF D
  <2> QED BY <1>3, <2>1, <2>2, BackFields, BackKeeps, AbsentAssumption DEF Spent, Sound
<1> HIDE DEF D
<1>5. D \subseteq R /\ A \subseteq R
  BY DEF D
<1>6. ASSUME NEW j \in C
      PROVE  /\ b.jobs[j] \in StoredJob
             /\ b.jobs[j].attempts \in Nat /\ b.jobs[j].max_attempts \in Nat
             /\ b.jobs[j].attempts = db.jobs[j].attempts
             /\ b.jobs[j].max_attempts = db.jobs[j].max_attempts
             /\ db.jobs[j].attempts < db.jobs[j].max_attempts
             /\ db.jobs[j] # Absent /\ j \notin D
             /\ \/ j \in R
                \/ db.jobs[j].status = "queued" /\ db.jobs[j].available_at <= now
  <2>1. CASE j \in R
    <3>1. j \notin D
      BY <1>1, <1>2, <1>4, <2>1
    <3> QED BY <1>1, <1>4, <2>1, <3>1, RecordTypes
  <2>2. CASE j \notin R
    <3>1. b.jobs[j] = db.jobs[j] /\ db.jobs[j] # Absent /\ db.jobs[j].status = "queued"
          /\ db.jobs[j].available_at <= now
      BY <1>1, <1>2, <2>2
    <3>2. Sound(db.jobs[j])
      BY <3>1 DEF RecordsSound
    <3> QED BY <1>5, <2>2, <3>1, <3>2, RecordTypes DEF Sound
  <2> QED BY <2>1, <2>2
<1>7. ASSUME NEW j \in C
      PROVE  /\ db'.jobs[j] # Absent /\ db'.jobs[j].status = "processing"
             /\ db'.jobs[j].attempts = db.jobs[j].attempts + 1
             /\ db'.jobs[j].max_attempts = db.jobs[j].max_attempts
             /\ db'.jobs[j].available_at <= now
             /\ db'.jobs[j].token = tok[j] /\ db'.jobs[j].lease_until = now + d
  <2> DEFINE q == Leasing(b.jobs[j], tok[j], now + d)
  <2>1. tok[j] \in Token /\ b.jobs[j] \in StoredJob /\ now + d \in Nat
    BY <1>3, <1>6 DEF Fresh
  <2>2. /\ q \in StoredJob /\ q.status = "processing" /\ q.token = tok[j]
        /\ q.lease_until = now + d
    BY <2>1, LeasingFields
  <2>3. /\ q.attempts = b.jobs[j].attempts + 1 /\ q.max_attempts = b.jobs[j].max_attempts
        /\ q.available_at = b.jobs[j].available_at
    BY <2>1, LeasingKeeps
  <2>4. db'.jobs[j] = q
    BY <1>2
  <2> HIDE DEF q
  <2> QED BY <1>2, <1>6, <2>2, <2>3, <2>4, AbsentAssumption
<1>8. RecordsSound'
  <2> SUFFICES ASSUME NEW j \in Job, db'.jobs[j] # Absent PROVE Sound(db.jobs[j])'
    BY DEF RecordsSound
  <2>1. CASE j \in C
    BY <1>7, <2>1 DEF Sound
  <2>2. CASE j \in R \ C
    <3>1. db'.jobs[j] = Back(db.jobs[j])
      BY <1>1, <1>2, <2>2
    <3>2. /\ db'.jobs[j].status = IF j \in D THEN "failed" ELSE "queued"
          /\ db'.jobs[j].token = NoToken
          /\ j \notin D => db'.jobs[j].attempts < db'.jobs[j].max_attempts
      BY <1>4, <2>2, <3>1
    <3> QED BY <3>2 DEF Sound
  <2>3. CASE j \notin R /\ j \notin C
    <3>1. db'.jobs[j] = db.jobs[j]
      BY <1>1, <1>2, <2>3
    <3> QED BY <3>1 DEF RecordsSound, Sound
  <2> QED BY <2>1, <2>2, <2>3
\* The contract's view of each kind of job.
<1>9. ASSUME NEW j \in Job \ (R \cup C)
      PROVE  /\ StatusView'[j] = StatusView[j] /\ AttemptsView'[j] = AttemptsView[j]
             /\ BudgetView'[j] = BudgetView[j] /\ TokenView'[j] = TokenView[j]
             /\ DelayedView'[j] = DelayedView[j] /\ LapsedView'[j] = LapsedView[j]
  <2>1. db'.jobs[j] = db.jobs[j]
    BY <1>1, <1>2
  <2> QED BY <2>1, AlikeViews DEF Alike
<1>10. ASSUME NEW j \in R
       PROVE  /\ StatusView[j] = "processing" /\ LapsedView[j] = TRUE
              /\ AttemptsView[j] = db.jobs[j].attempts /\ BudgetView[j] = db.jobs[j].max_attempts
              /\ DelayedView[j] = FALSE
  <2>1. /\ db.jobs[j] # Absent /\ db.jobs[j].status = "processing"
        /\ (db.jobs[j].lease_until <= now) = TRUE
    BY <1>1
  <2> QED BY <2>1, RecordViews
<1>11. ASSUME NEW j \in R \ C
       PROVE  /\ StatusView'[j] = IF j \in D THEN "failed" ELSE "queued"
              /\ AttemptsView'[j] = AttemptsView[j] /\ BudgetView'[j] = BudgetView[j]
              /\ TokenView'[j] = NoToken /\ DelayedView'[j] = FALSE /\ LapsedView'[j] = FALSE
  <2>1. db'.jobs[j] = Back(db.jobs[j])
    BY <1>1, <1>2
  <2>2. db.jobs[j].available_at \in Nat /\ ~(db.jobs[j].available_at > now)
    BY <1>1, <1>3, <1>4, RecordTypes
  <2>3. /\ db'.jobs[j] # Absent /\ db'.jobs[j].status = IF j \in D THEN "failed" ELSE "queued"
        /\ db'.jobs[j].attempts = db.jobs[j].attempts
        /\ db'.jobs[j].max_attempts = db.jobs[j].max_attempts
        /\ db'.jobs[j].token = NoToken
    BY <1>4, <2>1
  <2>4. ~(db'.jobs[j].available_at > now)
    BY <1>4, <2>1, <2>2
  <2>5. /\ StatusView'[j] = db'.jobs[j].status /\ AttemptsView'[j] = db'.jobs[j].attempts
        /\ BudgetView'[j] = db'.jobs[j].max_attempts /\ TokenView'[j] = db'.jobs[j].token
        /\ DelayedView'[j] = (db'.jobs[j].status = "queued" /\ db'.jobs[j].available_at > now)
        /\ LapsedView'[j] = (db'.jobs[j].status = "processing" /\ db'.jobs[j].lease_until <= now)
    BY <2>3, NextViews
  <2> QED BY <1>10, <2>3, <2>4, <2>5
<1>12. ASSUME NEW j \in C
       PROVE  /\ AttemptsView[j] = db.jobs[j].attempts /\ BudgetView[j] = db.jobs[j].max_attempts
              /\ AttemptsView[j] \in Nat /\ BudgetView[j] \in Nat /\ AttemptsView[j] < BudgetView[j]
              /\ DelayedView[j] = FALSE
              /\ \/ StatusView[j] = "queued"
                 \/ StatusView[j] = "processing" /\ LapsedView[j] = TRUE
              /\ StatusView'[j] = "processing" /\ AttemptsView'[j] = AttemptsView[j] + 1
              /\ BudgetView'[j] = BudgetView[j] /\ TokenView'[j] = tok[j]
              /\ DelayedView'[j] = FALSE /\ LapsedView'[j] = FALSE
  <2>1. AttemptsView[j] = db.jobs[j].attempts /\ BudgetView[j] = db.jobs[j].max_attempts
    BY <1>6, RecordViews
  <2>2. AttemptsView[j] \in Nat /\ BudgetView[j] \in Nat /\ AttemptsView[j] < BudgetView[j]
    BY <1>6, <2>1
  <2>3. /\ DelayedView[j] = FALSE
        /\ StatusView[j] = "queued" \/ (StatusView[j] = "processing" /\ LapsedView[j] = TRUE)
    <3>1. CASE j \in R
      BY <1>10, <3>1
    <3>2. CASE db.jobs[j].status = "queued" /\ db.jobs[j].available_at <= now
      <4>1. db.jobs[j].available_at \in Nat /\ ~(db.jobs[j].available_at > now)
        BY <1>3, <1>6, <3>2, RecordTypes
      <4> QED BY <1>6, <3>2, <4>1, RecordViews
    <3> QED BY <1>6, <3>1, <3>2
  <2>4. /\ StatusView'[j] = "processing" /\ AttemptsView'[j] = db.jobs[j].attempts + 1
        /\ BudgetView'[j] = db.jobs[j].max_attempts /\ TokenView'[j] = tok[j]
        /\ DelayedView'[j] = FALSE /\ LapsedView'[j] = FALSE
    <3>1. /\ StatusView'[j] = db'.jobs[j].status /\ AttemptsView'[j] = db'.jobs[j].attempts
          /\ BudgetView'[j] = db'.jobs[j].max_attempts /\ TokenView'[j] = db'.jobs[j].token
          /\ DelayedView'[j] = (db'.jobs[j].status = "queued" /\ db'.jobs[j].available_at > now)
          /\ LapsedView'[j] = (db'.jobs[j].status = "processing" /\ db'.jobs[j].lease_until <= now)
      BY <1>7, NextViews
    <3> QED BY <1>3, <1>7, <3>1
  <2> QED BY <2>1, <2>2, <2>3, <2>4
<1>13. D \cap C = {} /\ D \subseteq Job /\ A \subseteq Job /\ R \subseteq D \cup A \cup C
  BY <1>6 DEF D
<1> HIDE DEF A
<1>14. \A j \in A : j \in R \ C /\ j \notin D
  BY DEF A
<1>15. StatusView' = [j \in Job |-> IF j \in D THEN "failed"
                                   ELSE IF j \in A THEN "queued"
                                   ELSE IF j \in C THEN "processing" ELSE StatusView[j]]
  <2>1. \A j \in Job : StatusView'[j] = IF j \in D THEN "failed"
                                   ELSE IF j \in A THEN "queued"
                                   ELSE IF j \in C THEN "processing" ELSE StatusView[j]
    BY <1>5, <1>9, <1>11, <1>12, <1>13, <1>14
  <2> QED BY <2>1, StatusShape
<1>16. AttemptsView' = [j \in Job |-> IF j \in C THEN AttemptsView[j] + 1 ELSE AttemptsView[j]]
  <2>1. \A j \in Job : AttemptsView'[j] = IF j \in C THEN AttemptsView[j] + 1 ELSE AttemptsView[j]
    BY <1>9, <1>11, <1>12
  <2> QED BY <2>1, AttemptsShape
<1>17. TokenView' = [j \in Job |-> IF j \in D \cup A THEN NoToken
                                  ELSE IF j \in C THEN tok[j] ELSE TokenView[j]]
  <2>1. \A j \in Job : TokenView'[j] = IF j \in D \cup A THEN NoToken
                                  ELSE IF j \in C THEN tok[j] ELSE TokenView[j]
    BY <1>5, <1>9, <1>11, <1>12, <1>13, <1>14
  <2> QED BY <2>1, TokenShape
<1>18. LapsedView' = [j \in Job |-> j \in {} \/ (LapsedView[j] /\ j \notin D \cup A \cup C)]
  <2>1. ASSUME NEW j \in Job
        PROVE  LapsedView'[j] = (j \in {} \/ (LapsedView[j] /\ j \notin D \cup A \cup C))
    <3>1. LapsedView[j] \in BOOLEAN
      BY DEF LapsedView, Stored, StoredIn
    <3>2. CASE j \in R \cup C
      <4>1. LapsedView'[j] = FALSE
        BY <1>11, <1>12, <3>2
      <4> QED BY <1>13, <3>2, <4>1
    <3>3. CASE j \notin R \cup C
      <4>1. LapsedView'[j] = LapsedView[j] /\ j \notin D \cup A \cup C
        BY <1>5, <1>9, <3>3
      <4> QED BY <3>1, <4>1
    <3> QED BY <3>2, <3>3
  <2> QED BY <2>1, LapsedShape
<1>19. UNCHANGED <<BudgetView, DelayedView, outcome, arrivals>>
  <2>a. \A j \in R \cup C : DelayedView[j] = FALSE
    BY <1>10, <1>12
  <2>1. \A j \in Job : BudgetView'[j] = BudgetView[j] /\ DelayedView'[j] = DelayedView[j]
    BY <1>9, <1>11, <1>12, <2>a
  <2>2. BudgetView' = BudgetView
    BY <2>1, BudgetShape
  <2>3. DelayedView' = DelayedView
    BY <2>1, DelayedShape
  <2> QED BY <2>2, <2>3
<1>20. D \subseteq Contract!Exhausted
  <2>1. ASSUME NEW j \in D PROVE j \in Contract!Exhausted
    <3>1. j \in Job /\ j \in R /\ AttemptsView[j] >= BudgetView[j]
      BY <1>4, <1>5, <1>10, <2>1
    <3> QED BY <1>10, <3>1 DEF Contract!Exhausted, Contract!Lapsed
  <2> QED BY <2>1
<1>21. ASSUME NEW j \in (R \ D) \cup C, StatusView[j] = "processing", LapsedView[j] = TRUE
       PROVE  j \in Contract!Abandoned
  <2>1. AttemptsView[j] \in Nat /\ BudgetView[j] \in Nat /\ AttemptsView[j] < BudgetView[j]
    <3>1. CASE j \in C
      BY <1>12, <3>1
    <3>2. CASE j \in R \ D
      <4>1. db.jobs[j].attempts \in Nat /\ db.jobs[j].max_attempts \in Nat
        BY <1>1, <3>2, RecordTypes
      <4> QED BY <1>4, <1>10, <3>2, <4>1
    <3> QED BY <1>21, <3>1, <3>2
  <2>2. j \in Contract!Lapsed
    BY <1>21 DEF Contract!Lapsed
  <2>3. j \notin Contract!Exhausted
    BY <2>1 DEF Contract!Exhausted
  <2> QED BY <2>2, <2>3 DEF Contract!Abandoned
<1>22. C \subseteq Contract!Claimable
  <2>1. ASSUME NEW j \in C PROVE j \in Contract!Due \/ j \in Contract!Abandoned
    <3>1. CASE StatusView[j] = "queued"
      BY <1>12, <3>1 DEF Contract!Due
    <3>2. CASE StatusView[j] = "processing" /\ LapsedView[j] = TRUE
      BY <1>21, <3>2
    <3> QED BY <1>12, <3>1, <3>2
  <2> QED BY <2>1 DEF Contract!Claimable
<1>23. A \subseteq Contract!Abandoned \ C
  BY <1>10, <1>14, <1>21
<1>24. Contract!Claim(D, A, C, {}, tok)
  BY <1>15, <1>16, <1>17, <1>18, <1>19, <1>20, <1>22, <1>23 DEF Contract!Claim
<1>25. tok \in [C -> Token \ Contract!AllIssued]
  BY DEF Fresh, Contract!AllIssued
<1>26. Contract!ClaimSome
  <2>1. {} \in SUBSET C
    OBVIOUS
  <2> QED BY <1>20, <1>22, <1>23, <1>24, <1>25, <2>1 DEF Contract!ClaimSome
<1> QED BY <1>8, <1>26 DEF Contract!Next

LEMMA PeekMaps ==
  ASSUME RedisInv, RecordsSound, NEW R \in SUBSET Job, Peek(R)
  PROVE  RecordsSound' /\ Contract!Next
<1> DEFINE tok == [j \in {} |-> now]
<1>1. /\ IsLowest(db.leased, now, RecoverLimit, R) /\ db' = Recovered(db, R)
      /\ UNCHANGED <<now, issued, outcome, arrivals>>
  BY DEF Peek
<1>2. issued' = [j \in Job |-> IF j \in {} THEN issued[j] \cup {tok[j]} ELSE issued[j]]
  BY <1>1, RecordTypes
<1>3. tok \in [{} -> Fresh] /\ 1 \in Nat \ {0} /\ {} \in SUBSET Job
  OBVIOUS
<1> HIDE DEF tok
<1> QED BY <1>1, <1>2, <1>3, DeliveredMaps

LEMMA HeadJobs ==
  ASSUME NEW b, Good(b), NEW n, NEW m \in Head(b, n)
  PROVE  m[2] \in Job /\ StoredIn(b, m[2], "queued") /\ b.jobs[m[2]].available_at <= now
<1>1. m \in DOMAIN b.ready /\ b.ready[m] <= now
  BY DEF Head
<1>2. DOMAIN b.ready \subseteq Member /\ \A j \in Job : InReady(b, j)
  BY DEF Good, Shape, Listed
<1>3. m[1] \in Nat /\ m[2] \in Job /\ m = <<m[1], m[2]>>
  BY <1>1, <1>2 DEF Member
<1>4. <<m[1], m[2]>> \in DOMAIN b.ready /\ InReady(b, m[2]) /\ b.ready[<<m[1], m[2]>>] <= now
  BY <1>1, <1>2, <1>3
<1>5. StoredIn(b, m[2], "queued") /\ b.jobs[m[2]].member = m[1]
  BY <1>3, <1>4 DEF InReady
<1>6. b.ready[<<m[1], m[2]>>] = b.jobs[m[2]].available_at
  BY <1>4, <1>5 DEF InReady
<1> QED BY <1>3, <1>4, <1>5, <1>6

LEMMA ClaimMaps ==
  ASSUME RedisInv, RecordsSound, NEW R \in SUBSET Job, NEW n \in Limit, NEW d \in Lease,
         NEW replied \in BOOLEAN, Claim(R, n, d, replied)
  PROVE  RecordsSound' /\ Contract!Next
<1> DEFINE b == Recovered(db, R)
           C == {m[2] : m \in Head(b, n)}
<1>1. PICK tok \in [C -> Fresh] :
        /\ \A i, j \in C : i # j => tok[i] # tok[j]
        /\ db' = Take(b, C, tok, d)
        /\ issued' = [j \in Job |-> IF j \in C THEN issued[j] \cup {tok[j]} ELSE issued[j]]
  BY Zenon DEF Claim
<1>2. IsLowest(db.leased, now, RecoverLimit, R) /\ UNCHANGED <<now, outcome, arrivals>>
  BY Zenon DEF Claim
<1>3. Good(b) /\ now \in Nat /\ d \in Nat \ {0} /\ b = Recovered(db, R)
  BY <1>2, LowestLeases, RedisAssumption DEF RedisInv, Histories
<1> HIDE DEF b
<1>4. \A j \in C : j \in Job /\ StoredIn(b, j, "queued") /\ b.jobs[j].available_at <= now
  BY <1>3, HeadJobs
<1> HIDE DEF C
<1>5. C \in SUBSET {j \in Job : StoredIn(b, j, "queued")} /\ C \in SUBSET Job
  BY <1>4
<1>6. tok \in [C -> Token]
  BY <1>1 DEF Fresh
<1>7. \A j \in Job \ C : db'.jobs[j] = b.jobs[j]
  <2>a. now \in Nat /\ d \in Nat /\ C \in SUBSET {j \in Job : StoredIn(b, j, "queued")}
    BY <1>3, <1>5
  <2>1. \A j \in Job \ C : Take(b, C, tok, d).jobs[j] = b.jobs[j]
    BY <1>3, <1>6, <2>a, TakeGood
  <2> QED BY <1>1, <2>1
<1>8. \A j \in C : db'.jobs[j] = Leasing(b.jobs[j], tok[j], now + d)
  BY <1>1, <1>3, <1>5, TakenJobs
<1>9. C \in SUBSET Job /\ tok \in [C -> Fresh] /\ d \in Nat \ {0}
  BY <1>1, <1>3, <1>5
<1>10. \A i, j \in C : i # j => tok[i] # tok[j]
  BY <1>1
<1>11. issued' = [j \in Job |-> IF j \in C THEN issued[j] \cup {tok[j]} ELSE issued[j]]
  BY <1>1
<1>12. \A j \in C : /\ StoredIn(Recovered(db, R), j, "queued")
                     /\ Recovered(db, R).jobs[j].available_at <= now
  BY <1>3, <1>4
<1>13. \A j \in Job \ C : db'.jobs[j] = Recovered(db, R).jobs[j]
  BY <1>3, <1>7
<1>14. \A j \in C : db'.jobs[j] = Leasing(Recovered(db, R).jobs[j], tok[j], now + d)
  BY <1>3, <1>8
<1> QED BY Zenon, <1>2, <1>9, <1>10, <1>11, <1>12, <1>13, <1>14, DeliveredMaps

-----------------------------------------------------------------------------
(* Steps of one record: r replaces the record of j, others may be dated. *)
LEMMA OneRecordViews ==
  ASSUME NEW j \in Job, NEW r, r # Absent, db'.jobs[j] = r, UNCHANGED now,
         \A i \in Job : i # j => Alike(db.jobs[i], db'.jobs[i])
  PROVE  /\ StatusView' = [StatusView EXCEPT ![j] = r.status]
         /\ AttemptsView' = [AttemptsView EXCEPT ![j] = r.attempts]
         /\ BudgetView' = [BudgetView EXCEPT ![j] = r.max_attempts]
         /\ TokenView' = [TokenView EXCEPT ![j] = r.token]
         /\ DelayedView' = [DelayedView EXCEPT ![j] = (r.status = "queued" /\ r.available_at > now)]
         /\ LapsedView' = [LapsedView EXCEPT ![j] = (r.status = "processing" /\ r.lease_until <= now)]
         /\ RecordsSound /\ Sound(r) => RecordsSound'
<1>1. \A i \in Job : i # j =>
        /\ StatusView'[i] = StatusView[i] /\ AttemptsView'[i] = AttemptsView[i]
        /\ BudgetView'[i] = BudgetView[i] /\ TokenView'[i] = TokenView[i]
        /\ DelayedView'[i] = DelayedView[i] /\ LapsedView'[i] = LapsedView[i]
  BY AlikeViews
<1>2. /\ StatusView'[j] = r.status /\ AttemptsView'[j] = r.attempts
      /\ BudgetView'[j] = r.max_attempts /\ TokenView'[j] = r.token
      /\ DelayedView'[j] = (r.status = "queued" /\ r.available_at > now)
      /\ LapsedView'[j] = (r.status = "processing" /\ r.lease_until <= now)
  BY NextViews
<1>3. StatusView' = [StatusView EXCEPT ![j] = r.status]
  BY <1>1, <1>2, StatusShape
<1>4. AttemptsView' = [AttemptsView EXCEPT ![j] = r.attempts]
  BY <1>1, <1>2, AttemptsShape
<1>5. BudgetView' = [BudgetView EXCEPT ![j] = r.max_attempts]
  BY <1>1, <1>2, BudgetShape
<1>6. TokenView' = [TokenView EXCEPT ![j] = r.token]
  BY <1>1, <1>2, TokenShape
<1>7. DelayedView' = [DelayedView EXCEPT ![j] = (r.status = "queued" /\ r.available_at > now)]
  BY <1>1, <1>2, DelayedShape
<1>8. LapsedView' = [LapsedView EXCEPT ![j] = (r.status = "processing" /\ r.lease_until <= now)]
  BY <1>1, <1>2, LapsedShape
<1>9. ASSUME RecordsSound, Sound(r) PROVE RecordsSound'
  <2>1. ASSUME NEW i \in Job, i # j, db'.jobs[i] # Absent PROVE Sound(db.jobs[i])'
    <3>1. Sound(db'.jobs[i])
      BY <1>9, <2>1, AlikeViews DEF RecordsSound
    <3> QED BY <3>1 DEF Sound
  <2>2. Sound(db.jobs[j])'
    BY <1>9 DEF Sound
  <2> QED BY <2>1, <2>2 DEF RecordsSound
<1> QED BY <1>3, <1>4, <1>5, <1>6, <1>7, <1>8, <1>9

\* The contract's view of the record a settlement or renewal owns.
LEMMA OwnerViews ==
  ASSUME RedisInv, RecordsSound, NEW l \in held, Owns(l)
  PROVE  /\ l.job \in Job /\ l.token \in Token /\ db.jobs[l.job] \in StoredJob
         /\ db.jobs[l.job].attempts \in Nat /\ db.jobs[l.job].max_attempts \in Nat
         /\ db.jobs[l.job].backoff \in Nat
         /\ StatusView[l.job] = "processing" /\ TokenView[l.job] = l.token
         /\ AttemptsView[l.job] = db.jobs[l.job].attempts
         /\ BudgetView[l.job] = db.jobs[l.job].max_attempts
         /\ DelayedView[l.job] = FALSE /\ LapsedView[l.job] = FALSE
         /\ Contract!Holds(l.job, l.token)
<1>1. /\ l.job \in Job /\ l.token \in Token /\ db.jobs[l.job] \in StoredJob
      /\ db.jobs[l.job] # Absent /\ db.jobs[l.job].status = "processing"
  BY OwnerIsAlone
<1>2. /\ db.jobs[l.job].attempts \in Nat /\ db.jobs[l.job].max_attempts \in Nat
      /\ db.jobs[l.job].lease_until \in Nat /\ now \in Nat
  BY <1>1, RecordTypes
<1>a. db.jobs[l.job].backoff \in Nat
  BY <1>1 DEF StoredJob
<1>3. db.jobs[l.job].token = l.token /\ ~(db.jobs[l.job].lease_until <= now)
  BY <1>2 DEF Owns
<1>4. /\ StatusView[l.job] = "processing" /\ TokenView[l.job] = l.token
      /\ AttemptsView[l.job] = db.jobs[l.job].attempts
      /\ BudgetView[l.job] = db.jobs[l.job].max_attempts
      /\ DelayedView[l.job] = FALSE /\ LapsedView[l.job] = FALSE
  BY <1>1, <1>3, RecordViews
<1> QED BY <1>1, <1>2, <1>a, <1>4 DEF Contract!Holds

LEMMA SettlingKeeps ==
  ASSUME now \in Nat, NEW r \in StoredJob, NEW st \in {"completed", "failed"}
  PROVE  /\ Settling(r, st).attempts = r.attempts /\ Settling(r, st).max_attempts = r.max_attempts
         /\ Settling(r, st).token = NoToken /\ Settling(r, st) # Absent
<1>1. Settling(r, st) \in StoredJob
  BY SettlingFields
<1> QED BY <1>1, AbsentAssumption DEF Settling, ClearLease, StoredJob, Null

LEMMA RetryingKeeps ==
  ASSUME NEW r \in StoredJob, NEW at \in Nat
  PROVE  /\ Retrying(r, at).attempts = r.attempts /\ Retrying(r, at).max_attempts = r.max_attempts
         /\ Retrying(r, at).token = NoToken /\ Retrying(r, at) # Absent
<1>1. Retrying(r, at) \in StoredJob
  BY RetryingFields
<1> QED BY <1>1, AbsentAssumption DEF Retrying, ClearLease, StoredJob, Null

LEMMA AckMaps ==
  ASSUME RedisInv, RecordsSound, NEW l \in held, Ack(l) PROVE RecordsSound' /\ Contract!Next
<1> DEFINE r == Settling(db.jobs[l.job], "completed")
           jobs == [db.jobs EXCEPT ![l.job] = r]
           leased == ZRem(db.leased, {l.job})
           completed == ZAdd(db.completed, One(l.job, now))
<1>1. Owns(l) /\ UNCHANGED <<now, issued, arrivals>> /\ outcome' = [outcome EXCEPT ![l.token] = "acked"]
  BY DEF Ack
<1>2. db' = [db EXCEPT !.jobs = jobs, !.leased = leased, !.completed = completed]
  BY DEF Ack, One, Settling
<1>3. /\ r # Absent /\ r.status = "completed" /\ r.token = NoToken
      /\ r.attempts = AttemptsView[l.job] /\ r.max_attempts = BudgetView[l.job]
  BY <1>1, OwnerViews, RecordTypes, SettlingFields, SettlingKeeps
<1> HIDE DEF r, leased, completed
<1>4. db'.jobs = jobs
  <2> HIDE DEF jobs
  <2> QED BY <1>2, RecordTypes DEF KeyName
<1>5. /\ db'.jobs[l.job] = r /\ l.job \in Job
      /\ \A i \in Job : i # l.job => Alike(db.jobs[i], db'.jobs[i])
  BY <1>1, <1>4, OwnerViews, RecordTypes DEF Alike
<1>6. /\ StatusView' = [StatusView EXCEPT ![l.job] = "completed"]
      /\ AttemptsView' = [AttemptsView EXCEPT ![l.job] = AttemptsView[l.job]]
      /\ BudgetView' = [BudgetView EXCEPT ![l.job] = BudgetView[l.job]]
      /\ TokenView' = [TokenView EXCEPT ![l.job] = NoToken]
      /\ DelayedView' = [DelayedView EXCEPT ![l.job] = FALSE]
      /\ LapsedView' = [LapsedView EXCEPT ![l.job] = FALSE]
      /\ RecordsSound'
  <2>1. Sound(r)
    BY <1>3 DEF Sound
  <2>2. /\ StatusView' = [StatusView EXCEPT ![l.job] = r.status]
        /\ AttemptsView' = [AttemptsView EXCEPT ![l.job] = r.attempts]
        /\ BudgetView' = [BudgetView EXCEPT ![l.job] = r.max_attempts]
        /\ TokenView' = [TokenView EXCEPT ![l.job] = r.token]
        /\ DelayedView' = [DelayedView EXCEPT ![l.job] = (r.status = "queued" /\ r.available_at > now)]
        /\ LapsedView' = [LapsedView EXCEPT ![l.job] = (r.status = "processing" /\ r.lease_until <= now)]
        /\ RecordsSound'
    BY <1>1, <1>3, <1>5, <2>1, OneRecordViews
  <2>3. /\ (r.status = "queued" /\ r.available_at > now) = FALSE
        /\ (r.status = "processing" /\ r.lease_until <= now) = FALSE
    BY <1>3
  <2> QED BY <1>3, <2>2, <2>3
<1>7. DelayedView[l.job] = FALSE
  BY <1>1, OwnerViews
<1>a. AttemptsView' = AttemptsView
  BY <1>6, AttemptsShape
<1>b. BudgetView' = BudgetView
  BY <1>6, BudgetShape
<1>c. DelayedView' = DelayedView
  BY <1>6, <1>7, DelayedShape
<1>8. Contract!Ack(l.job, l.token)
  BY <1>1, <1>6, <1>a, <1>b, <1>c, OwnerViews DEF Contract!Ack, Contract!Release
<1>9. Contract!AckSome
  BY <1>1, <1>8, OwnerViews DEF Contract!AckSome
<1> QED BY <1>6, <1>9 DEF Contract!Next

LEMMA FailMaps ==
  ASSUME RedisInv, RecordsSound, NEW l \in held, Fail(l) PROVE RecordsSound' /\ Contract!Next
<1>1. /\ Owns(l) /\ UNCHANGED <<now, issued, arrivals>>
      /\ outcome' = [outcome EXCEPT ![l.token] = "failed"]
  BY DEF Fail
<1> DEFINE at == now + db.jobs[l.job].backoff
           more == db.jobs[l.job].attempts < db.jobs[l.job].max_attempts
           r == IF more THEN Retrying(db.jobs[l.job], at) ELSE Settling(db.jobs[l.job], "failed")
           wait == more /\ at > now
<1>2. db'.jobs = [db.jobs EXCEPT ![l.job] = r]
  <2> DEFINE jobs == [db.jobs EXCEPT ![l.job] = r]
             leased == ZRem(db.leased, {l.job})
             ready == ZAdd(db.ready, One(<<db.jobs[l.job].member, l.job>>, at))
             failed == ZAdd(db.failed, One(l.job, now))
  <2>1. CASE more
    <3>1. db' = FailedRetry(l)
      BY <2>1 DEF Fail
    <3>2. db' = [db EXCEPT !.jobs = jobs, !.leased = leased, !.ready = ready]
      BY <2>1, <3>1 DEF FailedRetry, One, Retrying, MemberOf
    <3> HIDE DEF jobs, leased, ready
    <3>3. db'.jobs = jobs
      BY <3>2, RecordTypes DEF KeyName
    <3> QED BY <3>3 DEF jobs
  <2>2. CASE ~more
    <3>1. db' = FailedForGood(l)
      BY <2>2 DEF Fail
    <3>2. db' = [db EXCEPT !.jobs = jobs, !.leased = leased, !.failed = failed]
      BY <2>2, <3>1 DEF FailedForGood, DeadIndexEntry, One, Settling
    <3> HIDE DEF jobs, leased, failed
    <3>3. db'.jobs = jobs
      BY <3>2, RecordTypes DEF KeyName
    <3> QED BY <3>3 DEF jobs
  <2> QED BY <2>1, <2>2
<1>3. /\ l.job \in Job /\ db.jobs[l.job] \in StoredJob /\ now \in Nat /\ at \in Nat
      /\ more = (AttemptsView[l.job] < BudgetView[l.job])
  <2>1. /\ l.job \in Job /\ db.jobs[l.job] \in StoredJob /\ db.jobs[l.job].backoff \in Nat
        /\ AttemptsView[l.job] = db.jobs[l.job].attempts
        /\ BudgetView[l.job] = db.jobs[l.job].max_attempts
    BY <1>1, OwnerViews
  <2>2. now \in Nat
    BY RecordTypes
  <2> QED BY <2>1, <2>2
<1>4. /\ r # Absent /\ r.token = NoToken
      /\ r.status = IF more THEN "queued" ELSE "failed"
      /\ r.attempts = AttemptsView[l.job] /\ r.max_attempts = BudgetView[l.job]
      /\ more => r.available_at = at
  <2> HIDE DEF at
  <2>1. CASE more
    BY <1>1, <1>3, <2>1, OwnerViews, RetryingFields, RetryingKeeps
  <2>2. CASE ~more
    <3> DEFINE q == Settling(db.jobs[l.job], "failed")
    <3>1. /\ q # Absent /\ q.token = NoToken /\ q.status = "failed"
          /\ q.attempts = db.jobs[l.job].attempts /\ q.max_attempts = db.jobs[l.job].max_attempts
      BY <1>3, SettlingFields, SettlingKeeps
    <3>2. r = q
      BY <2>2
    <3> HIDE DEF q, r
    <3> QED BY <1>1, <2>2, <3>1, <3>2, OwnerViews
  <2> QED BY <2>1, <2>2
<1>5. Sound(r)
  <2>1. more => r.attempts < r.max_attempts
    BY <1>3, <1>4
  <2> QED BY <1>4, <2>1 DEF Sound
<1> HIDE DEF r, more, at
<1>6. /\ db'.jobs[l.job] = r
      /\ \A i \in Job : i # l.job => Alike(db.jobs[i], db'.jobs[i])
  BY <1>2, <1>3, RecordTypes DEF Alike
<1>7. /\ StatusView' = [StatusView EXCEPT ![l.job] = r.status]
      /\ AttemptsView' = [AttemptsView EXCEPT ![l.job] = r.attempts]
      /\ BudgetView' = [BudgetView EXCEPT ![l.job] = r.max_attempts]
      /\ TokenView' = [TokenView EXCEPT ![l.job] = r.token]
      /\ DelayedView' = [DelayedView EXCEPT ![l.job] = (r.status = "queued" /\ r.available_at > now)]
      /\ LapsedView' = [LapsedView EXCEPT ![l.job] = (r.status = "processing" /\ r.lease_until <= now)]
      /\ RecordsSound'
  BY <1>1, <1>3, <1>4, <1>5, <1>6, OneRecordViews
<1>8. /\ StatusView' = [StatusView EXCEPT ![l.job] = IF more THEN "queued" ELSE "failed"]
      /\ TokenView' = [TokenView EXCEPT ![l.job] = NoToken]
      /\ LapsedView' = [LapsedView EXCEPT ![l.job] = FALSE]
      /\ DelayedView' = [DelayedView EXCEPT ![l.job] = wait]
  <2>1. (r.status = "processing" /\ r.lease_until <= now) = FALSE
    BY <1>4
  <2>2. (r.status = "queued" /\ r.available_at > now) = wait
    BY <1>4
  <2> HIDE DEF wait
  <2> QED BY <1>4, <1>7, <2>1, <2>2
<1>9. UNCHANGED <<AttemptsView, BudgetView>>
  BY <1>4, <1>7, AttemptsShape, BudgetShape
<1>10. ASSUME ~more PROVE UNCHANGED DelayedView
  <2>1. wait = FALSE /\ DelayedView[l.job] = FALSE
    BY <1>1, <1>10, OwnerViews
  <2> QED BY <1>8, <2>1, DelayedShape
<1>11. wait \in BOOLEAN /\ more \in BOOLEAN
  BY DEF more
<1> HIDE DEF wait
<1>12. Contract!Fail(l.job, l.token, wait)
  <2>1. CASE more
    <3>1. AttemptsView[l.job] < BudgetView[l.job]
      BY <1>3, <2>1
    <3> QED BY <1>1, <1>8, <1>9, <2>1, <3>1, OwnerViews DEF Contract!Fail, Contract!Release
  <2>2. CASE ~more
    <3>1. ~(AttemptsView[l.job] < BudgetView[l.job])
      BY <1>3, <2>2
    <3> QED BY <1>1, <1>8, <1>9, <1>10, <2>2, <3>1, OwnerViews DEF Contract!Fail, Contract!Release
  <2> QED BY <2>1, <2>2
<1>13. Contract!FailSome
  BY <1>1, <1>11, <1>12, OwnerViews DEF Contract!FailSome
<1> QED BY <1>7, <1>13 DEF Contract!Next

LEMMA RenewMaps ==
  ASSUME RedisInv, RecordsSound, NEW l \in held, NEW d \in Lease, Renew(l, d)
  PROVE  RecordsSound' /\ Contract!Next
<1> DEFINE until == RenewedUntil(l.job, d)
           r == [db.jobs[l.job] EXCEPT !.lease_until = until]
           jobs == [db.jobs EXCEPT ![l.job] = r]
           leased == ZAdd(db.leased, One(l.job, until))
<1>1. Owns(l) /\ UNCHANGED <<now, issued, outcome, arrivals>>
  BY DEF Renew
<1>2. /\ l.job \in Job /\ db.jobs[l.job] \in StoredJob /\ db.jobs[l.job] # Absent
      /\ db.jobs[l.job].status = "processing" /\ now \in Nat /\ d \in Nat \ {0}
      /\ Sound(db.jobs[l.job])
  BY <1>1, OwnerIsAlone, RecordTypes, RedisAssumption DEF RecordsSound
<1>3. until \in Nat /\ ~(until <= now)
  <2>1. db.jobs[l.job].lease_until \in Nat
    BY <1>2, RecordTypes
  <2> QED BY <1>2, <2>1 DEF RenewedUntil, Max2
<1>4. db' = [db EXCEPT !.jobs = jobs, !.leased = leased]
  BY <1>2, RecordTypes DEF Renew, One
<1> HIDE DEF until
<1>5. /\ r \in StoredJob /\ r # Absent /\ r.status = "processing" /\ r.lease_until = until
      /\ r.token = db.jobs[l.job].token /\ r.attempts = db.jobs[l.job].attempts
      /\ r.max_attempts = db.jobs[l.job].max_attempts
      /\ r.available_at = db.jobs[l.job].available_at
  <2>1. r \in StoredJob
    BY <1>2, <1>3 DEF StoredJob
  <2> QED BY <1>2, <2>1, AbsentAssumption DEF StoredJob
<1> HIDE DEF r, leased
<1>6. db'.jobs = jobs
  <2> HIDE DEF jobs
  <2> QED BY <1>4, RecordTypes DEF KeyName
<1>7. /\ db'.jobs[l.job] = r
      /\ \A i \in Job : i # l.job => Alike(db.jobs[i], db'.jobs[i])
  BY <1>2, <1>6, RecordTypes DEF Alike
<1>8. Sound(r)
  BY <1>2, <1>5 DEF Sound
<1>9. /\ StatusView' = [StatusView EXCEPT ![l.job] = r.status]
      /\ AttemptsView' = [AttemptsView EXCEPT ![l.job] = r.attempts]
      /\ BudgetView' = [BudgetView EXCEPT ![l.job] = r.max_attempts]
      /\ TokenView' = [TokenView EXCEPT ![l.job] = r.token]
      /\ DelayedView' = [DelayedView EXCEPT ![l.job] = (r.status = "queued" /\ r.available_at > now)]
      /\ LapsedView' = [LapsedView EXCEPT ![l.job] = (r.status = "processing" /\ r.lease_until <= now)]
      /\ RecordsSound'
  BY <1>1, <1>2, <1>5, <1>7, <1>8, OneRecordViews
<1>10. /\ r.status = StatusView[l.job] /\ r.attempts = AttemptsView[l.job]
       /\ r.max_attempts = BudgetView[l.job] /\ r.token = TokenView[l.job]
       /\ (r.status = "queued" /\ r.available_at > now) = DelayedView[l.job]
       /\ (r.status = "processing" /\ r.lease_until <= now) = LapsedView[l.job]
  <2>1. /\ (r.status = "queued" /\ r.available_at > now) = FALSE
        /\ (r.status = "processing" /\ r.lease_until <= now) = FALSE
    BY <1>3, <1>5
  <2> QED BY <1>1, <1>2, <1>5, <2>1, OwnerViews, RecordViews
<1>11. StatusView' = StatusView
  BY <1>9, <1>10, StatusShape
<1>12. AttemptsView' = AttemptsView
  BY <1>9, <1>10, AttemptsShape
<1>13. BudgetView' = BudgetView
  BY <1>9, <1>10, BudgetShape
<1>14. TokenView' = TokenView
  BY <1>9, <1>10, TokenShape
<1>15. DelayedView' = DelayedView
  BY <1>9, <1>10, DelayedShape
<1>16. LapsedView' = LapsedView
  BY <1>9, <1>10, LapsedShape
<1> QED BY <1>1, <1>9, <1>11, <1>12, <1>13, <1>14, <1>15, <1>16, TimeStep

-----------------------------------------------------------------------------
(* Admin calls date records first, which the contract does not see. *)
LEMMA DatingAlike ==
  ASSUME NEW j \in Job, db.jobs[j] \in StoredJob, now \in Nat \ {0}
  PROVE  Alike(db.jobs[j], Dating(j))
<1>1. Dating(j) \in StoredJob /\ Dating(j) # Absent /\ db.jobs[j] # Absent
  BY DatingFields, AbsentAssumption
<1>2. /\ Dating(j).status = db.jobs[j].status /\ Dating(j).attempts = db.jobs[j].attempts
      /\ Dating(j).max_attempts = db.jobs[j].max_attempts /\ Dating(j).token = db.jobs[j].token
      /\ Dating(j).available_at = db.jobs[j].available_at
      /\ Dating(j).lease_until = db.jobs[j].lease_until
  BY DEF Dating, StoredJob
<1> QED BY <1>1, <1>2 DEF Alike

LEMMA IndexedAlike ==
  ASSUME RedisInv, NEW P \in SUBSET StoredIds, NEW cursor \in {"scanning", "done"},
         cursor = "done" => Unscanned \subseteq P, db.cursor # "done"
  PROVE  \A j \in Job : Alike(db.jobs[j], Indexed(P, cursor).jobs[j])
<1>1. Good(db) /\ now \in Nat \ {0}
  BY DEF RedisInv, Histories
<1>2. \A j \in Job : Indexed(P, cursor).jobs[j] =
        IF j \in P /\ Terminal(db, j) THEN Dating(j) ELSE db.jobs[j]
  BY <1>1, IndexedGood
<1>3. \A j \in Job : Terminal(db, j) => db.jobs[j] \in StoredJob
  BY RecordTypes DEF Terminal, StoredIn
<1>4. ASSUME NEW j \in Job PROVE Alike(db.jobs[j], Indexed(P, cursor).jobs[j])
  <2>1. CASE j \in P /\ Terminal(db, j)
    <3>1. Indexed(P, cursor).jobs[j] = Dating(j)
      BY <1>2, <2>1
    <3> QED BY <1>1, <1>3, <2>1, <3>1, DatingAlike
  <2>2. CASE ~(j \in P /\ Terminal(db, j))
    <3>1. Indexed(P, cursor).jobs[j] = db.jobs[j]
      BY <1>2, <2>2
    <3> QED BY <3>1 DEF Alike
  <2> QED BY <2>1, <2>2
<1> QED BY <1>4

LEMMA ReadyAlike ==
  ASSUME RedisInv, NEW P \in SUBSET StoredIds, LastPage(P)
  PROVE  \A j \in Job : Alike(db.jobs[j], Ready(P).jobs[j])
<1>1. CASE db.cursor # "done"
  <2>1. Unscanned \subseteq P /\ Ready(P) = Indexed(P, "done")
    BY <1>1 DEF LastPage, Ready
  <2>2. \A j \in Job : Alike(db.jobs[j], Indexed(P, "done").jobs[j])
    BY <1>1, <2>1, IndexedAlike
  <2> QED BY <2>1, <2>2
<1>2. CASE db.cursor = "done"
  BY <1>2 DEF Ready, Alike
<1> QED BY <1>1, <1>2

LEMMA IndexPageMaps ==
  ASSUME RedisInv, RecordsSound, NEW P \in SUBSET StoredIds, IndexPage(P) \/ DeadLetters(P)
  PROVE  RecordsSound' /\ Contract!Next
<1>1. UNCHANGED <<now, issued, outcome, arrivals>>
  BY DEF IndexPage, DeadLetters
<1>2. \A j \in Job : Alike(db.jobs[j], db'.jobs[j])
  <2>1. CASE IndexPage(P)
    <3>1. db' = Indexed(P, "scanning") /\ db.cursor # "done"
      BY <2>1 DEF IndexPage
    <3> QED BY <3>1, IndexedAlike
  <2>2. CASE DeadLetters(P)
    <3>1. db' = Ready(P) /\ LastPage(P)
      BY <2>2 DEF DeadLetters
    <3> QED BY <3>1, ReadyAlike
  <2> QED BY <2>1, <2>2
<1> QED BY <1>1, <1>2, AlikeMaps

Revived(r, policy) ==
  [ClearLease(r) EXCEPT
     !.status = "queued", !.attempts = 0, !.max_attempts = policy.max,
     !.backoff = policy.backoff, !.available_at = now, !.terminal_at = Null]

LEMMA RevivedFields ==
  ASSUME now \in Nat, NEW r \in StoredJob, NEW policy \in Policy
  PROVE  /\ Revived(r, policy) # Absent /\ Revived(r, policy).status = "queued"
         /\ Revived(r, policy).attempts = 0 /\ Revived(r, policy).max_attempts = policy.max
         /\ Revived(r, policy).token = NoToken /\ Revived(r, policy).available_at = now
<1>1. policy.max \in Nat /\ policy.backoff \in Nat
  BY RedisAssumption
<1>2. ClearLease(r) \in StoredJob /\ ClearLease(r).token = NoToken
  BY DEF ClearLease, StoredJob, Null
<1> HIDE DEF ClearLease
<1>3. Revived(r, policy) \in StoredJob
  BY <1>1, <1>2 DEF Revived, StoredJob, Null
<1>4. /\ Revived(r, policy).status = "queued" /\ Revived(r, policy).attempts = 0
      /\ Revived(r, policy).max_attempts = policy.max /\ Revived(r, policy).available_at = now
  BY <1>2 DEF Revived, StoredJob
<1>5. Revived(r, policy).token = NoToken
  BY <1>2 DEF Revived, StoredJob
<1> QED BY <1>3, <1>4, <1>5, AbsentAssumption

LEMMA RetryDeadLetterMaps ==
  ASSUME RedisInv, RecordsSound, NEW P \in SUBSET StoredIds, NEW j \in Job, NEW policy \in Policy,
         RetryDeadLetter(P, j, policy)
  PROVE  RecordsSound' /\ Contract!Next
<1> PICK b : b = Ready(P)
  OBVIOUS
<1> DEFINE r == Revived(b.jobs[j], policy)
           jobs == [b.jobs EXCEPT ![j] = r]
           failed == ZRem(b.failed, {j})
           ready == ZAdd(b.ready, One(MemberOf(b, j), now))
<1>1. /\ LastPage(P) /\ StoredIn(b, j, "failed")
      /\ arrivals < MaxArrivals /\ arrivals' = arrivals + 1
      /\ UNCHANGED <<now, issued, outcome>>
      /\ db' = [b EXCEPT !.jobs = jobs, !.failed = failed, !.ready = ready]
  BY DEF RetryDeadLetter, One, Revived
<1>2. Good(b) /\ \A i \in Job : Alike(db.jobs[i], b.jobs[i])
  BY <1>1, ReadyFacts, ReadyAlike
<1>3. b = [k \in KeyName |-> b[k]] /\ b.jobs \in [Job -> StoredJob \cup {Absent}]
  BY <1>2 DEF Good, Shape
<1>4. b.jobs[j] \in StoredJob /\ b.jobs[j] # Absent /\ b.jobs[j].status = "failed" /\ now \in Nat
  BY <1>1, <1>3, RecordTypes DEF StoredIn
<1>5. /\ r # Absent /\ r.status = "queued" /\ r.attempts = 0 /\ r.max_attempts = policy.max
      /\ r.token = NoToken /\ r.available_at = now /\ ~(now > now)
  BY <1>4, RevivedFields
<1> HIDE DEF r, failed, ready
<1>6. db'.jobs = jobs
  <2> HIDE DEF jobs
  <2> QED BY <1>1, <1>3 DEF KeyName
<1>7. db'.jobs[j] = r /\ \A i \in Job : i # j => Alike(db.jobs[i], db'.jobs[i])
  BY <1>2, <1>3, <1>6
<1>8. policy.max \in {p.max : p \in Policy} /\ policy.max \in Nat \ {0}
  BY RedisAssumption
<1>9. Sound(r)
  BY <1>5, <1>8 DEF Sound
<1>10. /\ StatusView' = [StatusView EXCEPT ![j] = r.status]
       /\ AttemptsView' = [AttemptsView EXCEPT ![j] = r.attempts]
       /\ BudgetView' = [BudgetView EXCEPT ![j] = r.max_attempts]
       /\ TokenView' = [TokenView EXCEPT ![j] = r.token]
       /\ DelayedView' = [DelayedView EXCEPT ![j] = (r.status = "queued" /\ r.available_at > now)]
       /\ LapsedView' = [LapsedView EXCEPT ![j] = (r.status = "processing" /\ r.lease_until <= now)]
       /\ RecordsSound'
  BY <1>1, <1>5, <1>7, <1>9, OneRecordViews
<1>11. /\ StatusView[j] = "failed" /\ TokenView[j] = NoToken
       /\ DelayedView[j] = FALSE /\ LapsedView[j] = FALSE
  <2>1. db.jobs[j] # Absent /\ db.jobs[j].status = "failed"
    BY <1>2, <1>4 DEF Alike
  <2>2. db.jobs[j].token = NoToken
    BY <2>1 DEF RecordsSound, Sound
  <2> QED BY <2>1, <2>2, RecordViews
<1>12. /\ (r.status = "queued" /\ r.available_at > now) = FALSE
       /\ (r.status = "processing" /\ r.lease_until <= now) = FALSE
  BY <1>5
<1>13. TokenView' = TokenView
  BY <1>5, <1>10, <1>11, TokenShape
<1>14. DelayedView' = DelayedView
  BY <1>10, <1>11, <1>12, DelayedShape
<1>15. LapsedView' = LapsedView
  BY <1>10, <1>11, <1>12, LapsedShape
<1>16. Contract!RetryDeadLetter(j, policy.max)
  BY <1>1, <1>5, <1>10, <1>11, <1>13, <1>14, <1>15 DEF Contract!RetryDeadLetter, Contract!NewBudget
<1>17. Contract!RetrySome
  BY <1>8, <1>16 DEF Contract!RetrySome
<1> QED BY <1>10, <1>17 DEF Contract!Next

LEMMA PurgeMaps ==
  ASSUME RedisInv, RecordsSound, NEW P \in SUBSET StoredIds, NEW S \in SUBSET StoredIds,
         NEW st \in {"completed", "failed"}, NEW age \in Age, NEW n \in Limit,
         PurgeTerminal(P, st, age, n, S)
  PROVE  RecordsSound' /\ Contract!Next
<1> PICK b : b = Ready(P)
  OBVIOUS
<1>1. /\ LastPage(P) /\ UNCHANGED <<now, issued, outcome, arrivals>>
      /\ \A j \in S : StoredIn(b, j, st)
      /\ IsPurged(b, st, S, db')
  BY DEF PurgeTerminal, IsPurged
<1>2. Good(b) /\ \A i \in Job : Alike(db.jobs[i], b.jobs[i])
  BY <1>1, ReadyFacts, ReadyAlike
<1>3. S \in SUBSET Job
  BY DEF StoredIds
<1>4. \A j \in Job : db'.jobs[j] = IF j \in S THEN Absent ELSE b.jobs[j]
  BY <1>1, <1>2 DEF IsPurged, Good, Shape, KeyName
<1>5. ASSUME NEW j \in Job \ S
      PROVE  /\ StatusView'[j] = StatusView[j] /\ AttemptsView'[j] = AttemptsView[j]
             /\ BudgetView'[j] = BudgetView[j] /\ TokenView'[j] = TokenView[j]
             /\ DelayedView'[j] = DelayedView[j] /\ LapsedView'[j] = LapsedView[j]
             /\ db'.jobs[j] # Absent => Sound(db'.jobs[j])
  <2>1. Alike(db.jobs[j], db'.jobs[j]) /\ (db.jobs[j] # Absent => Sound(db.jobs[j]))
    BY <1>2, <1>4 DEF RecordsSound
  <2> QED BY <1>1, <2>1, AlikeViews
<1>6. ASSUME NEW j \in S
      PROVE  /\ StatusView[j] = st /\ TokenView[j] = NoToken
             /\ DelayedView[j] = FALSE /\ LapsedView[j] = FALSE
             /\ StatusView'[j] = "absent" /\ AttemptsView'[j] = 0 /\ BudgetView'[j] = 0
             /\ TokenView'[j] = NoToken /\ DelayedView'[j] = FALSE /\ LapsedView'[j] = FALSE
  <2>1. j \in Job /\ db.jobs[j] # Absent /\ db.jobs[j].status = st
    BY <1>1, <1>2, <1>3 DEF Alike, StoredIn
  <2>2. db.jobs[j].token = NoToken
    BY <2>1 DEF RecordsSound, Sound
  <2>3. db'.jobs[j] = Absent
    BY <1>3, <1>4
  <2>4. /\ StatusView[j] = st /\ TokenView[j] = NoToken
        /\ DelayedView[j] = FALSE /\ LapsedView[j] = FALSE
    BY <2>1, <2>2, RecordViews
  <2> QED BY <2>1, <2>3, <2>4, NextViews
<1>7. RecordsSound'
  <2> SUFFICES ASSUME NEW j \in Job, db'.jobs[j] # Absent PROVE Sound(db.jobs[j])'
    BY DEF RecordsSound
  <2>1. Sound(db'.jobs[j])
    BY <1>4, <1>5
  <2> QED BY <1>1, <2>1 DEF Sound
<1>8. StatusView' = [j \in Job |-> IF j \in S THEN "absent" ELSE StatusView[j]]
  BY <1>5, <1>6, StatusShape
<1>9. AttemptsView' = [j \in Job |-> IF j \in S THEN 0 ELSE AttemptsView[j]]
  BY <1>5, <1>6, AttemptsShape
<1>10. BudgetView' = [j \in Job |-> IF j \in S THEN 0 ELSE BudgetView[j]]
  BY <1>5, <1>6, BudgetShape
<1>a. \A j \in Job : /\ TokenView'[j] = TokenView[j] /\ DelayedView'[j] = DelayedView[j]
                     /\ LapsedView'[j] = LapsedView[j]
  BY <1>5, <1>6
<1>11. TokenView' = TokenView
  BY <1>a, TokenShape
<1>12. DelayedView' = DelayedView
  BY <1>a, DelayedShape
<1>13. LapsedView' = LapsedView
  BY <1>a, LapsedShape
<1>14. Contract!PurgeTerminal(S, st)
  BY <1>1, <1>6, <1>8, <1>9, <1>10, <1>11, <1>12, <1>13 DEF Contract!PurgeTerminal, Contract!Terminal
<1>15. Contract!PurgeSome
  BY <1>3, <1>14 DEF Contract!PurgeSome, Contract!Terminal
<1> QED BY <1>7, <1>15 DEF Contract!Next

LEMMA EnqueueMaps ==
  ASSUME RedisInv, RecordsSound, NEW Q \in Batch, NEW policy \in Policy, Enqueue(Q, policy)
  PROVE  RecordsSound' /\ Contract!Next
<1> DEFINE n == Cardinality(DOMAIN Q)
           B == {Q[i] : i \in DOMAIN Q}
           Place(j) == db.sequence + (CHOOSE i \in DOMAIN Q : Q[i] = j)
           new == [j \in B |->
                [status |-> "queued", attempts |-> 0, max_attempts |-> policy.max,
                 backoff |-> policy.backoff, member |-> Place(j), available_at |-> now,
                 token |-> NoToken, lease_until |-> Null, terminal_at |-> Null]]
           jobs == [j \in Job |-> IF j \in DOMAIN new THEN new[j] ELSE db.jobs[j]]
           ready == ZAdd(db.ready, [m \in {<<Place(j), j>> : j \in B} |-> now])
           budget == [j \in B |-> policy.max]
<1>1. /\ \A j \in B : db.jobs[j] = Absent
      /\ arrivals < MaxArrivals /\ arrivals' = arrivals + 1
      /\ UNCHANGED <<now, issued, outcome>>
      /\ db' = [[db EXCEPT !.jobs = jobs] EXCEPT !.sequence = @ + n, !.ready = ready]
  BY DEF Enqueue, Save
<1>2. B \in SUBSET Job /\ B # {}
  <2>1. PICK k \in 1..Cardinality(Job) : Q \in [1..k -> Job]
    BY DEF Batch
  <2>2. k >= 1 /\ k \in Int /\ 1 \in DOMAIN Q /\ DOMAIN Q = 1..k
    BY <2>1
  <2>3. Q[1] \in B
    BY <2>2
  <2> QED BY <2>1, <2>2, <2>3
<1>3. \A j \in B : /\ new[j].status = "queued" /\ new[j].attempts = 0
                   /\ new[j].max_attempts = policy.max /\ new[j].available_at = now
                   /\ new[j].token = NoToken
  OBVIOUS
<1>4. DOMAIN new = B
  OBVIOUS
<1>5. \A j \in B : new[j] # Absent
  <2> SUFFICES ASSUME NEW j \in B PROVE new[j] # Absent
    OBVIOUS
  <2>1. Place(j) \in Nat
    <3>1. PICK k \in 1..Cardinality(Job) : Q \in [1..k -> Job]
      BY DEF Batch
    <3>2. \E i \in DOMAIN Q : Q[i] = j
      OBVIOUS
    <3>3. (CHOOSE i \in DOMAIN Q : Q[i] = j) \in DOMAIN Q /\ DOMAIN Q \subseteq Nat
      BY <3>1, <3>2
    <3>4. db.sequence \in Nat
      BY DEF RedisInv, Good, Shape
    <3> QED BY <3>3, <3>4
  <2> HIDE DEF Place
  <2>2. new[j] \in StoredJob
    BY <2>1, RecordTypes, RedisAssumption DEF StoredJob, Null
  <2> QED BY <2>2, AbsentAssumption
<1> HIDE DEF n, B, new, ready
<1>6. db'.jobs = jobs
  <2> HIDE DEF jobs
  <2> QED BY <1>1, RecordTypes DEF KeyName
<1>7. /\ \A j \in B : db'.jobs[j] = new[j]
      /\ \A j \in Job \ B : db'.jobs[j] = db.jobs[j]
  BY <1>2, <1>4, <1>6
<1>8. policy.max \in {p.max : p \in Policy} /\ policy.max \in Nat \ {0}
  BY RedisAssumption
<1>9. ASSUME NEW j \in B
      PROVE  /\ StatusView[j] = "absent" /\ AttemptsView[j] = 0 /\ TokenView[j] = NoToken
             /\ DelayedView[j] = FALSE /\ LapsedView[j] = FALSE
             /\ StatusView'[j] = "queued" /\ AttemptsView'[j] = 0 /\ BudgetView'[j] = policy.max
             /\ TokenView'[j] = NoToken /\ DelayedView'[j] = FALSE /\ LapsedView'[j] = FALSE
  <2>a. now \in Nat
    BY RecordTypes
  <2>1. j \in Job /\ db.jobs[j] = Absent /\ db'.jobs[j] = new[j] /\ ~(now > now)
    BY <1>1, <1>2, <1>7, <2>a
  <2>2. /\ StatusView[j] = "absent" /\ AttemptsView[j] = 0 /\ TokenView[j] = NoToken
        /\ DelayedView[j] = FALSE /\ LapsedView[j] = FALSE
    BY <2>1, RecordViews
  <2>3. /\ StatusView'[j] = "queued" /\ AttemptsView'[j] = 0 /\ BudgetView'[j] = policy.max
        /\ TokenView'[j] = NoToken /\ DelayedView'[j] = FALSE /\ LapsedView'[j] = FALSE
    <3>1. /\ db'.jobs[j] # Absent /\ db'.jobs[j].status = "queued" /\ db'.jobs[j].attempts = 0
          /\ db'.jobs[j].max_attempts = policy.max /\ db'.jobs[j].token = NoToken
          /\ ~(db'.jobs[j].available_at > now')
      BY <1>1, <1>3, <1>5, <2>1
    <3> QED BY <2>1, <3>1, NextViews
  <2> QED BY <2>2, <2>3
<1>10. ASSUME NEW j \in Job \ B
       PROVE  /\ StatusView'[j] = StatusView[j] /\ AttemptsView'[j] = AttemptsView[j]
              /\ BudgetView'[j] = BudgetView[j] /\ TokenView'[j] = TokenView[j]
              /\ DelayedView'[j] = DelayedView[j] /\ LapsedView'[j] = LapsedView[j]
  BY <1>1, <1>7, AlikeViews DEF Alike
<1>11. RecordsSound'
  <2> SUFFICES ASSUME NEW j \in Job, db'.jobs[j] # Absent PROVE Sound(db.jobs[j])'
    BY DEF RecordsSound
  <2>1. CASE j \in B
    BY <1>3, <1>7, <1>8, <2>1 DEF Sound
  <2>2. CASE j \notin B
    BY <1>1, <1>7, <2>2 DEF RecordsSound, Sound
  <2> QED BY <2>1, <2>2
<1>12. budget \in [B -> {p.max : p \in Policy}] /\ \A j \in B : budget[j] = policy.max
  BY <1>8
<1> HIDE DEF budget
<1>13. StatusView' = [j \in Job |-> IF j \in B THEN "queued" ELSE StatusView[j]]
  BY <1>9, <1>10, StatusShape
<1>14. BudgetView' = [j \in Job |-> IF j \in B THEN budget[j] ELSE BudgetView[j]]
  <2>1. \A j \in Job : BudgetView'[j] = IF j \in B THEN budget[j] ELSE BudgetView[j]
    BY <1>9, <1>10, <1>12
  <2> QED BY <2>1, BudgetShape
<1>a. \A j \in Job : /\ AttemptsView'[j] = AttemptsView[j] /\ TokenView'[j] = TokenView[j]
                     /\ DelayedView'[j] = DelayedView[j] /\ LapsedView'[j] = LapsedView[j]
  BY <1>9, <1>10
<1>15. AttemptsView' = AttemptsView
  BY <1>a, AttemptsShape
<1>16. TokenView' = TokenView
  BY <1>a, TokenShape
<1>17. DelayedView' = DelayedView
  BY <1>a, DelayedShape
<1>18. LapsedView' = LapsedView
  BY <1>a, LapsedShape
<1>19. Contract!Enqueue(B, budget)
  BY <1>1, <1>9, <1>13, <1>14, <1>15, <1>16, <1>17, <1>18 DEF Contract!Enqueue
<1>20. Contract!EnqueueSome
  BY <1>2, <1>12, <1>19 DEF Contract!EnqueueSome
<1> QED BY <1>11, <1>20 DEF Contract!Next

LEMMA ContractInit == Init => RecordsSound /\ Contract!Init
<1> SUFFICES ASSUME Init PROVE RecordsSound /\ Contract!Init
  OBVIOUS
<1>1. PICK S \in [Job -> {"absent", "completed", "failed"}], p \in Policy :
        db = [jobs |-> [j \in Job |-> IF S[j] = "absent" THEN Absent ELSE Legacy(j, S[j], p)],
              ready |-> <<>>, leased |-> <<>>, completed |-> <<>>, failed |-> <<>>,
              sequence |-> 0, cursor |-> "none", unscanned |-> {}]
  BY DEF Init
<1>2. /\ issued = [j \in Job |-> {}] /\ outcome = [t \in Token |-> "open"] /\ arrivals = 0
  BY DEF Init
<1>3. p.max \in {q.max : q \in Policy}
  OBVIOUS
<1>4. \A j \in Job : db.jobs[j] = IF S[j] = "absent" THEN Absent ELSE Legacy(j, S[j], p)
  BY <1>1
<1>5. ASSUME NEW j \in Job, S[j] # "absent"
      PROVE  /\ db.jobs[j] # Absent /\ db.jobs[j].status = S[j] /\ S[j] \in {"completed", "failed"}
             /\ db.jobs[j].attempts = p.max /\ db.jobs[j].max_attempts = p.max
             /\ db.jobs[j].token = NoToken
  <2>1. Legacy(j, S[j], p) \in StoredJob
    BY <1>5, RedisAssumption DEF Legacy, StoredJob, Null
  <2>2. db.jobs[j] = Legacy(j, S[j], p) /\ S[j] \in {"completed", "failed"}
    BY <1>4, <1>5
  <2> QED BY <2>1, <2>2, AbsentAssumption DEF Legacy
<1>6. ASSUME NEW j \in Job
      PROVE  /\ StatusView[j] = S[j] /\ S[j] \in {"absent", "completed", "failed"}
             /\ AttemptsView[j] = IF StatusView[j] = "absent" THEN 0 ELSE p.max
             /\ BudgetView[j] = IF StatusView[j] = "absent" THEN 0 ELSE p.max
             /\ TokenView[j] = NoToken /\ DelayedView[j] = FALSE /\ LapsedView[j] = FALSE
  <2>1. CASE S[j] = "absent"
    BY <1>4, <2>1, RecordViews
  <2>2. CASE S[j] # "absent"
    BY <1>5, <2>2, RecordViews
  <2> QED BY <2>1, <2>2
<1>7. RecordsSound
  BY <1>4, <1>5 DEF RecordsSound, Sound
<1>8. StatusView \in [Job -> {"absent"} \cup Contract!Terminal]
  BY <1>6, StatusShape DEF Contract!Terminal
<1>9. AttemptsView = [j \in Job |-> IF StatusView[j] = "absent" THEN 0 ELSE p.max]
  BY <1>6, AttemptsShape
<1>10. BudgetView = [j \in Job |-> IF StatusView[j] = "absent" THEN 0 ELSE p.max]
  BY <1>6, BudgetShape
<1>11. TokenView = [j \in Job |-> NoToken]
  BY <1>6, TokenShape
<1>12. DelayedView = [j \in Job |-> FALSE]
  BY <1>6, DelayedShape
<1>13. LapsedView = [j \in Job |-> FALSE]
  BY <1>6, LapsedShape
<1> QED BY <1>2, <1>3, <1>7, <1>8, <1>9, <1>10, <1>11, <1>12, <1>13 DEF Contract!Init

LEMMA ContractStep ==
  RedisInv /\ RecordsSound /\ [Next]_vars => RecordsSound' /\ [Contract!Next]_(Contract!vars)
<1> SUFFICES ASSUME RedisInv, RecordsSound, [Next]_vars
             PROVE  RecordsSound' /\ [Contract!Next]_(Contract!vars)
  OBVIOUS
<1>1. CASE UNCHANGED vars
  <2>1. UNCHANGED <<now, db, issued, outcome, arrivals>>
    BY <1>1 DEF vars
  <2>2. UNCHANGED <<StatusView, AttemptsView, BudgetView, TokenView, DelayedView, LapsedView>>
    BY <2>1 DEF StatusView, AttemptsView, BudgetView, TokenView, DelayedView, LapsedView,
                Stored, StoredIn
  <2>3. RecordsSound'
    BY <2>1 DEF RecordsSound, Sound
  <2> QED BY <2>1, <2>2, <2>3 DEF Contract!vars
<1>2. CASE Next
  <2>1. RecordsSound' /\ Contract!Next
    BY <1>2, TickMaps, EnqueueMaps, ClaimMaps, PeekMaps, AckMaps, FailMaps, RenewMaps,
       IndexPageMaps, RetryDeadLetterMaps, PurgeMaps DEF Next
  <2> QED BY <2>1
<1> QED BY <1>1, <1>2

(* Every invocation of the script, with the recovery and the indexing that  *)
(* it does on the way, is one step of the queue contract or none, for any   *)
(* jobs, policies, pages and lost replies.                                  *)
THEOREM ImplementsContractCorrect == Spec => ImplementsContract
<1>1. Spec => Contract!Init /\ [][Contract!Next]_(Contract!vars)
  BY RedisInvAlways, ContractInit, ContractStep, PTL DEF Spec
<1> QED BY <1>1 DEF ImplementsContract, Contract!Spec

-----------------------------------------------------------------------------
(* What the contract promises, of the store.  The contract's theorems hold  *)
(* of any state functions that behave as it says, so of the six views.      *)
Promise == INSTANCE JobQueueContractProofs WITH
  Budget <- {p.max : p \in Policy},
  status <- StatusView, attempts <- AttemptsView, maxAttempts <- BudgetView,
  delayed <- DelayedView, token <- TokenView, lapsed <- LapsedView

LEMMA PromiseNext == Contract!Next => Promise!Next
  <1>1. Contract!TimePassesSome => Promise!TimePassesSome
    BY DEF Contract!TimePassesSome, Promise!TimePassesSome, Contract!TimePasses,
           Promise!TimePasses
  <1>2. Contract!EnqueueSome => Promise!EnqueueSome
    BY DEF Contract!EnqueueSome, Promise!EnqueueSome, Contract!Enqueue, Promise!Enqueue
  <1>3. Contract!ClaimSome => Promise!ClaimSome
    BY DEF Contract!ClaimSome, Promise!ClaimSome, Contract!Claim, Promise!Claim,
           Contract!Claimable, Promise!Claimable, Contract!Exhausted, Promise!Exhausted,
           Contract!Abandoned, Promise!Abandoned, Contract!Due, Promise!Due,
           Contract!Lapsed, Promise!Lapsed, Contract!AllIssued, Promise!AllIssued
  <1>4. Contract!AckSome => Promise!AckSome
    BY DEF Contract!AckSome, Promise!AckSome, Contract!Ack, Promise!Ack,
           Contract!Holds, Promise!Holds, Contract!Release, Promise!Release
  <1>5. Contract!FailSome => Promise!FailSome
    BY DEF Contract!FailSome, Promise!FailSome, Contract!Fail, Promise!Fail,
           Contract!Holds, Promise!Holds, Contract!Release, Promise!Release
  <1>6. Contract!RetrySome => Promise!RetrySome
    BY DEF Contract!RetrySome, Promise!RetrySome, Contract!RetryDeadLetter,
           Promise!RetryDeadLetter, Contract!NewBudget, Promise!NewBudget
  <1>7. Contract!PurgeSome => Promise!PurgeSome
    BY DEF Contract!PurgeSome, Promise!PurgeSome, Contract!PurgeTerminal,
           Promise!PurgeTerminal, Contract!Terminal, Promise!Terminal
  <1> QED BY <1>1, <1>2, <1>3, <1>4, <1>5, <1>6, <1>7 DEF Contract!Next, Promise!Next

LEMMA PromiseKept == Spec => Promise!Spec
  <1>1. Contract!Init => Promise!Init
    BY DEF Contract!Init, Promise!Init, Contract!Terminal, Promise!Terminal
  <1>2. [Contract!Next]_(Contract!vars) => [Promise!Next]_(Promise!vars)
    BY PromiseNext DEF Contract!vars, Promise!vars
  <1> QED BY <1>1, <1>2, ImplementsContractCorrect, PTL
      DEF ImplementsContract, Contract!Spec, Promise!Spec

(* No record is leased more often than its budget allows, dead-lettered     *)
(* before it is spent, or queued with nothing left of it.                   *)
THEOREM BudgetHolds == Spec => []Contract!BudgetSpentExactly
  <1>1. Promise!Spec => []Promise!BudgetSpentExactly
    BY RedisAssumption, Promise!BudgetCorrect
  <1>2. Promise!BudgetSpentExactly => Contract!BudgetSpentExactly
    BY DEF Promise!BudgetSpentExactly, Contract!BudgetSpentExactly
  <1> QED BY <1>1, <1>2, PromiseKept, PTL

(* The token of a leased record was issued for that job and no other, and   *)
(* is not settled.                                                          *)
THEOREM TokensHold == Spec => []Contract!TokensFence
  <1>1. Promise!Spec => []Promise!TokensFence
    BY RedisAssumption, Promise!TokensCorrect
  <1>2. Promise!TokensFence => Contract!TokensFence
    BY DEF Promise!TokensFence, Contract!TokensFence
  <1> QED BY <1>1, <1>2, PromiseKept, PTL

(* No record gets back a token it lost, and no settlement follows an        *)
(* accepted one, whatever stale requests arrive.                            *)
THEOREM TokensStayLost == Spec => Contract!TokensNeverReturn
  <1>1. Promise!Spec => Promise!TokensNeverReturn
    BY RedisAssumption, Promise!TokensNeverReturnCorrect
  <1>2. Promise!TokensNeverReturn => Contract!TokensNeverReturn
    BY PTL DEF Promise!TokensNeverReturn, Contract!TokensNeverReturn, Promise!vars, Contract!vars
  <1> QED BY <1>1, <1>2, PromiseKept
=============================================================================
