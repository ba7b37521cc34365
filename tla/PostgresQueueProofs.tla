------------------------- MODULE PostgresQueueProofs -------------------------
(***************************************************************************)
(* Proofs about PostgresQueue, for every set of jobs, tokens, sessions and *)
(* policies.  PgInv is the inductive invariant.  Its heart is PgPending:   *)
(* what a transaction has written and not yet committed is, given the rows *)
(* committed NOW by everyone else, a legal change of those rows - which    *)
(* holds because a row stays locked from the statement that selects it to  *)
(* the end of the transaction.  PgTokens: no token is current for two      *)
(* jobs, stored or about to be.  PgLeases: a lease handed to a consumer    *)
(* stands in the table, or has run out.                                    *)
(***************************************************************************)
EXTENDS PostgresQueue, TLAPS

Dom(s) == DOMAIN tx[s].writes
W(s, j) == tx[s].writes[j]
Is(j, st) == rows[j] \in Row /\ rows[j].status = st

\* What w says of a row that leaves the processing state, or is new.
Freed(w, st) == w \in Row /\ w.status = st /\ w.lease_token = NoToken /\ w.lease_until = Null
SameBudget(w, j) == w.attempts = rows[j].attempts /\ w.max_attempts = rows[j].max_attempts

Inserted(j, w) ==
  /\ rows[j] = Absent /\ Freed(w, "queued")
  /\ w.attempts = 0 /\ w.max_attempts \in {p.max : p \in Policy} /\ w.available_at <= now
Buried(j, w) ==
  /\ Is(j, "processing") /\ Freed(w, "failed") /\ SameBudget(w, j)
  /\ rows[j].lease_until <= now /\ rows[j].attempts >= rows[j].max_attempts
Taken(j, w) ==
  /\ \/ Is(j, "queued") /\ rows[j].available_at <= now
     \/ Is(j, "processing") /\ rows[j].lease_until <= now
  /\ rows[j].attempts < rows[j].max_attempts
  /\ w \in Row /\ w.status = "processing" /\ w.lease_token \in Token
  /\ w.attempts = rows[j].attempts + 1 /\ w.max_attempts = rows[j].max_attempts
Settled(j, w, st) == Is(j, "processing") /\ Freed(w, st) /\ SameBudget(w, j)
Extended(j, w) ==
  /\ Is(j, "processing") /\ w \in Row /\ w.status = "processing" /\ SameBudget(w, j)
  /\ w.lease_token = rows[j].lease_token /\ w.lease_until >= rows[j].lease_until
Requeued(j, w) ==
  /\ Is(j, "failed") /\ Freed(w, "queued")
  /\ w.attempts = 0 /\ w.max_attempts \in {p.max : p \in Policy} /\ w.available_at <= now

\* What an open transaction has written, given the committed rows.
PendingOK(s) ==
  /\ tx[s].op = "idle" => Dom(s) = {}
  /\ tx[s].op = "enqueue" => Dom(s) # {} /\ \A j \in Dom(s) : Inserted(j, W(s, j))
  /\ tx[s].op = "claim" => \A j \in Dom(s) : Buried(j, W(s, j))
  /\ tx[s].op = "claimed" => \A j \in Dom(s) : Buried(j, W(s, j)) \/ Taken(j, W(s, j))
  /\ tx[s].op \in {"ack", "fail", "renew"} =>
       \E j \in Job : Dom(s) = {j} /\ Is(j, "processing") /\ rows[j].lease_token = tx[s].token
  /\ tx[s].op = "ack" => \A j \in Dom(s) : Settled(j, W(s, j), "completed")
  /\ tx[s].op = "fail" => \A j \in Dom(s) :
       Settled(j, W(s, j), IF rows[j].attempts < rows[j].max_attempts THEN "queued" ELSE "failed")
  /\ tx[s].op = "renew" => \A j \in Dom(s) : Extended(j, W(s, j))
  /\ tx[s].op = "retry" => \E j \in Job : Dom(s) = {j} /\ Requeued(j, W(s, j))
  /\ tx[s].op = "purge" => \E st \in {"completed", "failed"} :
       \A j \in Dom(s) : Is(j, st) /\ W(s, j) = Absent

\* The token session s is about to hand out for job j.
Minting(s, j) == tx[s].op = "claimed" /\ j \in Dom(s) /\ W(s, j).status = "processing"

PgTypes == TypeOK /\ tx = [s \in Session |-> tx[s]]
PgPending == \A s \in Session : PendingOK(s)
PgTokens ==
  /\ \A i, j \in Job : i # j => issued[i] \cap issued[j] = {}
  /\ \A j \in Job : Is(j, "processing") => rows[j].lease_token \in issued[j]
  /\ \A s \in Session, j \in Job : Minting(s, j) =>
       \A i \in Job : W(s, j).lease_token \notin issued[i]
  /\ \A s, q \in Session : \A i, j \in Job :
       /\ Minting(s, i) /\ Minting(q, j)
       /\ W(s, i).lease_token = W(q, j).lease_token
       => s = q /\ i = j
Safe(l) == l.open /\ l.until > now =>
             /\ Is(l.job, "processing") /\ rows[l.job].lease_token = l.token
             /\ rows[l.job].lease_until >= l.until
PgLeases ==
  /\ \A l \in held : l.token \in issued[l.job]
  /\ \A l, m \in held : l.token = m.token => l = m
  /\ \A l \in held : Safe(l)
  /\ \A s \in Session : tx[s].op \in {"ack", "fail"} =>
       \A l \in held : l.token = tx[s].token => ~l.open
PgInv == PgTypes /\ PgPending /\ PgTokens /\ PgLeases

-----------------------------------------------------------------------------
(* The rows the statements write. *)

LEMMA RowFields ==
  ASSUME now \in Nat, NEW j, rows[j] \in Row
  PROVE  /\ Freed(DeadLettered(j), "failed") /\ SameBudget(DeadLettered(j), j)
         /\ Freed(Acked(j), "completed") /\ SameBudget(Acked(j), j)
         /\ Freed(FailedRow(j), IF rows[j].attempts < rows[j].max_attempts THEN "queued" ELSE "failed")
         /\ SameBudget(FailedRow(j), j)
  <1>1. now + rows[j].backoff \in Nat
    BY DEF Row
  <1>2. Freed(DeadLettered(j), "failed") /\ SameBudget(DeadLettered(j), j)
    BY DEF DeadLettered, Freed, SameBudget, Row, Null
  <1>3. Freed(Acked(j), "completed") /\ SameBudget(Acked(j), j)
    BY DEF Acked, Freed, SameBudget, Row, Null
  <1>4. CASE rows[j].attempts < rows[j].max_attempts
    BY <1>1, <1>2, <1>3, <1>4 DEF FailedRow, Freed, SameBudget, Row, Null
  <1>5. CASE ~(rows[j].attempts < rows[j].max_attempts)
    BY <1>1, <1>2, <1>3, <1>5 DEF FailedRow, Freed, SameBudget, Row, Null
  <1> QED BY <1>4, <1>5

LEMMA LeasedFields ==
  ASSUME now \in Nat, NEW j, rows[j] \in Row, NEW t \in Token, NEW d \in Lease
  PROVE  /\ Leased(j, t, d) \in Row /\ Leased(j, t, d).status = "processing"
         /\ Leased(j, t, d).lease_token = t
         /\ Leased(j, t, d).attempts = rows[j].attempts + 1
         /\ Leased(j, t, d).max_attempts = rows[j].max_attempts
  <1>1. now + d \in Nat
    BY PostgresAssumption
  <1>2. rows[j].attempts + 1 \in Nat
    BY DEF Row
  <1> QED BY <1>1, <1>2 DEF Leased, Row

LEMMA RenewedFields ==
  ASSUME now \in Nat, NEW j, rows[j] \in Row, NEW d \in Lease
  PROVE  /\ Renewed(j, d) \in Row /\ Renewed(j, d).status = rows[j].status
         /\ SameBudget(Renewed(j, d), j)
         /\ Renewed(j, d).lease_token = rows[j].lease_token
         /\ Renewed(j, d).lease_until >= rows[j].lease_until
  <1>1. d \in Nat
    BY PostgresAssumption
  <1>2. /\ Max2(rows[j].lease_until, now + d) \in Nat
        /\ Max2(rows[j].lease_until, now + d) >= rows[j].lease_until
    BY <1>1 DEF Max2, Row
  <1> QED BY <1>2 DEF Renewed, SameBudget, Row

LEMMA NewFields ==
  ASSUME now \in Nat, sequence \in Nat, NEW p \in Policy
  PROVE  /\ Freed(NewRow(p), "queued") /\ NewRow(p).attempts = 0
         /\ NewRow(p).max_attempts = p.max /\ NewRow(p).available_at = now
  BY PostgresAssumption DEF NewRow, Freed, Row, Null

LEMMA RevivedFields ==
  ASSUME now \in Nat, NEW j, rows[j] \in Row, NEW p \in Policy
  PROVE  /\ Freed(Revived(j, p), "queued") /\ Revived(j, p).attempts = 0
         /\ Revived(j, p).max_attempts = p.max /\ Revived(j, p).available_at = now
  BY PostgresAssumption DEF Revived, Freed, Row, Null

LEMMA MergeFacts ==
  ASSUME NEW old, NEW new
  PROVE  /\ DOMAIN Merge(old, new) = DOMAIN old \cup DOMAIN new
         /\ \A j \in DOMAIN new : Merge(old, new)[j] = new[j]
         /\ \A j \in DOMAIN old \ DOMAIN new : Merge(old, new)[j] = old[j]
  BY DEF Merge

\* The committed table after session s commits.
LEMMA CommittedRows ==
  ASSUME PgTypes, NEW s \in Session, rows' = Committed(s)
  PROVE  /\ rows' = [j \in Job |-> rows'[j]]
         /\ \A j \in Job : rows'[j] = IF j \in Dom(s) THEN W(s, j) ELSE rows[j]
  <1>1. DOMAIN rows = Job /\ Dom(s) \subseteq Job
    BY DEF PgTypes, TypeOK, Dom
  <1> QED BY <1>1 DEF Committed, Merge, Dom, W

LEMMA FreshFacts ==
  ASSUME NEW t \in Fresh
  PROVE  /\ t \in Token
         /\ \A i \in Job : t \notin issued[i]
         /\ \A q \in Session : \A j \in Dom(q) : W(q, j) # Absent => W(q, j).lease_token # t
  <1>0. t \notin Given /\ t \notin Minted
    BY DEF Fresh
  <1>1. t \in Token
    BY DEF Fresh
  <1>2. ASSUME NEW i \in Job PROVE t \notin issued[i]
    BY <1>0 DEF Given
  <1>3. ASSUME NEW q \in Session, NEW j \in Dom(q), W(q, j) # Absent
        PROVE  W(q, j).lease_token # t
    <2>1. j \in {i \in DOMAIN tx[q].writes : tx[q].writes[i] # Absent}
      BY <1>3 DEF Dom, W
    <2>2. tx[q].writes[j].lease_token \in {tx[q].writes[i].lease_token :
            i \in {i \in DOMAIN tx[q].writes : tx[q].writes[i] # Absent}}
      BY <2>1
    <2>3. tx[q].writes[j].lease_token \in UNION {{tx[s].writes[i].lease_token :
            i \in {i \in DOMAIN tx[s].writes : tx[s].writes[i] # Absent}} : s \in Session}
      BY <2>2
    <2> QED BY <1>0, <2>3 DEF W, Minted
  <1> QED BY <1>1, <1>2, <1>3

-----------------------------------------------------------------------------
(* Open transactions stay true to the table. *)

LEMMA PendingFrame ==
  ASSUME NEW s \in Session, PendingOK(s), now \in Nat, now' \in Nat, now' >= now, TypeOK,
         tx'[s] = tx[s], \A j \in Dom(s) : rows'[j] = rows[j]
  PROVE  PendingOK(s)'
  <1>1. Dom(s)' = Dom(s) /\ \A j : W(s, j)' = W(s, j)
    BY DEF Dom, W
  <1>2. ASSUME NEW j \in Dom(s) PROVE rows[j] \in Row => rows[j].lease_until \in Nat /\ rows[j].available_at \in Nat
    BY DEF Row
  <1>3. \A j \in Dom(s) : \A st : Is(j, st)' <=> Is(j, st)
    BY DEF Is
  <1>4. ASSUME NEW j \in Dom(s), NEW st
        PROVE  /\ Buried(j, W(s, j)) => Buried(j, W(s, j))'
               /\ Taken(j, W(s, j)) => Taken(j, W(s, j))'
               /\ Settled(j, W(s, j), st) => Settled(j, W(s, j), st)'
               /\ Extended(j, W(s, j)) => Extended(j, W(s, j))'
    BY <1>1, <1>2, <1>3 DEF Buried, Taken, Settled, Extended, SameBudget, Freed, Is
  <1>5. ASSUME NEW j \in Dom(s)
        PROVE  /\ Inserted(j, W(s, j)) => Inserted(j, W(s, j))'
               /\ Requeued(j, W(s, j)) => Requeued(j, W(s, j))'
    <2>1. W(s, j) \in Row => W(s, j).available_at \in Nat
      BY DEF Row
    <2> QED BY <1>1, <1>2, <1>3, <2>1 DEF Inserted, Requeued, Freed, Is
  <1> QED BY <1>1, <1>3, <1>4, <1>5 DEF PendingOK

\* A row that a transaction wrote may be stored.
LEMMA WritesChecked ==
  ASSUME PgTypes, NEW s \in Session, PendingOK(s), NEW j \in Dom(s), W(s, j) # Absent
  PROVE  W(s, j) \in Row /\ RowChecks(W(s, j))
  <1>1. j \in Job /\ tx[s].op \in Ops /\ now \in Nat
    BY PostgresAssumption DEF PgTypes, TypeOK, Dom
  <1>2. rows[j] \in Row => RowChecks(rows[j])
    BY <1>1, AbsentAssumption DEF PgTypes, TypeOK
  <1>3. ASSUME NEW st, st # "processing", Freed(W(s, j), st), W(s, j).attempts \in Nat,
               W(s, j).attempts <= W(s, j).max_attempts, W(s, j).max_attempts > 0
        PROVE  W(s, j) \in Row /\ RowChecks(W(s, j))
    BY <1>3 DEF Freed, RowChecks
  <1>4. ASSUME SameBudget(W(s, j), j), rows[j] \in Row
        PROVE  /\ W(s, j).attempts \in Nat /\ W(s, j).attempts <= W(s, j).max_attempts
               /\ W(s, j).max_attempts > 0
    BY <1>2, <1>4 DEF SameBudget, RowChecks, Row
  <1>5. ASSUME W(s, j).attempts = 0, W(s, j).max_attempts \in {p.max : p \in Policy}
        PROVE  /\ W(s, j).attempts \in Nat /\ W(s, j).attempts <= W(s, j).max_attempts
               /\ W(s, j).max_attempts > 0
    BY <1>5, PostgresAssumption
  <1>6. CASE Inserted(j, W(s, j)) \/ Requeued(j, W(s, j))
    BY <1>3, <1>5, <1>6 DEF Inserted, Requeued
  <1>7. CASE Buried(j, W(s, j))
    BY <1>3, <1>4, <1>7 DEF Buried, Is
  <1>8. CASE Taken(j, W(s, j))
    <2>1. W(s, j).lease_token # NoToken
      BY <1>8, PostgresAssumption DEF Taken
    <2>2. rows[j] \in Row /\ rows[j].attempts \in Nat /\ rows[j].max_attempts \in Nat
      BY <1>8 DEF Taken, Is, Row
    <2> QED BY <1>8, <2>1, <2>2 DEF Taken, RowChecks
  <1>9. CASE \E st \in {"completed", "queued", "failed"} : Settled(j, W(s, j), st)
    BY <1>3, <1>4, <1>9 DEF Settled, Is
  <1>10. CASE Extended(j, W(s, j))
    <2>1. W(s, j).attempts <= W(s, j).max_attempts /\ W(s, j).max_attempts > 0
      BY <1>4, <1>10 DEF Extended, Is
    <2>2. W(s, j).lease_token # NoToken
      BY <1>2, <1>10 DEF Extended, Is, RowChecks
    <2> QED BY <1>10, <2>1, <2>2 DEF Extended, RowChecks
  <1> QED BY <1>1, <1>6, <1>7, <1>8, <1>9, <1>10 DEF PendingOK, Ops

\* Session s starts or extends its transaction; nothing is committed.
LEMMA StatementInv ==
  ASSUME PgInv, NEW s \in Session, NEW op \in Ops, NEW t \in Token \cup {NoToken}, NEW w,
         tx' = [tx EXCEPT ![s] = [op |-> op, token |-> t, writes |-> w]],
         UNCHANGED <<now, rows, issued, outcome, arrivals>>, sequence' \in Nat,
         DOMAIN w \subseteq Job, \A j \in DOMAIN w : w[j] \in Row \cup {Absent},
         \A j \in DOMAIN w : ~Locked(s, j),
         PendingOK(s)',
         op = "claimed" => \A j \in DOMAIN w : w[j].status = "processing" =>
           /\ w[j].lease_token \in Fresh
           /\ \A i \in DOMAIN w : w[i].status = "processing" /\ w[i].lease_token = w[j].lease_token
                                => i = j,
         \/ UNCHANGED held /\ op \notin {"ack", "fail"}
         \/ \E l \in held : l.token = t /\ Close(l)
  PROVE  PgInv'
  <1> USE DEF PgInv
  <1>1. /\ tx'[s].op = op /\ tx'[s].token = t /\ tx'[s].writes = w
        /\ \A q \in Session \ {s} : tx'[q] = tx[q]
        /\ tx' = [q \in Session |-> tx'[q]]
    BY DEF PgTypes
  <1>2. /\ Dom(s)' = DOMAIN w /\ \A j : W(s, j)' = w[j]
        /\ \A q \in Session \ {s} : Dom(q)' = Dom(q) /\ \A j : W(q, j)' = W(q, j)
    BY <1>1 DEF Dom, W
  <1>3. now \in Nat /\ now' \in Nat /\ now' >= now /\ TypeOK
    BY PostgresAssumption DEF PgTypes, TypeOK
  <1>4. held' \subseteq LeaseRecord
    <2>1. CASE UNCHANGED held
      BY <1>3, <2>1 DEF TypeOK
    <2>2. ASSUME NEW l \in held, Close(l) PROVE held' \subseteq LeaseRecord
      <3>1. l \in LeaseRecord
        BY <1>3 DEF TypeOK
      <3>2. [l EXCEPT !.open = FALSE] \in LeaseRecord
        BY <3>1 DEF LeaseRecord
      <3> QED BY <1>3, <2>2, <3>2 DEF TypeOK, Close
    <2> QED BY <2>1, <2>2
  <1>5. \A q \in Session \ {s} : Dom(q) \cap DOMAIN w = {}
    BY DEF Locked, Dom
  <1>6. TypeOK'
    <2>1. \A q \in Session :
            /\ tx'[q].op \in Ops /\ tx'[q].token \in Token \cup {NoToken}
            /\ DOMAIN tx'[q].writes \subseteq Job
            /\ \A j \in DOMAIN tx'[q].writes : tx'[q].writes[j] \in Row \cup {Absent}
      BY <1>1, <1>3 DEF TypeOK
    <2>2. ASSUME NEW p \in Session, NEW q \in Session, p # q
          PROVE  DOMAIN tx'[p].writes \cap DOMAIN tx'[q].writes = {}
      BY <1>1, <1>3, <1>5, <2>2 DEF TypeOK, Dom
    <2>3. \A j \in Job : rows'[j] # Absent => RowChecks(rows'[j])
      BY <1>3 DEF TypeOK
    <2> QED BY <1>3, <1>4, <2>1, <2>2, <2>3 DEF TypeOK, RowChecks
  <1>7. PgPending'
    <2>1. ASSUME NEW q \in Session \ {s} PROVE PendingOK(q)'
      BY <1>1, <1>3, PendingFrame DEF PgPending
    <2> QED BY <2>1 DEF PgPending
  <1>8. PgTokens'
    <2>1. \A j : Is(j, "processing")' <=> Is(j, "processing")
      BY DEF Is
    <2>2. \A q \in Session \ {s}, j \in Job : Minting(q, j)' <=> Minting(q, j)
      BY <1>1, <1>2 DEF Minting
    <2>3. ASSUME NEW j \in Job, Minting(s, j)'
          PROVE  /\ j \in DOMAIN w /\ op = "claimed" /\ w[j].status = "processing"
                 /\ w[j].lease_token \in Fresh
      BY <1>1, <1>2, <2>3 DEF Minting
    <2>4. ASSUME NEW q \in Session, NEW j \in Job, Minting(q, j)', NEW i \in Job
          PROVE  W(q, j)'.lease_token \notin issued'[i]
      BY <1>2, <2>2, <2>3, <2>4, FreshFacts DEF PgTokens
    <2>5. ASSUME NEW q \in Session \ {s}, NEW i \in Job, NEW j \in Job,
                 Minting(s, i)', Minting(q, j)'
          PROVE  w[i].lease_token # W(q, j).lease_token
      <3>1. j \in Dom(q) /\ W(q, j) # Absent
        <4>1. j \in Dom(q) /\ tx[q].op = "claimed" /\ W(q, j).status = "processing"
          BY <2>2, <2>5 DEF Minting
        <4>2. Buried(j, W(q, j)) \/ Taken(j, W(q, j))
          BY <4>1 DEF PgPending, PendingOK
        <4> QED BY <4>1, <4>2, AbsentAssumption DEF Buried, Taken, Freed
      <3> QED BY <2>3, <2>5, <3>1, FreshFacts
    <2>6. ASSUME NEW p \in Session, NEW q \in Session, NEW i \in Job, NEW j \in Job,
                 Minting(p, i)', Minting(q, j)', W(p, i)'.lease_token = W(q, j)'.lease_token
          PROVE  p = q /\ i = j
      <3>1. CASE p = s /\ q = s
        BY <1>2, <2>3, <2>6, <3>1
      <3>2. CASE p = s /\ q # s
        BY <1>2, <2>5, <2>6, <3>2
      <3>3. CASE p # s /\ q = s
        BY <1>2, <2>5, <2>6, <3>3
      <3>4. CASE p # s /\ q # s
        BY <1>2, <2>2, <2>6, <3>4 DEF PgTokens
      <3> QED BY <3>1, <3>2, <3>3, <3>4
    <2> QED BY <2>1, <2>4, <2>6 DEF PgTokens
  <1>9. PgLeases'
    <2>1. ASSUME NEW l \in held PROVE Safe(l)
      BY DEF PgLeases
    <2>2. CASE UNCHANGED held /\ op \notin {"ack", "fail"}
      <3>1. \A l \in held : Safe(l)'
        BY <2>1 DEF Safe, Is
      <3> QED BY <1>1, <2>2, <3>1 DEF PgLeases
    <2>3. CASE \E l \in held : l.token = t /\ Close(l)
      <3>1. PICK l \in held : l.token = t /\ Close(l)
        BY <2>3
      <3>2. l \in LeaseRecord
        BY <1>3 DEF TypeOK
      <3>3. PICK m : m = [l EXCEPT !.open = FALSE]
        OBVIOUS
      <3>4. m.token = l.token /\ m.job = l.job /\ ~m.open
        BY <3>2, <3>3 DEF LeaseRecord
      <3>5. held' = (held \ {l}) \cup {m}
        BY <3>1, <3>3 DEF Close
      <3>6. \A k \in held' : k.token \in issued'[k.job]
        BY <3>4, <3>5 DEF PgLeases
      <3>7. \A k, n \in held' : k.token = n.token => k = n
        BY <3>4, <3>5 DEF PgLeases
      <3>8. ASSUME NEW k \in held' PROVE Safe(k)'
        BY <2>1, <3>4, <3>5 DEF Safe, Is
      <3>9. \A q \in Session : tx'[q].op \in {"ack", "fail"} =>
              \A k \in held' : k.token = tx'[q].token => ~k.open
        BY <1>1, <3>1, <3>4, <3>5 DEF PgLeases
      <3> QED BY <3>6, <3>7, <3>8, <3>9 DEF PgLeases
    <2> QED BY <2>2, <2>3
  <1> QED BY <1>1, <1>6, <1>7, <1>8, <1>9 DEF PgTypes

LEMMA WroteFacts ==
  ASSUME PgTypes, NEW s \in Session, NEW op, NEW t, NEW w, Wrote(s, op, t, w)
  PROVE  /\ tx' = [tx EXCEPT ![s] = [op |-> op, token |-> t, writes |-> Merge(tx[s].writes, w)]]
         /\ tx'[s].op = op /\ tx'[s].token = t
         /\ tx'[s].writes = Merge(tx[s].writes, w)
         /\ Dom(s)' = Dom(s) \cup DOMAIN w
         /\ \A j \in DOMAIN w : W(s, j)' = w[j]
         /\ \A j \in Dom(s) \ DOMAIN w : W(s, j)' = W(s, j)
  <1> PICK v : v = Merge(tx[s].writes, w)
    OBVIOUS
  <1>1. tx' = [tx EXCEPT ![s] = [op |-> op, token |-> t, writes |-> v]]
    BY DEF Wrote
  <1>2. tx'[s] = [op |-> op, token |-> t, writes |-> v]
    BY <1>1 DEF PgTypes
  <1>3. /\ DOMAIN v = DOMAIN tx[s].writes \cup DOMAIN w
        /\ \A j \in DOMAIN w : v[j] = w[j]
        /\ \A j \in DOMAIN tx[s].writes \ DOMAIN w : v[j] = tx[s].writes[j]
    BY DEF Merge
  <1>4. Dom(s)' = DOMAIN v /\ \A j : W(s, j)' = v[j]
    BY <1>2 DEF Dom, W
  <1> QED BY <1>1, <1>2, <1>3, <1>4 DEF Dom, W

LEMMA WroteInv ==
  ASSUME PgInv, NEW s \in Session, NEW op \in Ops, NEW t \in Token \cup {NoToken}, NEW w,
         Wrote(s, op, t, w),
         UNCHANGED <<now, rows, issued, outcome, arrivals>>, sequence' \in Nat,
         DOMAIN w \subseteq Job, \A j \in DOMAIN w : w[j] \in Row \cup {Absent} /\ ~Locked(s, j),
         PendingOK(s)',
         op = "claimed" =>
           /\ \A j \in Dom(s) \ DOMAIN w : W(s, j).status # "processing"
           /\ \A j \in DOMAIN w :
                /\ w[j].lease_token \in Fresh
                /\ \A i \in DOMAIN w : w[i].lease_token = w[j].lease_token => i = j,
         \/ UNCHANGED held /\ op \notin {"ack", "fail"}
         \/ \E l \in held : l.token = t /\ Close(l)
  PROVE  PgInv'
  <1> PICK v : v = Merge(tx[s].writes, w)
    OBVIOUS
  <1>1. /\ tx' = [tx EXCEPT ![s] = [op |-> op, token |-> t, writes |-> v]]
        /\ DOMAIN v = Dom(s) \cup DOMAIN w
        /\ \A j \in DOMAIN w : v[j] = w[j]
        /\ \A j \in Dom(s) \ DOMAIN w : v[j] = W(s, j)
    <2>1. tx' = [tx EXCEPT ![s] = [op |-> op, token |-> t, writes |-> v]]
      BY DEF Wrote
    <2>2. /\ DOMAIN v = DOMAIN tx[s].writes \cup DOMAIN w
          /\ \A j \in DOMAIN w : v[j] = w[j]
          /\ \A j \in DOMAIN tx[s].writes \ DOMAIN w : v[j] = tx[s].writes[j]
      BY DEF Merge
    <2> QED BY <2>1, <2>2 DEF Dom, W
  <1>2. /\ Dom(s) \subseteq Job /\ \A j \in Dom(s) : W(s, j) \in Row \cup {Absent} /\ ~Locked(s, j)
    BY DEF PgInv, PgTypes, TypeOK, Dom, W, Locked
  <1>3. DOMAIN v \subseteq Job /\ \A j \in DOMAIN v : v[j] \in Row \cup {Absent} /\ ~Locked(s, j)
    BY <1>1, <1>2
  <1>4. op = "claimed" => \A j \in DOMAIN v : v[j].status = "processing" =>
          /\ v[j].lease_token \in Fresh
          /\ \A i \in DOMAIN v : v[i].status = "processing" /\ v[i].lease_token = v[j].lease_token
                               => i = j
    BY <1>1
  <1> QED BY <1>1, <1>3, <1>4, StatementInv

-----------------------------------------------------------------------------
(* Commits. *)

\* A live lease survives the commit of any session.
LEMMA CommitSafe ==
  ASSUME PgInv, NEW s \in Session, rows' = Committed(s), NEW l \in held, l.open, l.until > now
  PROVE  /\ rows'[l.job] \in Row /\ rows'[l.job].status = "processing"
         /\ rows'[l.job].lease_token = l.token
         /\ rows'[l.job].lease_until >= l.until
         /\ l.job \in Dom(s) =>
              /\ tx[s].op = "renew" /\ tx[s].token = l.token
              /\ rows'[l.job].lease_until = W(s, l.job).lease_until
  <1> USE DEF PgInv
  <1>1. l \in LeaseRecord /\ now \in Nat /\ tx[s].op \in Ops
    BY PostgresAssumption DEF PgTypes, TypeOK
  <1>2. /\ Is(l.job, "processing") /\ rows[l.job].lease_token = l.token
        /\ rows[l.job].lease_until >= l.until
    BY DEF PgLeases, Safe
  <1>3. l.job \in Job /\ l.until \in Nat /\ rows[l.job].lease_until \in Nat /\ rows[l.job] # Absent
    BY <1>1, <1>2, AbsentAssumption DEF LeaseRecord, Is, Row
  <1>4. rows'[l.job] = IF l.job \in Dom(s) THEN W(s, l.job) ELSE rows[l.job]
    BY <1>3, CommittedRows
  <1>5. CASE l.job \notin Dom(s)
    BY <1>2, <1>4, <1>5 DEF Is
  <1>6. CASE l.job \in Dom(s)
    <2>1. PendingOK(s)
      BY DEF PgPending
    <2>2. ~(rows[l.job].lease_until <= now)
      BY <1>1, <1>2, <1>3
    <2>3. tx[s].op \notin {"idle", "enqueue", "claim", "claimed", "retry", "purge"}
      BY <1>2, <1>3, <1>6, <2>1, <2>2 DEF PendingOK, Inserted, Buried, Taken, Requeued, Is
    <2>4. tx[s].token = l.token
      BY <1>1, <1>2, <1>6, <2>1, <2>3 DEF PendingOK, Ops
    <2>5. tx[s].op = "renew"
      BY <1>1, <2>3, <2>4 DEF PgLeases, Ops
    <2>6. Extended(l.job, W(s, l.job))
      BY <1>6, <2>1, <2>5 DEF PendingOK
    <2>7. W(s, l.job).lease_until >= l.until
      <3>1. W(s, l.job).lease_until \in Nat
        BY <2>6 DEF Extended, Row
      <3> QED BY <1>2, <1>3, <2>6, <3>1 DEF Extended
    <2> QED BY <1>2, <1>4, <1>6, <2>4, <2>5, <2>6, <2>7 DEF Extended
  <1> QED BY <1>5, <1>6

LEMMA FinishFacts ==
  ASSUME PgTypes, NEW s \in Session, Finish(s)
  PROVE  /\ tx'[s] = Idle /\ tx'[s].op = "idle" /\ tx'[s].token = NoToken
         /\ DOMAIN tx'[s].writes = {} /\ Dom(s)' = {}
         /\ \A q \in Session \ {s} : /\ tx'[q] = tx[q] /\ Dom(q)' = Dom(q)
                                      /\ \A j : W(q, j)' = W(q, j)
         /\ tx' = [q \in Session |-> tx'[q]]
  <1>1. tx'[s] = Idle /\ tx' = [q \in Session |-> tx'[q]] /\ \A q \in Session \ {s} : tx'[q] = tx[q]
    BY DEF PgTypes, Finish
  <1>2. DOMAIN <<>> = {}
    OBVIOUS
  <1> QED BY <1>1, <1>2 DEF Idle, Dom, W

\* What a commit leaves to show once the leases are accounted for.
LEMMA CommitInv ==
  ASSUME PgInv, NEW s \in Session, rows' = Committed(s), Finish(s), UNCHANGED <<now, sequence>>,
         arrivals' \in 0..MaxArrivals, outcome' \in [Token -> {"open", "acked", "failed"}],
         issued' \in [Job -> SUBSET Token],
         \A j \in Job : issued'[j] = IF Minting(s, j) THEN issued[j] \cup {W(s, j).lease_token}
                                                     ELSE issued[j],
         held' \subseteq LeaseRecord, PgLeases'
  PROVE  PgInv'
  <1> USE DEF PgInv
  <1>1. /\ rows' = [j \in Job |-> rows'[j]]
        /\ \A j \in Job : rows'[j] = IF j \in Dom(s) THEN W(s, j) ELSE rows[j]
    BY CommittedRows
  <1>2. /\ tx'[s].op = "idle" /\ tx'[s].token = NoToken
        /\ DOMAIN tx'[s].writes = {} /\ Dom(s)' = {}
        /\ \A q \in Session \ {s} : /\ tx'[q] = tx[q] /\ Dom(q)' = Dom(q)
                                     /\ \A j : W(q, j)' = W(q, j)
        /\ tx' = [q \in Session |-> tx'[q]]
    BY FinishFacts
  <1>3. now \in Nat /\ TypeOK /\ PendingOK(s) /\ Dom(s) \subseteq Job
    BY PostgresAssumption DEF PgTypes, PgPending, TypeOK, Dom
  <1>4. \A q \in Session \ {s} : Dom(q) \cap Dom(s) = {} /\ Dom(q) \subseteq Job
    BY <1>3 DEF TypeOK, Dom
  <1>5. TypeOK'
    <2>1. ASSUME NEW j \in Job
          PROVE  rows'[j] \in Row \cup {Absent} /\ (rows'[j] # Absent => RowChecks(rows'[j]))
      <3>1. CASE j \in Dom(s)
        BY <1>1, <1>3, <3>1, WritesChecked DEF RowChecks
      <3>2. CASE j \notin Dom(s)
        BY <1>1, <1>3, <3>2 DEF TypeOK
      <3> QED BY <3>1, <3>2
    <2>2. rows' \in [Job -> Row \cup {Absent}]
      BY <1>1, <2>1
    <2>3. \A q \in Session :
            /\ tx'[q].op \in Ops /\ tx'[q].token \in Token \cup {NoToken}
            /\ DOMAIN tx'[q].writes \subseteq Job
            /\ \A j \in DOMAIN tx'[q].writes : tx'[q].writes[j] \in Row \cup {Absent}
      BY <1>2, <1>3 DEF TypeOK, Ops
    <2>4. \A p, q \in Session : p # q => DOMAIN tx'[p].writes \cap DOMAIN tx'[q].writes = {}
      BY <1>2, <1>3 DEF TypeOK
    <2> QED BY <1>3, <2>1, <2>2, <2>3, <2>4 DEF TypeOK, RowChecks
  <1>6. PgPending'
    <2>1. PendingOK(s)'
      BY <1>2 DEF PendingOK
    <2>2. ASSUME NEW q \in Session \ {s} PROVE PendingOK(q)'
      <3>1. \A j \in Dom(q) : rows'[j] = rows[j]
        BY <1>1, <1>4
      <3>2. now' \in Nat /\ now' >= now
        BY <1>3
      <3> QED BY <1>2, <1>3, <3>1, <3>2, PendingFrame DEF PgPending
    <2> QED BY <2>1, <2>2 DEF PgPending
  <1>7. PgTokens'
    <2>1. \A q \in Session, j \in Job : Minting(q, j)' => q # s /\ Minting(q, j) /\ W(q, j)' = W(q, j)
      BY <1>2 DEF Minting
    <2>2. ASSUME NEW j \in Job, Is(j, "processing")' PROVE rows'[j].lease_token \in issued'[j]
      <3>1. CASE j \notin Dom(s)
        BY <1>1, <2>2, <3>1 DEF PgTokens, Is
      <3>2. CASE j \in Dom(s) /\ tx[s].op = "claimed"
        BY <1>1, <2>2, <3>2 DEF Minting, Is
      <3>3. CASE j \in Dom(s) /\ tx[s].op # "claimed"
        <4>1. W(s, j) \in Row /\ W(s, j).status = "processing" /\ tx[s].op \in Ops
          BY <1>1, <1>3, <2>2, <3>3 DEF Is, TypeOK
        <4>2. tx[s].op = "renew"
          BY <1>3, <3>3, <4>1, AbsentAssumption
             DEF PendingOK, Inserted, Buried, Requeued, Settled, Freed, Ops
        <4>3. W(s, j).lease_token = rows[j].lease_token /\ Is(j, "processing")
          BY <1>3, <3>3, <4>2 DEF PendingOK, Extended
        <4> QED BY <1>1, <3>3, <4>3 DEF PgTokens
      <3> QED BY <3>1, <3>2, <3>3
    <2>3. ASSUME NEW i \in Job, NEW j \in Job, i # j PROVE issued'[i] \cap issued'[j] = {}
      BY <2>3 DEF PgTokens
    <2>4. ASSUME NEW q \in Session, NEW j \in Job, Minting(q, j)', NEW i \in Job
          PROVE  W(q, j)'.lease_token \notin issued'[i]
      BY <2>1, <2>4 DEF PgTokens
    <2>5. ASSUME NEW p \in Session, NEW q \in Session, NEW i \in Job, NEW j \in Job,
                 Minting(p, i)', Minting(q, j)', W(p, i)'.lease_token = W(q, j)'.lease_token
          PROVE  p = q /\ i = j
      BY <2>1, <2>5 DEF PgTokens
    <2> QED BY <2>2, <2>3, <2>4, <2>5 DEF PgTokens
  <1> QED BY <1>2, <1>5, <1>6, <1>7 DEF PgTypes

\* The consumers' leases, when the commit tells no consumer anything.
LEMMA SilentCommit ==
  ASSUME PgInv, NEW s \in Session, rows' = Committed(s), Finish(s), UNCHANGED <<now, held>>,
         \A j \in Job : issued[j] \subseteq issued'[j]
  PROVE  PgLeases'
  <1>1. \A l \in held : l.job \in Job
    BY DEF PgInv, PgTypes, TypeOK, LeaseRecord
  <1>2. ASSUME NEW l \in held PROVE Safe(l)'
    BY CommitSafe DEF Safe, Is
  <1>3. tx'[s].op = "idle" /\ \A q \in Session \ {s} : tx'[q] = tx[q]
    BY FinishFacts DEF PgInv
  <1> QED BY <1>1, <1>2, <1>3 DEF PgInv, PgLeases

-----------------------------------------------------------------------------
(* The steps. *)

LEMMA SingleWrite ==
  ASSUME NEW j, NEW r
  PROVE  /\ DOMAIN [i \in {j} |-> r] = {j}
         /\ [i \in {j} |-> r][j] = r
  OBVIOUS

\* The only row of a session whose transaction is one statement on job j.
LEMMA FirstWrite ==
  ASSUME PgInv, NEW s \in Session, tx[s].op = "idle", NEW op, NEW t, NEW w, Wrote(s, op, t, w)
  PROVE  /\ tx'[s].op = op /\ tx'[s].token = t /\ Dom(s) = {}
         /\ Dom(s)' = DOMAIN w /\ \A j \in DOMAIN w : W(s, j)' = w[j]
  <1>1. Dom(s) = {}
    BY DEF PgInv, PgPending, PendingOK
  <1> QED BY <1>1, WroteFacts DEF PgInv

LEMMA InsertInv ==
  ASSUME PgInv, NEW s \in Session, NEW j \in Job, NEW p \in Policy, InsertJob(s, j, p)
  PROVE  PgInv'
  <1>1. /\ tx[s].op \in {"idle", "enqueue"} /\ ~Locked(s, j) /\ rows[j] = Absent
        /\ Wrote(s, "enqueue", NoToken, [i \in {j} |-> NewRow(p)])
        /\ sequence' = sequence + 1
        /\ UNCHANGED <<now, rows, held, issued, outcome, arrivals>>
    BY DEF InsertJob, history
  <1>2. PICK w : w = [i \in {j} |-> NewRow(p)]
    OBVIOUS
  <1>3. DOMAIN w = {j} /\ w[j] = NewRow(p)
    BY <1>2
  <1>4. now \in Nat /\ sequence \in Nat /\ p.max \in {q.max : q \in Policy}
    BY PostgresAssumption DEF PgInv, PgTypes, TypeOK
  <1>5. /\ Freed(NewRow(p), "queued") /\ NewRow(p).attempts = 0
        /\ NewRow(p).max_attempts = p.max /\ NewRow(p).available_at = now
    BY <1>4, NewFields
  <1>6. /\ tx'[s].op = "enqueue" /\ Dom(s)' = Dom(s) \cup {j} /\ W(s, j)' = w[j]
        /\ \A i \in Dom(s) \ {j} : W(s, i)' = W(s, i)
    BY <1>1, <1>2, <1>3, WroteFacts DEF PgInv
  <1>7. \A i \in Dom(s) : Inserted(i, W(s, i))
    BY <1>1 DEF PgInv, PgPending, PendingOK
  <1>8. \A i \in Dom(s)' : Inserted(i, W(s, i))'
    <2>1. Inserted(j, W(s, j))'
      BY <1>1, <1>3, <1>4, <1>5, <1>6 DEF Inserted, Freed
    <2>2. ASSUME NEW i \in Dom(s) \ {j} PROVE Inserted(i, W(s, i))'
      BY <1>1, <1>6, <1>7 DEF Inserted, Freed
    <2> QED BY <1>6, <2>1, <2>2
  <1>9. PendingOK(s)'
    BY <1>6, <1>8 DEF PendingOK
  <1>10. \A i \in DOMAIN w : w[i] \in Row \cup {Absent} /\ ~Locked(s, i)
    BY <1>1, <1>3, <1>5 DEF Freed
  <1>11. sequence' \in Nat
    BY <1>1, <1>4
  <1> QED BY <1>1, <1>2, <1>3, <1>9, <1>10, <1>11, WroteInv DEF Ops

LEMMA ClaimExhaustedInv ==
  ASSUME PgInv, NEW s \in Session, ClaimExhausted(s)
  PROVE  PgInv'
  <1> DEFINE dead == {j \in Job : Expired(j) /\ Spent(j)}
             w == [j \in dead |-> DeadLettered(j)]
  <1>1. /\ tx[s].op = "idle" /\ \A j \in dead : ~Locked(s, j)
        /\ Wrote(s, "claim", NoToken, w)
        /\ UNCHANGED <<now, rows, sequence, held, issued, outcome, arrivals>>
    BY DEF ClaimExhausted, history
  <1>2. /\ now \in Nat /\ sequence \in Nat
        /\ \A j \in Job : rows[j] \in Row \cup {Absent}
    BY PostgresAssumption DEF PgInv, PgTypes, TypeOK
  <1>3. ASSUME NEW j \in dead
        PROVE  /\ j \in Job /\ Is(j, "processing") /\ rows[j].lease_until <= now
               /\ rows[j].attempts >= rows[j].max_attempts
               /\ Freed(DeadLettered(j), "failed") /\ SameBudget(DeadLettered(j), j)
    BY <1>2, RowFields DEF Expired, Spent, StoredAs, Is
  <1>4. DOMAIN w = dead /\ \A j \in dead : w[j] = DeadLettered(j)
    OBVIOUS
  <1> HIDE DEF w, dead
  <1>5. /\ tx'[s].op = "claim" /\ Dom(s)' = dead /\ Dom(s) = {}
        /\ \A j \in dead : W(s, j)' = DeadLettered(j)
    BY <1>1, <1>4, FirstWrite
  <1>6. ASSUME NEW j \in dead PROVE Buried(j, W(s, j))'
    BY <1>1, <1>3, <1>5 DEF Buried, Freed, SameBudget, Is
  <1>7. PendingOK(s)'
    BY <1>5, <1>6 DEF PendingOK
  <1>8. \A j \in DOMAIN w : j \in Job /\ w[j] \in Row \cup {Absent} /\ ~Locked(s, j)
    BY <1>1, <1>3, <1>4 DEF Freed
  <1> QED BY <1>1, <1>2, <1>7, <1>8, WroteInv DEF Ops

LEMMA ClaimCandidatesInv ==
  ASSUME PgInv, NEW s \in Session, NEW limit \in Limit, NEW d \in Lease,
         ClaimCandidates(s, limit, d)
  PROVE  PgInv'
  <1> DEFINE ready == {j \in Job : Candidate(j) /\ ~Locked(s, j)} \ DOMAIN tx[s].writes
             taken == FirstInOrder(ready, limit)
  <1>1. PICK tok \in [taken -> Fresh] :
          /\ \A i, j \in taken : i # j => tok[i] # tok[j]
          /\ Wrote(s, "claimed", NoToken, [j \in taken |-> Leased(j, tok[j], d)])
    BY DEF ClaimCandidates
  <1>2. /\ tx[s].op = "claim"
        /\ UNCHANGED <<now, rows, sequence, held, issued, outcome, arrivals>>
    BY DEF ClaimCandidates, history
  <1>3. /\ now \in Nat /\ sequence \in Nat
        /\ \A j \in Job : rows[j] \in Row \cup {Absent}
    BY PostgresAssumption DEF PgInv, PgTypes, TypeOK
  <1>4. \A j \in taken : j \in Job /\ Candidate(j) /\ ~Locked(s, j) /\ j \notin Dom(s)
    BY DEF FirstInOrder, Dom
  <1>5. PICK w : w = [j \in taken |-> Leased(j, tok[j], d)]
    OBVIOUS
  <1> HIDE DEF taken
  <1>6. DOMAIN w = taken /\ \A j \in taken : w[j] = Leased(j, tok[j], d) /\ tok[j] \in Fresh
    BY <1>1, <1>5
  <1>7. ASSUME NEW j \in taken
        PROVE  /\ \/ Is(j, "queued") /\ rows[j].available_at <= now
                  \/ Is(j, "processing") /\ rows[j].lease_until <= now
               /\ rows[j].attempts < rows[j].max_attempts
               /\ rows[j] \in Row
    <2>1. rows[j] \in Row
      BY <1>3, <1>4 DEF Candidate, Expired, StoredAs
    <2> QED BY <1>4, <2>1 DEF Candidate, Expired, Spent, StoredAs, Is, Row
  <1>8. ASSUME NEW j \in taken
        PROVE  /\ w[j] \in Row /\ w[j].status = "processing" /\ w[j].lease_token = tok[j]
               /\ tok[j] \in Token
               /\ w[j].attempts = rows[j].attempts + 1 /\ w[j].max_attempts = rows[j].max_attempts
    <2>1. tok[j] \in Token
      BY <1>6, FreshFacts
    <2> QED BY <1>3, <1>6, <1>7, <2>1, LeasedFields
  <1>9. /\ tx'[s].op = "claimed" /\ Dom(s)' = Dom(s) \cup taken
        /\ \A j \in taken : W(s, j)' = w[j]
        /\ \A j \in Dom(s) \ taken : W(s, j)' = W(s, j)
    BY <1>1, <1>5, <1>6, WroteFacts DEF PgInv
  <1>10. ASSUME NEW j \in Dom(s) PROVE Buried(j, W(s, j)) /\ W(s, j).status # "processing"
    BY <1>2 DEF PgInv, PgPending, PendingOK, Buried, Freed
  <1>11. ASSUME NEW j \in Dom(s) \ taken PROVE Buried(j, W(s, j))'
    BY <1>2, <1>9, <1>10 DEF Buried, Freed, SameBudget, Is
  <1>12. ASSUME NEW j \in taken PROVE Taken(j, W(s, j))'
    BY <1>2, <1>7, <1>8, <1>9 DEF Taken, Is
  <1>13. PendingOK(s)'
    BY <1>9, <1>11, <1>12 DEF PendingOK
  <1>14. \A j \in DOMAIN w : j \in Job /\ w[j] \in Row \cup {Absent} /\ ~Locked(s, j)
    BY <1>4, <1>6, <1>8
  <1>15. \A j \in DOMAIN w : /\ w[j].lease_token \in Fresh
                            /\ \A i \in DOMAIN w : w[i].lease_token = w[j].lease_token => i = j
    BY <1>1, <1>6, <1>8
  <1>16. \A j \in Dom(s) \ DOMAIN w : W(s, j).status # "processing"
    BY <1>10
  <1> QED BY <1>1, <1>2, <1>3, <1>5, <1>13, <1>14, <1>15, <1>16, WroteInv DEF Ops

LEMMA AckInv ==
  ASSUME PgInv, NEW s \in Session, NEW l \in held, Ack(s, l)
  PROVE  PgInv'
  <1>1. /\ Owns(s, l)
        /\ Wrote(s, "ack", l.token, [i \in {l.job} |-> Acked(i)])
        /\ Close(l)
        /\ UNCHANGED <<now, rows, sequence, issued, outcome, arrivals>>
    BY DEF Ack, history
  <1>2. /\ now \in Nat /\ sequence \in Nat /\ l.token \in Token /\ l.job \in Job
    BY PostgresAssumption DEF PgInv, PgTypes, TypeOK, LeaseRecord
  <1>3. /\ tx[s].op = "idle" /\ ~Locked(s, l.job) /\ Is(l.job, "processing")
        /\ rows[l.job].lease_token = l.token
    BY <1>1, <1>2 DEF Owns, StoredAs, Is, PgInv, PgTypes, TypeOK
  <1>4. PICK w : w = [i \in {l.job} |-> Acked(i)]
    OBVIOUS
  <1>5. DOMAIN w = {l.job} /\ w[l.job] = Acked(l.job)
    BY <1>4
  <1>6. Freed(Acked(l.job), "completed") /\ SameBudget(Acked(l.job), l.job)
    BY <1>2, <1>3, RowFields DEF Is
  <1>7. /\ tx'[s].op = "ack" /\ tx'[s].token = l.token
        /\ Dom(s)' = {l.job} /\ W(s, l.job)' = w[l.job]
    BY <1>1, <1>3, <1>4, <1>5, FirstWrite
  <1>8. Settled(l.job, W(s, l.job), "completed")'
    BY <1>1, <1>3, <1>5, <1>6, <1>7 DEF Settled, Freed, SameBudget, Is
  <1>9. Is(l.job, "processing")' /\ rows'[l.job].lease_token = l.token
    BY <1>1, <1>3 DEF Is
  <1>10. PendingOK(s)'
    BY <1>2, <1>7, <1>8, <1>9 DEF PendingOK
  <1>11. \A j \in DOMAIN w : j \in Job /\ w[j] \in Row \cup {Absent} /\ ~Locked(s, j)
    BY <1>2, <1>3, <1>5, <1>6 DEF Freed
  <1> QED BY <1>1, <1>2, <1>4, <1>10, <1>11, WroteInv DEF Ops

LEMMA FailInv ==
  ASSUME PgInv, NEW s \in Session, NEW l \in held, Fail(s, l)
  PROVE  PgInv'
  <1>1. /\ Owns(s, l)
        /\ Wrote(s, "fail", l.token, [i \in {l.job} |-> FailedRow(i)])
        /\ Close(l)
        /\ UNCHANGED <<now, rows, sequence, issued, outcome, arrivals>>
    BY DEF Fail, history
  <1>2. /\ now \in Nat /\ sequence \in Nat /\ l.token \in Token /\ l.job \in Job
    BY PostgresAssumption DEF PgInv, PgTypes, TypeOK, LeaseRecord
  <1>3. /\ tx[s].op = "idle" /\ ~Locked(s, l.job) /\ Is(l.job, "processing")
        /\ rows[l.job].lease_token = l.token
    BY <1>1, <1>2 DEF Owns, StoredAs, Is, PgInv, PgTypes, TypeOK
  <1>4. PICK w : w = [i \in {l.job} |-> FailedRow(i)]
    OBVIOUS
  <1>5. DOMAIN w = {l.job} /\ w[l.job] = FailedRow(l.job)
    BY <1>4
  <1>6. /\ Freed(FailedRow(l.job),
                 IF rows[l.job].attempts < rows[l.job].max_attempts THEN "queued" ELSE "failed")
        /\ SameBudget(FailedRow(l.job), l.job)
    BY <1>2, <1>3, RowFields DEF Is
  <1>7. /\ tx'[s].op = "fail" /\ tx'[s].token = l.token
        /\ Dom(s)' = {l.job} /\ W(s, l.job)' = w[l.job]
    BY <1>1, <1>3, <1>4, <1>5, FirstWrite
  <1>8. Settled(l.job, W(s, l.job),
          IF rows[l.job].attempts < rows[l.job].max_attempts THEN "queued" ELSE "failed")'
    BY <1>1, <1>3, <1>5, <1>6, <1>7 DEF Settled, Freed, SameBudget, Is
  <1>9. Is(l.job, "processing")' /\ rows'[l.job].lease_token = l.token
    BY <1>1, <1>3 DEF Is
  <1>10. PendingOK(s)'
    BY <1>2, <1>7, <1>8, <1>9 DEF PendingOK
  <1>11. \A j \in DOMAIN w : j \in Job /\ w[j] \in Row \cup {Absent} /\ ~Locked(s, j)
    BY <1>2, <1>3, <1>5, <1>6 DEF Freed
  <1> QED BY <1>1, <1>2, <1>4, <1>10, <1>11, WroteInv DEF Ops

LEMMA RenewInv ==
  ASSUME PgInv, NEW s \in Session, NEW l \in held, NEW d \in Lease, Renew(s, l, d)
  PROVE  PgInv'
  <1>1. /\ Owns(s, l)
        /\ Wrote(s, "renew", l.token, [i \in {l.job} |-> Renewed(i, d)])
        /\ UNCHANGED held
        /\ UNCHANGED <<now, rows, sequence, issued, outcome, arrivals>>
    BY DEF Renew, history
  <1>2. /\ now \in Nat /\ sequence \in Nat /\ l.token \in Token /\ l.job \in Job
    BY PostgresAssumption DEF PgInv, PgTypes, TypeOK, LeaseRecord
  <1>3. /\ tx[s].op = "idle" /\ ~Locked(s, l.job) /\ Is(l.job, "processing")
        /\ rows[l.job].lease_token = l.token
    BY <1>1, <1>2 DEF Owns, StoredAs, Is, PgInv, PgTypes, TypeOK
  <1>4. PICK w : w = [i \in {l.job} |-> Renewed(i, d)]
    OBVIOUS
  <1>5. DOMAIN w = {l.job} /\ w[l.job] = Renewed(l.job, d)
    BY <1>4
  <1>6. /\ Renewed(l.job, d) \in Row /\ Renewed(l.job, d).status = "processing"
        /\ SameBudget(Renewed(l.job, d), l.job)
        /\ Renewed(l.job, d).lease_token = rows[l.job].lease_token
        /\ Renewed(l.job, d).lease_until >= rows[l.job].lease_until
    BY <1>2, <1>3, RenewedFields DEF Is
  <1>7. /\ tx'[s].op = "renew" /\ tx'[s].token = l.token
        /\ Dom(s)' = {l.job} /\ W(s, l.job)' = w[l.job]
    BY <1>1, <1>3, <1>4, <1>5, FirstWrite
  <1>8. Extended(l.job, W(s, l.job))'
    BY <1>1, <1>3, <1>5, <1>6, <1>7 DEF Extended, SameBudget, Is
  <1>9. Is(l.job, "processing")' /\ rows'[l.job].lease_token = l.token
    BY <1>1, <1>3 DEF Is
  <1>10. PendingOK(s)'
    BY <1>2, <1>7, <1>8, <1>9 DEF PendingOK
  <1>11. \A j \in DOMAIN w : j \in Job /\ w[j] \in Row \cup {Absent} /\ ~Locked(s, j)
    BY <1>2, <1>3, <1>5, <1>6
  <1> QED BY <1>1, <1>2, <1>4, <1>10, <1>11, WroteInv DEF Ops

LEMMA RetryInv ==
  ASSUME PgInv, NEW s \in Session, NEW j \in Job, NEW p \in Policy, RetryDeadLetter(s, j, p)
  PROVE  PgInv'
  <1>1. /\ tx[s].op = "idle" /\ ~Locked(s, j) /\ StoredAs(j, "failed")
        /\ Wrote(s, "retry", NoToken, [i \in {j} |-> Revived(i, p)])
        /\ UNCHANGED <<now, rows, sequence, held, issued, outcome, arrivals>>
    BY DEF RetryDeadLetter, history
  <1>2. /\ now \in Nat /\ sequence \in Nat /\ p.max \in {q.max : q \in Policy}
    BY PostgresAssumption DEF PgInv, PgTypes, TypeOK
  <1>3. Is(j, "failed")
    BY <1>1, <1>2 DEF StoredAs, Is, PgInv, PgTypes, TypeOK
  <1>4. PICK w : w = [i \in {j} |-> Revived(i, p)]
    OBVIOUS
  <1>5. DOMAIN w = {j} /\ w[j] = Revived(j, p)
    BY <1>4
  <1>6. /\ Freed(Revived(j, p), "queued") /\ Revived(j, p).attempts = 0
        /\ Revived(j, p).max_attempts = p.max /\ Revived(j, p).available_at = now
    BY <1>2, <1>3, RevivedFields DEF Is
  <1>7. /\ tx'[s].op = "retry" /\ Dom(s)' = {j} /\ W(s, j)' = w[j]
    BY <1>1, <1>4, <1>5, FirstWrite
  <1>8. Requeued(j, W(s, j))'
    BY <1>1, <1>2, <1>3, <1>5, <1>6, <1>7 DEF Requeued, Freed, Is
  <1>9. PendingOK(s)'
    BY <1>7, <1>8 DEF PendingOK
  <1>10. \A i \in DOMAIN w : i \in Job /\ w[i] \in Row \cup {Absent} /\ ~Locked(s, i)
    BY <1>1, <1>5, <1>6 DEF Freed
  <1> QED BY <1>1, <1>2, <1>4, <1>9, <1>10, WroteInv DEF Ops

LEMMA PurgeInv ==
  ASSUME PgInv, NEW s \in Session, NEW st \in {"completed", "failed"}, NEW age \in Age,
         NEW limit \in Limit, PurgeTerminal(s, st, age, limit)
  PROVE  PgInv'
  <1>1. PICK gone \in SUBSET {j \in Job : StoredAs(j, st) /\ ~Locked(s, j)} :
          Wrote(s, "purge", NoToken, [j \in gone |-> Absent])
    BY DEF PurgeTerminal
  <1>2. /\ tx[s].op = "idle"
        /\ UNCHANGED <<now, rows, sequence, held, issued, outcome, arrivals>>
    BY DEF PurgeTerminal, history
  <1>3. PICK w : w = [j \in gone |-> Absent]
    OBVIOUS
  <1>4. DOMAIN w = gone /\ \A j \in gone : w[j] = Absent
    BY <1>3
  <1>5. /\ tx'[s].op = "purge" /\ Dom(s)' = gone /\ \A j \in gone : W(s, j)' = Absent
    BY <1>1, <1>2, <1>3, <1>4, FirstWrite
  <1>6. ASSUME NEW j \in gone PROVE Is(j, st)' /\ W(s, j)' = Absent
    BY <1>2, <1>5 DEF StoredAs, Is, PgInv, PgTypes, TypeOK
  <1>7. PendingOK(s)'
    BY <1>5, <1>6 DEF PendingOK
  <1>8. sequence' \in Nat
    BY <1>2 DEF PgInv, PgTypes, TypeOK
  <1> QED BY <1>1, <1>2, <1>3, <1>4, <1>7, <1>8, WroteInv DEF Ops

LEMMA AbortInv ==
  ASSUME PgInv, NEW s \in Session, Abort(s)
  PROVE  PgInv'
  <1>1. /\ tx' = [tx EXCEPT ![s] = [op |-> "idle", token |-> NoToken, writes |-> <<>>]]
        /\ UNCHANGED <<now, rows, sequence, held, issued, outcome, arrivals>>
    BY DEF Abort, Finish, Idle, history
  <1>2. tx'[s].op = "idle" /\ Dom(s)' = {}
    BY FinishFacts DEF PgInv, Abort
  <1>3. PendingOK(s)'
    BY <1>2 DEF PendingOK
  <1>4. DOMAIN <<>> = {} /\ sequence' \in Nat
    BY <1>1 DEF PgInv, PgTypes, TypeOK
  <1> QED BY <1>1, <1>3, <1>4, StatementInv DEF Ops

LEMMA TickInv == ASSUME PgInv, Tick PROVE PgInv'
  <1>1. /\ now' = now + 1 /\ now < MaxTime
        /\ UNCHANGED <<rows, sequence, tx, held, issued, outcome, arrivals>>
    BY DEF Tick, history
  <1>2. now \in Nat /\ now' \in Nat /\ now' >= now /\ now' \in 0..MaxTime
    BY <1>1, PostgresAssumption DEF PgInv, PgTypes, TypeOK
  <1>3. PgTypes'
    BY <1>1, <1>2 DEF PgInv, PgTypes, TypeOK, RowChecks
  <1>4. PgPending'
    <2>1. ASSUME NEW s \in Session PROVE PendingOK(s)'
      BY <1>1, <1>2, PendingFrame DEF PgInv, PgTypes, PgPending
    <2> QED BY <2>1 DEF PgPending
  <1>5. PgTokens'
    BY <1>1 DEF PgInv, PgTokens, Minting, Dom, W, Is
  <1>6. PgLeases'
    <2>1. ASSUME NEW l \in held PROVE Safe(l)'
      <3>1. l.until \in Nat /\ Safe(l)
        BY DEF PgInv, PgTypes, TypeOK, LeaseRecord, PgLeases
      <3> QED BY <1>1, <1>2, <3>1 DEF Safe, Is
    <2> QED BY <1>1, <2>1 DEF PgInv, PgLeases
  <1> QED BY <1>3, <1>4, <1>5, <1>6 DEF PgInv

\* Commits that no lease depends on.
LEMMA QuietCommitInv ==
  ASSUME PgInv, NEW s \in Session,
         CommitEnqueue(s) \/ CommitSettle(s) \/ CommitRetry(s) \/ CommitPurge(s)
  PROVE  PgInv'
  <1>1. /\ rows' = Committed(s) /\ Finish(s) /\ UNCHANGED <<now, sequence, held, issued>>
        /\ tx[s].op # "claimed"
    BY DEF CommitEnqueue, CommitSettle, CommitRetry, CommitPurge, history
  <1>2. /\ arrivals \in 0..MaxArrivals /\ outcome \in [Token -> {"open", "acked", "failed"}]
        /\ issued \in [Job -> SUBSET Token] /\ held \subseteq LeaseRecord
    BY DEF PgInv, PgTypes, TypeOK
  <1>3. arrivals' \in 0..MaxArrivals
    BY <1>2, PostgresAssumption DEF CommitEnqueue, CommitSettle, CommitRetry, CommitPurge
  <1>4. outcome' \in [Token -> {"open", "acked", "failed"}]
    BY <1>2 DEF CommitEnqueue, CommitSettle, CommitRetry, CommitPurge, history
  <1>5. \A j \in Job : ~Minting(s, j)
    BY <1>1 DEF Minting
  <1>6. PgLeases'
    BY <1>1, SilentCommit
  <1> QED BY <1>1, <1>2, <1>3, <1>4, <1>5, <1>6, CommitInv

LEMMA CommitClaimInv ==
  ASSUME PgInv, NEW s \in Session, NEW replied \in BOOLEAN, CommitClaim(s, replied)
  PROVE  PgInv'
  <1> DEFINE lease(j) == [job |-> j, token |-> W(s, j).lease_token,
                          until |-> W(s, j).lease_until, open |-> TRUE]
             news == {lease(j) : j \in Delivered(s)}
  <1>1. /\ tx[s].op = "claimed" /\ rows' = Committed(s) /\ Finish(s)
        /\ UNCHANGED <<now, sequence, outcome, arrivals>>
        /\ held' = IF replied THEN held \cup news ELSE held
        /\ issued' = [j \in Job |-> IF j \in Delivered(s) THEN issued[j] \cup {W(s, j).lease_token}
                                                         ELSE issued[j]]
    BY DEF CommitClaim, W
  <1>2. /\ arrivals \in 0..MaxArrivals /\ outcome \in [Token -> {"open", "acked", "failed"}]
        /\ issued \in [Job -> SUBSET Token] /\ held \subseteq LeaseRecord
        /\ PendingOK(s) /\ Dom(s) \subseteq Job
    BY DEF PgInv, PgTypes, PgPending, TypeOK, Dom
  <1>3. \A j \in Job : j \in Delivered(s) <=> Minting(s, j)
    BY <1>1, <1>2 DEF Minting, Delivered, Dom, W
  <1>4. Delivered(s) \subseteq Job
    BY <1>2 DEF Delivered, Dom
  <1>5. ASSUME NEW j \in Delivered(s)
        PROVE  /\ j \in Dom(s) /\ W(s, j) \in Row /\ W(s, j).status = "processing"
               /\ W(s, j).lease_token \in Token
    <2>1. j \in Dom(s) /\ W(s, j).status = "processing"
      BY <1>5 DEF Delivered, Dom, W
    <2>2. Taken(j, W(s, j))
      BY <1>1, <1>2, <2>1 DEF PendingOK, Buried, Freed
    <2> QED BY <2>1, <2>2 DEF Taken
  <1>6. \A j \in Job : issued'[j] = IF Minting(s, j) THEN issued[j] \cup {W(s, j).lease_token}
                                                   ELSE issued[j]
    BY <1>1, <1>3
  <1>7. issued' \in [Job -> SUBSET Token]
    BY <1>1, <1>2, <1>5
  <1>8. ASSUME NEW j \in Delivered(s)
        PROVE  /\ lease(j) \in LeaseRecord /\ lease(j).job = j
               /\ lease(j).token = W(s, j).lease_token /\ lease(j).until = W(s, j).lease_until
    BY <1>4, <1>5 DEF LeaseRecord, Row
  <1>9. held' \subseteq LeaseRecord
    BY <1>1, <1>2, <1>8
  <1> HIDE DEF lease
  <1>10. PgLeases'
    <2>1. ASSUME NEW l \in held PROVE l.job \in Job /\ l.token \in issued[l.job] /\ Safe(l)'
      <3>1. l.job \in Job /\ l.token \in issued[l.job]
        BY <1>2 DEF PgInv, PgLeases, LeaseRecord
      <3> QED BY <1>1, <3>1, CommitSafe DEF Safe, Is
    <2>2. ASSUME NEW j \in Delivered(s), NEW i \in Job PROVE W(s, j).lease_token \notin issued[i]
      BY <1>3, <1>4 DEF PgInv, PgTokens
    <2>3. ASSUME NEW i \in Delivered(s), NEW j \in Delivered(s),
                 W(s, i).lease_token = W(s, j).lease_token
          PROVE  i = j
      BY <1>3, <1>4, <2>3 DEF PgInv, PgTokens
    <2>4. ASSUME NEW j \in Delivered(s), NEW l, l = lease(j) PROVE Safe(l)'
      <3>1. rows'[j] = W(s, j)
        BY <1>1, <1>4, <1>5, CommittedRows DEF PgInv
      <3>2. l.job = j /\ l.token = W(s, j).lease_token /\ l.until = W(s, j).lease_until
        BY <1>8, <2>4
      <3>3. W(s, j).lease_until \in Nat
        BY <1>5 DEF Row
      <3> QED BY <1>5, <3>1, <3>2, <3>3 DEF Safe, Is
    <2>5. \A l \in held' : l.token \in issued'[l.job]
      BY <1>1, <1>4, <1>8, <2>1
    <2>6. \A l, m \in held' : l.token = m.token => l = m
      <3>1. \A l, m \in held : l.token = m.token => l = m
        BY DEF PgInv, PgLeases
      <3>2. \A l \in held, j \in Delivered(s) : l.token # lease(j).token
        BY <1>8, <2>1, <2>2
      <3>3. \A i, j \in Delivered(s) : lease(i).token = lease(j).token => lease(i) = lease(j)
        BY <1>8, <2>3
      <3> QED BY <1>1, <3>1, <3>2, <3>3
    <2>7. ASSUME NEW l \in held' PROVE Safe(l)'
      <3>1. l \in held \/ \E j \in Delivered(s) : l = lease(j)
        BY <1>1
      <3> QED BY <2>1, <2>4, <3>1
    <2>8. ASSUME NEW q \in Session, tx'[q].op \in {"ack", "fail"},
                 NEW l \in held', l.token = tx'[q].token
          PROVE  ~l.open
      <3>1. q # s /\ tx'[q] = tx[q]
        BY <1>1, <2>8, FinishFacts DEF PgInv
      <3>2. PICK i \in Job : Is(i, "processing") /\ rows[i].lease_token = tx[q].token
        BY <2>8, <3>1 DEF PgInv, PgPending, PendingOK
      <3>3. tx[q].token \in issued[i]
        BY <3>2 DEF PgInv, PgTokens
      <3>4. \A j \in Delivered(s) : lease(j).token # tx[q].token
        BY <1>8, <2>2, <3>3
      <3>5. l \in held
        BY <1>1, <2>8, <3>1, <3>4
      <3> QED BY <2>8, <3>1, <3>5 DEF PgInv, PgLeases
    <2> QED BY <2>5, <2>6, <2>7, <2>8 DEF PgLeases
  <1>11. arrivals' \in 0..MaxArrivals /\ outcome' \in [Token -> {"open", "acked", "failed"}]
    BY <1>1, <1>2
  <1> QED BY <1>1, <1>6, <1>7, <1>9, <1>10, <1>11, CommitInv

LEMMA CommitRenewInv ==
  ASSUME PgInv, NEW s \in Session, CommitRenew(s)
  PROVE  PgInv'
  <1> DEFINE t == tx[s].token
             later(l) == IF l.token = t THEN [l EXCEPT !.until = Max2(@, W(s, l.job).lease_until)]
                                        ELSE l
  <1>1. /\ tx[s].op = "renew" /\ rows' = Committed(s) /\ Finish(s)
        /\ held' = {later(l) : l \in held}
        /\ UNCHANGED <<now, sequence, issued, outcome, arrivals>>
    BY DEF CommitRenew, W, history
  <1>2. /\ arrivals \in 0..MaxArrivals /\ outcome \in [Token -> {"open", "acked", "failed"}]
        /\ issued \in [Job -> SUBSET Token] /\ held \subseteq LeaseRecord /\ now \in Nat
    BY PostgresAssumption DEF PgInv, PgTypes, TypeOK
  <1>3. PICK j \in Job : /\ Dom(s) = {j} /\ Is(j, "processing") /\ rows[j].lease_token = t
                         /\ Extended(j, W(s, j))
    BY <1>1 DEF PgInv, PgPending, PendingOK
  <1>4. t \in issued[j]
    BY <1>3 DEF PgInv, PgTokens
  <1>5. W(s, j).lease_until \in Nat /\ rows'[j] = W(s, j)
    BY <1>1, <1>3, CommittedRows DEF PgInv, Extended, Row
  <1>6. ASSUME NEW l \in held
        PROVE  /\ l \in LeaseRecord /\ l.job \in Job /\ l.until \in Nat
               /\ l.token \in issued[l.job] /\ (l.token = t => l.job = j)
    <2>1. l \in LeaseRecord /\ l.token \in issued[l.job]
      BY <1>2 DEF PgInv, PgLeases
    <2>2. l.job \in Job /\ l.until \in Nat
      BY <2>1 DEF LeaseRecord
    <2> QED BY <1>4, <2>1, <2>2 DEF PgInv, PgTokens
  <1>7. ASSUME NEW l \in held
        PROVE  /\ later(l) \in LeaseRecord /\ later(l).job = l.job
               /\ later(l).token = l.token /\ later(l).open = l.open
               /\ \/ later(l) = l
                  \/ /\ l.token = t /\ l.job = j
                     /\ later(l).until = Max2(l.until, W(s, j).lease_until)
    <2>1. CASE l.token # t
      BY <1>6, <2>1
    <2>2. CASE l.token = t
      <3>1. Max2(l.until, W(s, j).lease_until) \in Nat
        BY <1>5, <1>6 DEF Max2
      <3>2. later(l) = [l EXCEPT !.until = Max2(l.until, W(s, j).lease_until)]
        BY <1>6, <2>2
      <3> QED BY <1>6, <2>2, <3>1, <3>2 DEF LeaseRecord
    <2> QED BY <2>1, <2>2
  <1> HIDE DEF later
  <1>8. held' \subseteq LeaseRecord
    BY <1>1, <1>7
  <1>9. PgLeases'
    <2>1. \A l \in held' : l.token \in issued'[l.job]
      BY <1>1, <1>6, <1>7
    <2>2. \A l, m \in held' : l.token = m.token => l = m
      BY <1>1, <1>7 DEF PgInv, PgLeases
    <2>3. ASSUME NEW l \in held PROVE Safe(l)'
      BY <1>1, CommitSafe DEF Safe, Is
    <2>4. ASSUME NEW m \in held' PROVE Safe(m)'
      <3>1. PICK l \in held : m = later(l)
        BY <1>1
      <3>2. CASE m = l
        BY <2>3, <3>2
      <3>3. CASE m # l
        <4>1. /\ m.token = t /\ m.job = j /\ m.open = l.open /\ l.token = t /\ l.job = j
              /\ m.until = Max2(l.until, W(s, j).lease_until)
          BY <1>7, <3>1, <3>3
        <4>2. /\ rows'[j] \in Row /\ rows'[j].status = "processing"
              /\ rows'[j].lease_token = t /\ rows'[j].lease_until = W(s, j).lease_until
          BY <1>3, <1>5 DEF Extended
        <4>3. ASSUME l.open, l.until > now PROVE W(s, j).lease_until >= l.until
          <5>1. rows'[l.job].lease_until >= l.until
            BY <1>1, <4>3, CommitSafe
          <5> QED BY <1>5, <4>1, <5>1
        <4>4. l.until \in Nat
          BY <1>6
        <4>5. m.open /\ m.until > now => W(s, j).lease_until >= m.until
          <5>1. CASE l.until > now
            BY <1>2, <1>5, <4>1, <4>3, <4>4, <5>1 DEF Max2
          <5>2. CASE ~(l.until > now)
            BY <1>2, <1>5, <4>1, <4>4, <5>2 DEF Max2
          <5> QED BY <5>1, <5>2
        <4> QED BY <1>1, <4>1, <4>2, <4>5 DEF Safe, Is
      <3> QED BY <3>2, <3>3
    <2>5. ASSUME NEW q \in Session, tx'[q].op \in {"ack", "fail"},
                 NEW m \in held', m.token = tx'[q].token
          PROVE  ~m.open
      <3>1. tx'[q] = tx[q]
        BY <1>1, <2>5, FinishFacts DEF PgInv
      <3>2. PICK l \in held : m = later(l)
        BY <1>1
      <3>3. l.token = tx[q].token /\ m.open = l.open
        BY <1>7, <2>5, <3>1, <3>2
      <3> QED BY <2>5, <3>1, <3>3 DEF PgInv, PgLeases
    <2> QED BY <2>1, <2>2, <2>4, <2>5 DEF PgLeases
  <1>10. \A i \in Job : ~Minting(s, i)
    BY <1>1 DEF Minting
  <1> QED BY <1>1, <1>2, <1>8, <1>9, <1>10, CommitInv

LEMMA PgInitInv == Init => PgInv
  <1> SUFFICES ASSUME Init PROVE PgInv
    OBVIOUS
  <1>1. /\ now = 0 /\ rows = [j \in Job |-> Absent] /\ sequence = 1
        /\ tx = [s \in Session |-> Idle] /\ held = {} /\ issued = [j \in Job |-> {}]
        /\ outcome = [t \in Token |-> "open"] /\ arrivals = 0
    BY DEF Init
  <1>2. \A s \in Session : /\ tx[s].op = "idle" /\ tx[s].token = NoToken
                           /\ DOMAIN tx[s].writes = {} /\ Dom(s) = {}
    <2>1. DOMAIN <<>> = {}
      OBVIOUS
    <2> QED BY <1>1, <2>1 DEF Idle, Dom
  <1>3. PgTypes
    BY <1>1, <1>2, PostgresAssumption DEF PgTypes, TypeOK, Ops
  <1>4. PgPending
    BY <1>2 DEF PgPending, PendingOK
  <1>5. PgTokens
    BY <1>1, <1>2, AbsentAssumption DEF PgTokens, Minting, Is
  <1>6. PgLeases
    BY <1>1, <1>2 DEF PgLeases
  <1> QED BY <1>3, <1>4, <1>5, <1>6 DEF PgInv

LEMMA PgStepInv == PgInv /\ [Next]_vars => PgInv'
  <1> SUFFICES ASSUME PgInv, [Next]_vars PROVE PgInv'
    OBVIOUS
  <1>1. CASE UNCHANGED vars
    <2>1. UNCHANGED <<now, rows, sequence, tx, held, issued, outcome, arrivals>>
      BY <1>1 DEF vars
    <2>2. now \in Nat /\ now' \in Nat /\ now' >= now /\ TypeOK
      BY <2>1, PostgresAssumption DEF PgInv, PgTypes, TypeOK
    <2>3. PgTypes'
      BY <2>1 DEF PgInv, PgTypes, TypeOK, RowChecks
    <2>4. PgPending'
      <3>1. ASSUME NEW s \in Session PROVE PendingOK(s)'
        BY <2>1, <2>2, PendingFrame DEF PgInv, PgPending
      <3> QED BY <3>1 DEF PgPending
    <2>5. PgTokens'
      BY <2>1 DEF PgInv, PgTokens, Minting, Dom, W, Is
    <2>6. PgLeases'
      BY <2>1 DEF PgInv, PgLeases, Safe, Is
    <2> QED BY <2>3, <2>4, <2>5, <2>6 DEF PgInv
  <1>2. CASE Next
    BY <1>2, TickInv, InsertInv, ClaimExhaustedInv, ClaimCandidatesInv, AckInv, FailInv, RenewInv,
       RetryInv, PurgeInv, AbortInv, QuietCommitInv, CommitClaimInv, CommitRenewInv
       DEF Next
  <1> QED BY <1>1, <1>2

LEMMA PgInvAlways == Spec => []PgInv
  BY PgInitInv, PgStepInv, PTL DEF Spec

(* The rows, the open transactions and the leases have their types, and the  *)
(* rows satisfy the table's CHECK constraints.                               *)
THEOREM PostgresTypeCorrect == Spec => []TypeOK
  <1>1. PgInv => TypeOK
    BY DEF PgInv, PgTypes
  <1> QED BY <1>1, PgInvAlways, PTL

(* While a lease it was given runs, a consumer is the only one with the job. *)
THEOREM LeaseIsExclusiveCorrect == Spec => []LeaseIsExclusive
  <1>1. ASSUME PgInv PROVE LeaseIsExclusive
    <2>1. \A l \in held : Safe(l)
      BY <1>1 DEF PgInv, PgLeases
    <2> QED BY <2>1, AbsentAssumption DEF LeaseIsExclusive, Safe, StoredAs, Is
  <1>2. PgInv => LeaseIsExclusive
    BY <1>1
  <1> QED BY <1>2, PgInvAlways, PTL

-----------------------------------------------------------------------------
LEMMA ContractInit == Init => Contract!Init
  <1> SUFFICES ASSUME Init PROVE Contract!Init
    OBVIOUS
  <1>1. /\ rows = [j \in Job |-> Absent] /\ issued = [j \in Job |-> {}]
        /\ outcome = [t \in Token |-> "open"] /\ arrivals = 0
    BY DEF Init
  <1>2. /\ StatusView = [j \in Job |-> "absent"]
        /\ AttemptsView = [j \in Job |-> 0] /\ BudgetView = [j \in Job |-> 0]
        /\ TokenView = [j \in Job |-> NoToken]
    BY <1>1 DEF StatusView, AttemptsView, BudgetView, TokenView
  <1>3. DelayedView = [j \in Job |-> FALSE] /\ LapsedView = [j \in Job |-> FALSE]
    BY <1>1 DEF DelayedView, LapsedView, Expired, StoredAs
  <1>4. PICK b : b \in {p.max : p \in Policy}
    BY PostgresAssumption
  <1>5. /\ AttemptsView = [j \in Job |-> IF StatusView[j] = "absent" THEN 0 ELSE b]
        /\ BudgetView = [j \in Job |-> IF StatusView[j] = "absent" THEN 0 ELSE b]
        /\ StatusView \in [Job -> {"absent"} \cup Contract!Terminal]
    BY <1>2
  <1> QED BY <1>1, <1>2, <1>3, <1>4, <1>5 DEF Contract!Init

LEMMA TimeStep ==
  ASSUME UNCHANGED <<StatusView, AttemptsView, BudgetView, TokenView, issued, outcome, arrivals>>,
         \A j \in Job : LapsedView[j] => LapsedView'[j],
         \A j \in Job : DelayedView'[j] => DelayedView[j]
  PROVE  Contract!Next
  <1> DEFINE L == {j \in Job : LapsedView'[j] /\ ~LapsedView[j]}
             E == {j \in Job : DelayedView[j] /\ ~DelayedView'[j]}
  <1>1. \A j \in Job : LapsedView'[j] => StatusView'[j] = "processing"
    BY DEF LapsedView, StatusView, Expired, StoredAs
  <1>2. LapsedView' = [j \in Job |-> IF j \in L THEN TRUE ELSE LapsedView[j]]
    BY DEF LapsedView
  <1>3. DelayedView' = [j \in Job |-> IF j \in E THEN FALSE ELSE DelayedView[j]]
    BY DEF DelayedView
  <1>4. \A j \in L : StatusView[j] = "processing" /\ ~LapsedView[j]
    BY <1>1
  <1>5. \A j \in E : DelayedView[j]
    OBVIOUS
  <1>6. L \in SUBSET Job /\ E \in SUBSET Job
    OBVIOUS
  <1> HIDE DEF L, E
  <1>7. Contract!TimePasses(L, E)
    BY <1>2, <1>3, <1>4, <1>5 DEF Contract!TimePasses
  <1> QED BY <1>6, <1>7 DEF Contract!Next, Contract!TimePassesSome

\* A transaction that settles or renews holds the lock of its row.
LEMMA NotSettling ==
  ASSUME PgInv, NEW s \in Session, tx[s].op \notin {"ack", "fail", "renew"}, NEW j \in Dom(s)
  PROVE  ~Settling(j)
  BY DEF PgInv, PgTypes, TypeOK, Dom, Settling

\* What the contract sees of a commit.
LEMMA CommitViews ==
  ASSUME PgInv, NEW s \in Session, rows' = Committed(s), Finish(s), UNCHANGED now
  PROVE  /\ \A j \in Job \ Dom(s) :
              /\ StatusView'[j] = StatusView[j] /\ AttemptsView'[j] = AttemptsView[j]
              /\ BudgetView'[j] = BudgetView[j] /\ TokenView'[j] = TokenView[j]
              /\ DelayedView'[j] = DelayedView[j] /\ LapsedView'[j] = LapsedView[j]
         /\ \A j \in Dom(s) : W(s, j) = Absent =>
              /\ StatusView'[j] = "absent" /\ AttemptsView'[j] = 0
              /\ BudgetView'[j] = 0 /\ TokenView'[j] = NoToken
              /\ DelayedView'[j] = FALSE /\ LapsedView'[j] = FALSE
         /\ \A j \in Dom(s) : W(s, j) # Absent =>
              /\ StatusView'[j] = W(s, j).status /\ AttemptsView'[j] = W(s, j).attempts
              /\ BudgetView'[j] = W(s, j).max_attempts /\ TokenView'[j] = W(s, j).lease_token
              /\ DelayedView'[j] = (W(s, j).status = "queued" /\ W(s, j).available_at > now)
              /\ LapsedView'[j] = (W(s, j).status = "processing" /\ W(s, j).lease_until <= now)
  <1>1. /\ Dom(s) \subseteq Job
        /\ \A j \in Job : rows'[j] = IF j \in Dom(s) THEN W(s, j) ELSE rows[j]
    BY CommittedRows DEF PgInv, PgTypes, TypeOK, Dom
  <1>2. tx'[s].op = "idle" /\ \A q \in Session \ {s} : tx'[q] = tx[q]
    BY FinishFacts DEF PgInv
  <1>3. ASSUME NEW j \in Job \ Dom(s) PROVE Settling(j)' <=> Settling(j)
    BY <1>2 DEF Settling, Dom
  <1>4. ASSUME NEW j \in Dom(s) PROVE ~Settling(j)'
    BY <1>2 DEF Settling, Dom, PgInv, PgTypes, TypeOK
  <1>5. ASSUME NEW j \in Job \ Dom(s)
        PROVE  /\ StatusView'[j] = StatusView[j] /\ AttemptsView'[j] = AttemptsView[j]
               /\ BudgetView'[j] = BudgetView[j] /\ TokenView'[j] = TokenView[j]
               /\ DelayedView'[j] = DelayedView[j] /\ LapsedView'[j] = LapsedView[j]
    <2>1. rows'[j] = rows[j]
      BY <1>1
    <2>2. StoredAs(j, "queued")' = StoredAs(j, "queued") /\ Expired(j)' = Expired(j)
      BY <2>1 DEF StoredAs, Expired
    <2> QED BY <1>3, <2>1, <2>2
            DEF StatusView, AttemptsView, BudgetView, TokenView, DelayedView, LapsedView
  <1>6. ASSUME NEW j \in Dom(s)
        PROVE  LapsedView'[j] = Expired(j)'
    <2>1. LapsedView'[j] = (Expired(j)' /\ ~Settling(j)')
      BY <1>1 DEF LapsedView
    <2> QED BY <1>4, <2>1 DEF Expired, StoredAs
  <1>7. ASSUME NEW j \in Dom(s), W(s, j) = Absent
        PROVE  /\ StatusView'[j] = "absent" /\ AttemptsView'[j] = 0
               /\ BudgetView'[j] = 0 /\ TokenView'[j] = NoToken
               /\ DelayedView'[j] = FALSE /\ LapsedView'[j] = FALSE
    <2>1. rows'[j] = Absent /\ j \in Job
      BY <1>1, <1>7
    <2> QED BY <1>6, <2>1
            DEF StatusView, AttemptsView, BudgetView, TokenView, DelayedView, Expired, StoredAs
  <1>8. ASSUME NEW j \in Dom(s), W(s, j) # Absent
        PROVE  /\ StatusView'[j] = W(s, j).status /\ AttemptsView'[j] = W(s, j).attempts
               /\ BudgetView'[j] = W(s, j).max_attempts /\ TokenView'[j] = W(s, j).lease_token
               /\ DelayedView'[j] = (W(s, j).status = "queued" /\ W(s, j).available_at > now)
               /\ LapsedView'[j] = (W(s, j).status = "processing" /\ W(s, j).lease_until <= now)
    <2>1. rows'[j] = W(s, j) /\ j \in Job
      BY <1>1
    <2> QED BY <1>6, <1>8, <2>1
            DEF StatusView, AttemptsView, BudgetView, TokenView, DelayedView, Expired, StoredAs
  <1> QED BY <1>5, <1>7, <1>8

LEMMA StatusShape ==
  StatusView = [j \in Job |-> StatusView[j]] /\ StatusView' = [j \in Job |-> StatusView'[j]]
  BY DEF StatusView

LEMMA AttemptsShape ==
  AttemptsView = [j \in Job |-> AttemptsView[j]] /\ AttemptsView' = [j \in Job |-> AttemptsView'[j]]
  BY DEF AttemptsView

LEMMA BudgetShape ==
  BudgetView = [j \in Job |-> BudgetView[j]] /\ BudgetView' = [j \in Job |-> BudgetView'[j]]
  BY DEF BudgetView

LEMMA TokenShape ==
  TokenView = [j \in Job |-> TokenView[j]] /\ TokenView' = [j \in Job |-> TokenView'[j]]
  BY DEF TokenView

LEMMA DelayedShape ==
  DelayedView = [j \in Job |-> DelayedView[j]] /\ DelayedView' = [j \in Job |-> DelayedView'[j]]
  BY DEF DelayedView

LEMMA LapsedShape ==
  LapsedView = [j \in Job |-> LapsedView[j]] /\ LapsedView' = [j \in Job |-> LapsedView'[j]]
  BY DEF LapsedView

\* What the contract sees of a stored row, or of none.
LEMMA RowViews ==
  ASSUME PgInv, NEW j \in Job
  PROVE  /\ rows[j] = Absent =>
              /\ StatusView[j] = "absent" /\ AttemptsView[j] = 0 /\ BudgetView[j] = 0
              /\ TokenView[j] = NoToken /\ DelayedView[j] = FALSE /\ LapsedView[j] = FALSE
         /\ \A st : Is(j, st) =>
              /\ StatusView[j] = st /\ AttemptsView[j] = rows[j].attempts
              /\ BudgetView[j] = rows[j].max_attempts /\ TokenView[j] = rows[j].lease_token
              /\ DelayedView[j] = (st = "queued" /\ rows[j].available_at > now)
              /\ st # "processing" => LapsedView[j] = FALSE /\ TokenView[j] = NoToken
         /\ Is(j, "processing") /\ ~Settling(j) => LapsedView[j] = (rows[j].lease_until <= now)
         /\ Settling(j) => LapsedView[j] = FALSE
  <1>1. CASE rows[j] = Absent
    BY <1>1, AbsentAssumption
       DEF StatusView, AttemptsView, BudgetView, TokenView, DelayedView, LapsedView,
           Expired, StoredAs, Is
  <1>2. CASE rows[j] # Absent
    <2>1. RowChecks(rows[j])
      BY <1>2 DEF PgInv, PgTypes, TypeOK
    <2>2. /\ StatusView[j] = rows[j].status /\ AttemptsView[j] = rows[j].attempts
          /\ BudgetView[j] = rows[j].max_attempts /\ TokenView[j] = rows[j].lease_token
      BY <1>2 DEF StatusView, AttemptsView, BudgetView, TokenView
    <2>3. /\ DelayedView[j] = (rows[j].status = "queued" /\ rows[j].available_at > now)
          /\ LapsedView[j] = (rows[j].status = "processing" /\ rows[j].lease_until <= now /\ ~Settling(j))
      BY <1>2 DEF DelayedView, LapsedView, Expired, StoredAs
    <2>4. ASSUME NEW st, Is(j, st)
          PROVE  /\ StatusView[j] = st
                 /\ DelayedView[j] = (st = "queued" /\ rows[j].available_at > now)
                 /\ st # "processing" => LapsedView[j] = FALSE /\ TokenView[j] = NoToken
      BY <2>1, <2>2, <2>3, <2>4 DEF Is, RowChecks
    <2>5. Is(j, "processing") /\ ~Settling(j) => LapsedView[j] = (rows[j].lease_until <= now)
      BY <2>3 DEF Is
    <2>6. Settling(j) => LapsedView[j] = FALSE
      BY <2>3
    <2> QED BY <1>2, <2>2, <2>4, <2>5, <2>6
  <1> QED BY <1>1, <1>2

LEMMA StatementViews ==
  ASSUME UNCHANGED <<now, rows, issued, outcome, arrivals>>,
         \A j \in Job : Expired(j) /\ ~Settling(j) => ~Settling(j)'
  PROVE  Contract!Next
  <1>1. UNCHANGED <<StatusView, AttemptsView, BudgetView, TokenView, DelayedView>>
    BY DEF StatusView, AttemptsView, BudgetView, TokenView, DelayedView, StoredAs
  <1>2. \A j \in Job : LapsedView[j] => LapsedView'[j]
    BY DEF LapsedView, Expired, StoredAs
  <1>3. \A j \in Job : DelayedView'[j] => DelayedView[j]
    BY <1>1
  <1> QED BY <1>1, <1>2, <1>3, TimeStep

\* A statement of session s leaves the settlements of the others alone.
LEMMA OthersSettling ==
  ASSUME PgInv, NEW s \in Session, NEW op, NEW t, NEW w, Wrote(s, op, t, w),
         op \notin {"ack", "fail", "renew"}, NEW j, ~Settling(j)
  PROVE  ~Settling(j)'
  <1>1. tx'[s].op = op
    BY WroteFacts DEF PgInv
  <1>2. \A q \in Session \ {s} : tx'[q] = tx[q]
    BY DEF PgInv, PgTypes, Wrote
  <1> QED BY <1>1, <1>2 DEF Settling

LEMMA SettlingOthers ==
  ASSUME PgInv, NEW s \in Session, NEW op, NEW t, NEW i, NEW w, DOMAIN w = {i},
         tx[s].op = "idle", Wrote(s, op, t, w),
         NEW j, j # i, ~Settling(j)
  PROVE  ~Settling(j)'
  <1>2. Dom(s)' = {i}
    BY FirstWrite
  <1>3. \A q \in Session \ {s} : tx'[q] = tx[q]
    BY DEF PgInv, PgTypes, Wrote
  <1> QED BY <1>2, <1>3 DEF Settling, Dom

LEMMA StatementMaps ==
  ASSUME PgInv, NEW s \in Session,
         \/ \E j \in Job, p \in Policy : InsertJob(s, j, p)
         \/ ClaimExhausted(s)
         \/ \E limit \in Limit, d \in Lease : ClaimCandidates(s, limit, d)
         \/ \E l \in held : Ack(s, l) \/ Fail(s, l)
         \/ \E l \in held, d \in Lease : Renew(s, l, d)
         \/ \E j \in Job, p \in Policy : RetryDeadLetter(s, j, p)
         \/ \E st \in {"completed", "failed"}, age \in Age, limit \in Limit :
              PurgeTerminal(s, st, age, limit)
  PROVE  Contract!Next
  <1>1. UNCHANGED <<now, rows, issued, outcome, arrivals>>
    BY DEF InsertJob, ClaimExhausted, ClaimCandidates, Ack, Fail, Renew, RetryDeadLetter,
           PurgeTerminal, history
  <1>2. ASSUME NEW j \in Job, Expired(j), ~Settling(j) PROVE ~Settling(j)'
    <2>1. ASSUME NEW i \in Job, NEW p \in Policy, InsertJob(s, i, p) PROVE ~Settling(j)'
      BY <1>2, <2>1, OthersSettling DEF InsertJob
    <2>2. ASSUME ClaimExhausted(s) PROVE ~Settling(j)'
      <3>1. PICK w : Wrote(s, "claim", NoToken, w)
        BY <2>2 DEF ClaimExhausted
      <3> QED BY <1>2, <3>1, OthersSettling
    <2>3. ASSUME NEW limit \in Limit, NEW d \in Lease, ClaimCandidates(s, limit, d) PROVE ~Settling(j)'
      <3>1. PICK w : Wrote(s, "claimed", NoToken, w)
        BY <2>3 DEF ClaimCandidates
      <3> QED BY <1>2, <3>1, OthersSettling
    <2>4. ASSUME NEW l \in held, NEW op, NEW w, Owns(s, l),
                 Wrote(s, op, l.token, w), DOMAIN w = {l.job}
          PROVE  ~Settling(j)'
      <3>1. tx[s].op = "idle" /\ j # l.job
        <4>1. l \in LeaseRecord /\ now \in Nat /\ rows[j] \in Row \cup {Absent}
          BY PostgresAssumption DEF PgInv, PgTypes, TypeOK
        <4>2. tx[s].op = "idle" /\ rows[l.job].lease_until > now
          BY <2>4 DEF Owns
        <4>3. rows[j].lease_until <= now /\ rows[j].lease_until \in Nat
          BY <1>2, <4>1 DEF Expired, StoredAs, Row
        <4> QED BY <4>1, <4>2, <4>3
      <3> QED BY <1>2, <2>4, <3>1, SettlingOthers
    <2>5. ASSUME NEW l \in held, Ack(s, l) PROVE ~Settling(j)'
      <3>1. PICK w : w = [k \in {l.job} |-> Acked(k)]
        OBVIOUS
      <3>2. Owns(s, l) /\ Wrote(s, "ack", l.token, w) /\ DOMAIN w = {l.job}
        BY <2>5, <3>1 DEF Ack
      <3> QED BY <2>4, <3>2
    <2>6. ASSUME NEW l \in held, Fail(s, l) PROVE ~Settling(j)'
      <3>1. PICK w : w = [k \in {l.job} |-> FailedRow(k)]
        OBVIOUS
      <3>2. Owns(s, l) /\ Wrote(s, "fail", l.token, w) /\ DOMAIN w = {l.job}
        BY <2>6, <3>1 DEF Fail
      <3> QED BY <2>4, <3>2
    <2>7. ASSUME NEW l \in held, NEW d \in Lease, Renew(s, l, d) PROVE ~Settling(j)'
      <3>1. PICK w : w = [k \in {l.job} |-> Renewed(k, d)]
        OBVIOUS
      <3>2. Owns(s, l) /\ Wrote(s, "renew", l.token, w) /\ DOMAIN w = {l.job}
        BY <2>7, <3>1 DEF Renew
      <3> QED BY <2>4, <3>2
    <2>8. ASSUME NEW i \in Job, NEW p \in Policy, RetryDeadLetter(s, i, p) PROVE ~Settling(j)'
      <3>1. PICK w : Wrote(s, "retry", NoToken, w)
        BY <2>8 DEF RetryDeadLetter
      <3> QED BY <1>2, <3>1, OthersSettling
    <2>9. ASSUME NEW st \in {"completed", "failed"}, NEW age \in Age, NEW limit \in Limit,
                 PurgeTerminal(s, st, age, limit)
          PROVE  ~Settling(j)'
      <3>1. PICK w : Wrote(s, "purge", NoToken, w)
        BY <2>9 DEF PurgeTerminal
      <3> QED BY <1>2, <3>1, OthersSettling
    <2> QED BY <2>1, <2>2, <2>3, <2>5, <2>6, <2>7, <2>8, <2>9
  <1> QED BY <1>1, <1>2, StatementViews

LEMMA AbortMaps == ASSUME PgInv, NEW s \in Session, Abort(s) PROVE Contract!Next
  <1>1. UNCHANGED <<now, rows, issued, outcome, arrivals>>
    BY DEF Abort, history
  <1>2. tx'[s].op = "idle" /\ \A q \in Session \ {s} : tx'[q] = tx[q]
    BY FinishFacts DEF PgInv, Abort
  <1>3. \A j \in Job : ~Settling(j) => ~Settling(j)'
    BY <1>2 DEF Settling
  <1> QED BY <1>1, <1>3, StatementViews

LEMMA TickMaps == ASSUME PgInv, Tick PROVE Contract!Next
  <1>1. now' = now + 1 /\ now \in Nat /\ UNCHANGED <<rows, tx, issued, outcome, arrivals>>
    BY PostgresAssumption DEF Tick, history, PgInv, PgTypes, TypeOK
  <1>2. UNCHANGED <<StatusView, AttemptsView, BudgetView, TokenView>>
    BY <1>1 DEF StatusView, AttemptsView, BudgetView, TokenView
  <1>3. \A j \in Job : rows[j] # Absent => rows[j].lease_until \in Nat /\ rows[j].available_at \in Nat
    BY DEF PgInv, PgTypes, TypeOK, Row
  <1>4. ASSUME NEW j \in Job, LapsedView[j] PROVE LapsedView'[j]
    <2>1. Expired(j) /\ ~Settling(j)
      BY <1>4 DEF LapsedView
    <2>2. Expired(j)'
      BY <1>1, <1>3, <2>1 DEF Expired, StoredAs
    <2>3. ~Settling(j)'
      BY <1>1, <2>1 DEF Settling
    <2> QED BY <2>2, <2>3 DEF LapsedView
  <1>5. ASSUME NEW j \in Job, DelayedView'[j] PROVE DelayedView[j]
    <2>1. StoredAs(j, "queued")' /\ rows'[j].available_at > now'
      BY <1>5 DEF DelayedView
    <2>2. StoredAs(j, "queued") /\ rows[j].available_at > now
      BY <1>1, <1>3, <2>1 DEF StoredAs
    <2> QED BY <2>2 DEF DelayedView
  <1> QED BY <1>1, <1>2, <1>4, <1>5, TimeStep

LEMMA CommitRenewMaps == ASSUME PgInv, NEW s \in Session, CommitRenew(s) PROVE Contract!Next
  <1>1. /\ tx[s].op = "renew" /\ rows' = Committed(s) /\ Finish(s)
        /\ UNCHANGED <<now, issued, outcome, arrivals>>
    BY DEF CommitRenew, history
  <1>2. PICK j \in Job : Dom(s) = {j} /\ Is(j, "processing") /\ Extended(j, W(s, j))
    BY <1>1 DEF PgInv, PgPending, PendingOK
  <1>3. W(s, j) # Absent /\ Settling(j)
    BY <1>1, <1>2, AbsentAssumption DEF Extended, Settling, Dom
  <1>4. \A i \in Job : i # j =>
          /\ StatusView'[i] = StatusView[i] /\ AttemptsView'[i] = AttemptsView[i]
          /\ BudgetView'[i] = BudgetView[i] /\ TokenView'[i] = TokenView[i]
          /\ DelayedView'[i] = DelayedView[i] /\ LapsedView'[i] = LapsedView[i]
    <2>1. \A i \in Job \ Dom(s) :
            /\ StatusView'[i] = StatusView[i] /\ AttemptsView'[i] = AttemptsView[i]
            /\ BudgetView'[i] = BudgetView[i] /\ TokenView'[i] = TokenView[i]
            /\ DelayedView'[i] = DelayedView[i] /\ LapsedView'[i] = LapsedView[i]
      BY <1>1, CommitViews
    <2> QED BY <1>2, <2>1
  <1>5. /\ StatusView'[j] = W(s, j).status /\ AttemptsView'[j] = W(s, j).attempts
        /\ BudgetView'[j] = W(s, j).max_attempts /\ TokenView'[j] = W(s, j).lease_token
        /\ DelayedView'[j] = (W(s, j).status = "queued" /\ W(s, j).available_at > now)
    <2>1. j \in Dom(s) /\ W(s, j) # Absent
      BY <1>2, <1>3
    <2>2. rows' = Committed(s) /\ Finish(s) /\ UNCHANGED now
      BY <1>1
    <2> QED BY <2>1, <2>2, CommitViews
  <1>6. /\ StatusView[j] = "processing" /\ AttemptsView[j] = rows[j].attempts
        /\ BudgetView[j] = rows[j].max_attempts /\ TokenView[j] = rows[j].lease_token
        /\ LapsedView[j] = FALSE
    BY <1>2, <1>3, RowViews
  <1>7. /\ StatusView'[j] = StatusView[j] /\ AttemptsView'[j] = AttemptsView[j]
        /\ BudgetView'[j] = BudgetView[j] /\ TokenView'[j] = TokenView[j]
        /\ DelayedView'[j] = FALSE
    BY <1>2, <1>5, <1>6 DEF Extended, SameBudget
  <1>8. StatusView' = StatusView
    BY <1>4, <1>7, StatusShape
  <1>9. AttemptsView' = AttemptsView
    BY <1>4, <1>7, AttemptsShape
  <1>10. BudgetView' = BudgetView
    BY <1>4, <1>7, BudgetShape
  <1>11. TokenView' = TokenView
    BY <1>4, <1>7, TokenShape
  <1>12. \A i \in Job : LapsedView[i] => LapsedView'[i]
    BY <1>4, <1>6
  <1>13. \A i \in Job : DelayedView'[i] => DelayedView[i]
    BY <1>4, <1>7
  <1> QED BY <1>1, <1>8, <1>9, <1>10, <1>11, <1>12, <1>13, TimeStep

LEMMA CommitEnqueueMaps == ASSUME PgInv, NEW s \in Session, CommitEnqueue(s) PROVE Contract!Next
  <1>1. /\ tx[s].op = "enqueue" /\ arrivals < MaxArrivals /\ rows' = Committed(s) /\ Finish(s)
        /\ arrivals' = arrivals + 1 /\ UNCHANGED <<now, issued, outcome>>
    BY DEF CommitEnqueue, history
  <1>2. Dom(s) # {} /\ Dom(s) \subseteq Job /\ \A j \in Dom(s) : Inserted(j, W(s, j))
    BY <1>1 DEF PgInv, PgPending, PendingOK, PgTypes, TypeOK, Dom
  <1>3. PICK b : b = [j \in Dom(s) |-> W(s, j).max_attempts]
    OBVIOUS
  <1>4. b \in [Dom(s) -> {p.max : p \in Policy}] /\ \A j \in Dom(s) : b[j] = W(s, j).max_attempts
    BY <1>2, <1>3 DEF Inserted
  <1>5. ASSUME NEW j \in Dom(s)
        PROVE  /\ StatusView[j] = "absent" /\ StatusView'[j] = "queued"
               /\ AttemptsView'[j] = AttemptsView[j] /\ BudgetView'[j] = b[j]
               /\ TokenView'[j] = TokenView[j] /\ DelayedView'[j] = DelayedView[j]
               /\ LapsedView'[j] = LapsedView[j]
    <2>1. /\ rows[j] = Absent /\ W(s, j) \in Row /\ W(s, j) # Absent
          /\ W(s, j).status = "queued" /\ W(s, j).attempts = 0 /\ W(s, j).lease_token = NoToken
          /\ W(s, j).available_at <= now
      BY <1>2, AbsentAssumption DEF Inserted, Freed
    <2>2. ~(W(s, j).available_at > now)
      <3>1. W(s, j).available_at \in Nat /\ now \in Nat
        BY <2>1, PostgresAssumption DEF Row, PgInv, PgTypes, TypeOK
      <3> QED BY <2>1, <3>1
    <2>3. /\ StatusView[j] = "absent" /\ AttemptsView[j] = 0 /\ TokenView[j] = NoToken
          /\ DelayedView[j] = FALSE /\ LapsedView[j] = FALSE
      BY <1>2, <2>1, RowViews
    <2>4. /\ StatusView'[j] = W(s, j).status /\ AttemptsView'[j] = W(s, j).attempts
          /\ BudgetView'[j] = W(s, j).max_attempts /\ TokenView'[j] = W(s, j).lease_token
          /\ DelayedView'[j] = (W(s, j).status = "queued" /\ W(s, j).available_at > now)
          /\ LapsedView'[j] = (W(s, j).status = "processing" /\ W(s, j).lease_until <= now)
      BY <1>1, <2>1, CommitViews
    <2> QED BY <1>4, <2>1, <2>2, <2>3, <2>4
  <1>6. \A j \in Job \ Dom(s) :
          /\ StatusView'[j] = StatusView[j] /\ AttemptsView'[j] = AttemptsView[j]
          /\ BudgetView'[j] = BudgetView[j] /\ TokenView'[j] = TokenView[j]
          /\ DelayedView'[j] = DelayedView[j] /\ LapsedView'[j] = LapsedView[j]
    BY <1>1, CommitViews
  <1>7. StatusView' = [j \in Job |-> IF j \in Dom(s) THEN "queued" ELSE StatusView[j]]
    BY <1>5, <1>6, StatusShape
  <1>8. BudgetView' = [j \in Job |-> IF j \in Dom(s) THEN b[j] ELSE BudgetView[j]]
    BY <1>5, <1>6, BudgetShape
  <1>9. UNCHANGED <<AttemptsView, DelayedView, TokenView, LapsedView>>
    <2>1. AttemptsView' = AttemptsView
      BY <1>5, <1>6, AttemptsShape
    <2>2. DelayedView' = DelayedView
      BY <1>5, <1>6, DelayedShape
    <2>3. TokenView' = TokenView
      BY <1>5, <1>6, TokenShape
    <2>4. LapsedView' = LapsedView
      BY <1>5, <1>6, LapsedShape
    <2> QED BY <2>1, <2>2, <2>3, <2>4
  <1>10. Contract!Enqueue(Dom(s), b)
    BY <1>1, <1>5, <1>7, <1>8, <1>9 DEF Contract!Enqueue
  <1>11. Dom(s) \in (SUBSET Job) \ {{}}
    BY <1>2
  <1>12. Contract!EnqueueSome
    BY <1>4, <1>10, <1>11 DEF Contract!EnqueueSome
  <1> QED BY <1>12 DEF Contract!Next

LEMMA CommitClaimMaps ==
  ASSUME PgInv, NEW s \in Session, NEW replied \in BOOLEAN, CommitClaim(s, replied)
  PROVE  Contract!Next
  <1>1. /\ tx[s].op = "claimed" /\ rows' = Committed(s) /\ Finish(s)
        /\ UNCHANGED <<now, outcome, arrivals>>
        /\ issued' = [j \in Job |-> IF j \in Delivered(s) THEN issued[j] \cup {W(s, j).lease_token}
                                                         ELSE issued[j]]
    BY DEF CommitClaim, W
  <1>2. /\ Dom(s) \subseteq Job /\ now \in Nat
        /\ \A j \in Dom(s) : Buried(j, W(s, j)) \/ Taken(j, W(s, j))
    BY <1>1, PostgresAssumption DEF PgInv, PgPending, PendingOK, PgTypes, TypeOK, Dom
  <1> DEFINE D == {j \in Dom(s) : Buried(j, W(s, j))}
             C == {j \in Dom(s) : Taken(j, W(s, j))}
             X == {j \in C : W(s, j).lease_until <= now}
             fresh == [j \in C |-> W(s, j).lease_token]
  <1>3. Dom(s) = D \cup C /\ D \cap C = {} /\ X \subseteq C
    BY <1>2 DEF Buried, Taken, Freed
  <1>4. \A j \in Job : j \in Delivered(s) <=> j \in C
    BY <1>2 DEF Delivered, Dom, W, Buried, Taken, Freed
  <1>5. \A j \in C : Minting(s, j)
    BY <1>1, <1>2 DEF Minting, Taken
  <1>6. /\ C \subseteq Job /\ \A j \in C : j \in Dom(s) /\ Taken(j, W(s, j)) /\ fresh[j] = W(s, j).lease_token
        /\ D \subseteq Job /\ \A j \in D : j \in Dom(s) /\ Buried(j, W(s, j))
        /\ \A j \in C : j \in X <=> W(s, j).lease_until <= now
        /\ DOMAIN fresh = C /\ fresh = [j \in C |-> fresh[j]]
    BY <1>2
  <1> HIDE DEF D, C, X, fresh
  <1>7. ASSUME NEW j \in C
        PROVE  /\ fresh[j] \in Token /\ fresh[j] \notin Contract!AllIssued
               /\ \A i \in C : i # j => fresh[i] # fresh[j]
    <2>1. \A i \in Job : fresh[j] \notin issued[i]
      BY <1>5, <1>6 DEF PgInv, PgTokens
    <2>2. fresh[j] \notin Contract!AllIssued
      BY <2>1 DEF Contract!AllIssued
    <2>3. \A i \in C : i # j => fresh[i] # fresh[j]
      BY <1>5, <1>6 DEF PgInv, PgTokens
    <2> QED BY <1>6, <2>2, <2>3 DEF Taken
  <1>8. fresh \in [C -> Token \ Contract!AllIssued]
    BY <1>6, <1>7
  <1>9. \A j \in Dom(s) : ~Settling(j)
    BY <1>1, NotSettling
  <1>10. ASSUME NEW j \in D
         PROVE  /\ StatusView[j] = "processing" /\ StatusView'[j] = "failed"
                /\ AttemptsView[j] \in Nat /\ BudgetView[j] \in Nat
                /\ AttemptsView[j] >= BudgetView[j] /\ LapsedView[j] = TRUE
                /\ AttemptsView'[j] = AttemptsView[j] /\ BudgetView'[j] = BudgetView[j]
                /\ TokenView'[j] = NoToken /\ DelayedView'[j] = DelayedView[j]
                /\ LapsedView'[j] = FALSE
    <2>1. j \in Job /\ j \in Dom(s) /\ ~Settling(j) /\ Buried(j, W(s, j)) /\ W(s, j) # Absent
      BY <1>6, <1>9, AbsentAssumption DEF Buried, Freed
    <2>2. /\ Is(j, "processing") /\ rows[j].lease_until <= now
          /\ rows[j].attempts >= rows[j].max_attempts
          /\ rows[j].attempts \in Nat /\ rows[j].max_attempts \in Nat
          /\ W(s, j).status = "failed" /\ W(s, j).lease_token = NoToken /\ SameBudget(W(s, j), j)
      BY <2>1 DEF Buried, Freed, Is, Row
    <2>3. /\ StatusView[j] = "processing" /\ AttemptsView[j] = rows[j].attempts
          /\ BudgetView[j] = rows[j].max_attempts /\ DelayedView[j] = FALSE
          /\ LapsedView[j] = (rows[j].lease_until <= now)
      BY <2>1, <2>2, RowViews
    <2>4. /\ StatusView'[j] = W(s, j).status /\ AttemptsView'[j] = W(s, j).attempts
          /\ BudgetView'[j] = W(s, j).max_attempts /\ TokenView'[j] = W(s, j).lease_token
          /\ DelayedView'[j] = (W(s, j).status = "queued" /\ W(s, j).available_at > now)
          /\ LapsedView'[j] = (W(s, j).status = "processing" /\ W(s, j).lease_until <= now)
      BY <1>1, <2>1, CommitViews
    <2> QED BY <2>2, <2>3, <2>4 DEF SameBudget
  <1>11. ASSUME NEW j \in C
         PROVE  /\ StatusView'[j] = "processing"
                /\ \/ StatusView[j] = "queued" /\ DelayedView[j] = FALSE
                   \/ StatusView[j] = "processing" /\ LapsedView[j] = TRUE
                /\ AttemptsView[j] \in Nat /\ BudgetView[j] \in Nat
                /\ AttemptsView[j] < BudgetView[j]
                /\ AttemptsView'[j] = AttemptsView[j] + 1 /\ BudgetView'[j] = BudgetView[j]
                /\ TokenView'[j] = fresh[j] /\ DelayedView'[j] = DelayedView[j]
                /\ LapsedView'[j] = (j \in X)
    <2>1. j \in Job /\ j \in Dom(s) /\ ~Settling(j) /\ Taken(j, W(s, j)) /\ W(s, j) # Absent
      BY <1>6, <1>9, AbsentAssumption DEF Taken
    <2>2. /\ \/ Is(j, "queued") /\ rows[j].available_at <= now
             \/ Is(j, "processing") /\ rows[j].lease_until <= now
          /\ rows[j].attempts < rows[j].max_attempts /\ rows[j].available_at \in Nat
          /\ rows[j].attempts \in Nat /\ rows[j].max_attempts \in Nat
          /\ W(s, j).status = "processing" /\ W(s, j).lease_token = fresh[j]
          /\ W(s, j).attempts = rows[j].attempts + 1 /\ W(s, j).max_attempts = rows[j].max_attempts
      BY <1>6, <2>1 DEF Taken, Is, Row
    <2>3. /\ AttemptsView[j] = rows[j].attempts /\ BudgetView[j] = rows[j].max_attempts
          /\ DelayedView[j] = FALSE
          /\ \/ StatusView[j] = "queued" /\ DelayedView[j] = FALSE
             \/ StatusView[j] = "processing" /\ LapsedView[j] = TRUE
      <3>1. CASE Is(j, "queued") /\ rows[j].available_at <= now
        <4>1. /\ StatusView[j] = "queued" /\ AttemptsView[j] = rows[j].attempts
              /\ BudgetView[j] = rows[j].max_attempts
              /\ DelayedView[j] = ("queued" = "queued" /\ rows[j].available_at > now)
          BY <2>1, <3>1, RowViews
        <4>2. ~(rows[j].available_at > now)
          BY <1>2, <2>2, <3>1
        <4>3. DelayedView[j] = FALSE
          BY <4>1, <4>2
        <4> QED BY <4>1, <4>3
      <3>2. CASE Is(j, "processing") /\ rows[j].lease_until <= now
        <4>1. /\ StatusView[j] = "processing" /\ AttemptsView[j] = rows[j].attempts
              /\ BudgetView[j] = rows[j].max_attempts
              /\ DelayedView[j] = FALSE
              /\ LapsedView[j] = (rows[j].lease_until <= now)
          BY <2>1, <3>2, RowViews
        <4> QED BY <3>2, <4>1
      <3> QED BY <2>2, <3>1, <3>2
    <2>4. /\ StatusView'[j] = W(s, j).status /\ AttemptsView'[j] = W(s, j).attempts
          /\ BudgetView'[j] = W(s, j).max_attempts /\ TokenView'[j] = W(s, j).lease_token
          /\ DelayedView'[j] = (W(s, j).status = "queued" /\ W(s, j).available_at > now)
          /\ LapsedView'[j] = (W(s, j).status = "processing" /\ W(s, j).lease_until <= now)
      BY <1>1, <2>1, CommitViews
    <2>5. LapsedView'[j] = (j \in X)
      BY <1>6, <2>2, <2>4
    <2> QED BY <2>2, <2>3, <2>4, <2>5
  <1>12. ASSUME NEW j \in Job, j \notin C, j \notin D
         PROVE  /\ StatusView'[j] = StatusView[j] /\ AttemptsView'[j] = AttemptsView[j]
                /\ BudgetView'[j] = BudgetView[j] /\ TokenView'[j] = TokenView[j]
                /\ DelayedView'[j] = DelayedView[j] /\ LapsedView'[j] = LapsedView[j]
    BY <1>1, <1>3, <1>12, CommitViews
  <1>13. StatusView' = [j \in Job |-> IF j \in D THEN "failed" ELSE IF j \in {} THEN "queued"
                                      ELSE IF j \in C THEN "processing" ELSE StatusView[j]]
    BY <1>3, <1>10, <1>11, <1>12, StatusShape
  <1>14. AttemptsView' = [j \in Job |-> IF j \in C THEN AttemptsView[j] + 1 ELSE AttemptsView[j]]
    BY <1>3, <1>10, <1>11, <1>12, AttemptsShape
  <1>15. TokenView' = [j \in Job |-> IF j \in D \cup {} THEN NoToken
                                     ELSE IF j \in C THEN fresh[j] ELSE TokenView[j]]
    BY <1>3, <1>10, <1>11, <1>12, TokenShape
  <1>16. LapsedView' = [j \in Job |-> j \in X \/ (LapsedView[j] /\ j \notin D \cup {} \cup C)]
    <2>1. ASSUME NEW j \in Job
          PROVE  LapsedView'[j] = (j \in X \/ (LapsedView[j] /\ j \notin D \cup {} \cup C))
      <3>1. CASE j \in D
        BY <1>3, <1>10, <3>1
      <3>2. CASE j \in C
        <4>1. LapsedView'[j] = (j \in X) /\ j \in D \cup {} \cup C
          BY <1>11, <3>2
        <4> QED BY <4>1
      <3>3. CASE j \notin D /\ j \notin C
        <4>1. LapsedView'[j] = LapsedView[j] /\ j \notin X
          BY <1>3, <1>12, <3>3
        <4>2. LapsedView[j] \in BOOLEAN
          BY DEF LapsedView, Expired, StoredAs
        <4> QED BY <3>3, <4>1, <4>2
      <3> QED BY <3>1, <3>2, <3>3
    <2> QED BY <2>1, LapsedShape
  <1>17. issued' = [j \in Job |-> IF j \in C THEN issued[j] \cup {fresh[j]} ELSE issued[j]]
    BY <1>1, <1>4, <1>6
  <1>a. \A j \in Job : BudgetView'[j] = BudgetView[j] /\ DelayedView'[j] = DelayedView[j]
    BY <1>10, <1>11, <1>12
  <1>18. BudgetView' = BudgetView
    BY <1>a, BudgetShape
  <1>19. DelayedView' = DelayedView
    BY <1>a, DelayedShape
  <1>20. D \subseteq Contract!Exhausted
    BY <1>6, <1>10 DEF Contract!Exhausted, Contract!Lapsed
  <1>21. C \subseteq Contract!Claimable
    <2>1. ASSUME NEW j \in C PROVE j \in Contract!Due \/ j \in Contract!Abandoned
      <3>1. j \in Job /\ ~(AttemptsView[j] >= BudgetView[j]) /\ AttemptsView[j] < BudgetView[j]
        <4>1. AttemptsView[j] \in Nat /\ BudgetView[j] \in Nat /\ AttemptsView[j] < BudgetView[j]
          BY <1>11
        <4>2. j \in Job
          BY <1>6
        <4> QED BY <4>1, <4>2
      <3>2. CASE StatusView[j] = "queued" /\ DelayedView[j] = FALSE
        BY <3>1, <3>2 DEF Contract!Due
      <3>3. CASE StatusView[j] = "processing" /\ LapsedView[j] = TRUE
        <4>1. j \in Contract!Lapsed
          BY <3>1, <3>3 DEF Contract!Lapsed
        <4>2. j \notin Contract!Exhausted
          BY <3>1 DEF Contract!Exhausted
        <4> QED BY <4>1, <4>2 DEF Contract!Abandoned
      <3> QED BY <1>11, <3>2, <3>3
    <2> QED BY <2>1 DEF Contract!Claimable
  <1>22. Contract!Claim(D, {}, C, X, fresh)
    <2>1. {} \subseteq Contract!Abandoned \ C /\ X \subseteq C
      BY <1>3
    <2>2. \A i, j \in C : i # j => fresh[i] # fresh[j]
      BY <1>7
    <2>3. UNCHANGED <<BudgetView, DelayedView, outcome, arrivals>>
      BY <1>1, <1>18, <1>19
    <2> QED BY <1>13, <1>14, <1>15, <1>16, <1>17, <1>20, <1>21, <2>1, <2>2, <2>3
            DEF Contract!Claim
  <1>23. Contract!ClaimSome
    BY <1>3, <1>8, <1>20, <1>21, <1>22 DEF Contract!ClaimSome
  <1> QED BY <1>23 DEF Contract!Next

\* A transaction of one row has the row's lock: what it commits is one step of one job.
LEMMA SettledViews ==
  ASSUME PgInv, NEW s \in Session, rows' = Committed(s), Finish(s), UNCHANGED now,
         NEW j \in Job, Dom(s) = {j}, NEW st \in {"queued", "completed", "failed"},
         Freed(W(s, j), st)
  PROVE  /\ StatusView' = [StatusView EXCEPT ![j] = st]
         /\ AttemptsView' = [AttemptsView EXCEPT ![j] = W(s, j).attempts]
         /\ BudgetView' = [BudgetView EXCEPT ![j] = W(s, j).max_attempts]
         /\ TokenView' = [TokenView EXCEPT ![j] = NoToken]
         /\ DelayedView' = [DelayedView EXCEPT ![j] = (st = "queued" /\ W(s, j).available_at > now)]
         /\ LapsedView' = [LapsedView EXCEPT ![j] = FALSE]
  <1>1. \A i \in Job : i # j =>
          /\ StatusView'[i] = StatusView[i] /\ AttemptsView'[i] = AttemptsView[i]
          /\ BudgetView'[i] = BudgetView[i] /\ TokenView'[i] = TokenView[i]
          /\ DelayedView'[i] = DelayedView[i] /\ LapsedView'[i] = LapsedView[i]
    <2>1. \A i \in Job \ Dom(s) :
            /\ StatusView'[i] = StatusView[i] /\ AttemptsView'[i] = AttemptsView[i]
            /\ BudgetView'[i] = BudgetView[i] /\ TokenView'[i] = TokenView[i]
            /\ DelayedView'[i] = DelayedView[i] /\ LapsedView'[i] = LapsedView[i]
      BY CommitViews
    <2> QED BY <2>1
  <1>2. W(s, j) # Absent /\ W(s, j).status = st /\ W(s, j).lease_token = NoToken
    BY AbsentAssumption DEF Freed
  <1>3. /\ StatusView'[j] = W(s, j).status /\ AttemptsView'[j] = W(s, j).attempts
        /\ BudgetView'[j] = W(s, j).max_attempts /\ TokenView'[j] = W(s, j).lease_token
        /\ DelayedView'[j] = (W(s, j).status = "queued" /\ W(s, j).available_at > now)
        /\ LapsedView'[j] = (W(s, j).status = "processing" /\ W(s, j).lease_until <= now)
    BY <1>2, CommitViews
  <1>4. /\ StatusView'[j] = st /\ TokenView'[j] = NoToken /\ LapsedView'[j] = FALSE
        /\ DelayedView'[j] = (st = "queued" /\ W(s, j).available_at > now)
    BY <1>2, <1>3
  <1>5. StatusView' = [StatusView EXCEPT ![j] = st]
    BY <1>1, <1>4, StatusShape
  <1>6. AttemptsView' = [AttemptsView EXCEPT ![j] = W(s, j).attempts]
    BY <1>1, <1>3, AttemptsShape
  <1>7. BudgetView' = [BudgetView EXCEPT ![j] = W(s, j).max_attempts]
    BY <1>1, <1>3, BudgetShape
  <1>8. TokenView' = [TokenView EXCEPT ![j] = NoToken]
    BY <1>1, <1>4, TokenShape
  <1>9. LapsedView' = [LapsedView EXCEPT ![j] = FALSE]
    BY <1>1, <1>4, LapsedShape
  <1>10. DelayedView' = [DelayedView EXCEPT ![j] = (st = "queued" /\ W(s, j).available_at > now)]
    BY <1>1, <1>4, DelayedShape
  <1> QED BY <1>5, <1>6, <1>7, <1>8, <1>9, <1>10

LEMMA CommitSettleMaps == ASSUME PgInv, NEW s \in Session, CommitSettle(s) PROVE Contract!Next
  <1>1. /\ tx[s].op \in {"ack", "fail"} /\ rows' = Committed(s) /\ Finish(s)
        /\ outcome' = [outcome EXCEPT ![tx[s].token] =
                          IF tx[s].op = "ack" THEN "acked" ELSE "failed"]
        /\ UNCHANGED <<now, issued, arrivals>>
    BY DEF CommitSettle
  <1>2. PICK j \in Job : Dom(s) = {j} /\ Is(j, "processing") /\ rows[j].lease_token = tx[s].token
    BY <1>1 DEF PgInv, PgPending, PendingOK
  <1>3. Settling(j)
    BY <1>1, <1>2 DEF Settling, Dom
  <1>4. /\ StatusView[j] = "processing" /\ AttemptsView[j] = rows[j].attempts
        /\ BudgetView[j] = rows[j].max_attempts /\ TokenView[j] = tx[s].token
        /\ DelayedView[j] = FALSE /\ LapsedView[j] = FALSE
    <2>1. /\ StatusView[j] = "processing" /\ AttemptsView[j] = rows[j].attempts
          /\ BudgetView[j] = rows[j].max_attempts /\ TokenView[j] = rows[j].lease_token
          /\ DelayedView[j] = ("processing" = "queued" /\ rows[j].available_at > now)
          /\ LapsedView[j] = FALSE
      BY <1>2, <1>3, RowViews
    <2> QED BY <1>2, <2>1
  <1>5. tx[s].token \in Token
    <2>1. RowChecks(rows[j]) /\ rows[j].status = "processing" /\ rows[j].lease_token \in Token \cup {NoToken}
      BY <1>2, AbsentAssumption DEF PgInv, PgTypes, TypeOK, Is, Row
    <2> QED BY <1>2, <2>1 DEF RowChecks
  <1>6. Contract!Holds(j, tx[s].token)
    BY <1>4 DEF Contract!Holds
  <1>7. CASE tx[s].op = "ack"
    <2>1. Settled(j, W(s, j), "completed")
      BY <1>2, <1>7 DEF PgInv, PgPending, PendingOK
    <2>2. /\ StatusView' = [StatusView EXCEPT ![j] = "completed"]
          /\ AttemptsView' = [AttemptsView EXCEPT ![j] = W(s, j).attempts]
          /\ BudgetView' = [BudgetView EXCEPT ![j] = W(s, j).max_attempts]
          /\ TokenView' = [TokenView EXCEPT ![j] = NoToken]
          /\ DelayedView' = [DelayedView EXCEPT ![j] = ("completed" = "queued" /\ W(s, j).available_at > now)]
          /\ LapsedView' = [LapsedView EXCEPT ![j] = FALSE]
      BY <1>1, <1>2, <2>1, SettledViews DEF Settled
    <2>3. AttemptsView' = AttemptsView
      BY <1>4, <2>1, <2>2, AttemptsShape DEF Settled, SameBudget
    <2>4. BudgetView' = BudgetView
      BY <1>4, <2>1, <2>2, BudgetShape DEF Settled, SameBudget
    <2>5. DelayedView' = DelayedView
      BY <1>4, <2>2, DelayedShape
    <2>6. Contract!Ack(j, tx[s].token)
      BY <1>1, <1>6, <1>7, <2>2, <2>3, <2>4, <2>5 DEF Contract!Ack, Contract!Release
    <2> QED BY <1>5, <2>6 DEF Contract!Next, Contract!AckSome
  <1>8. CASE tx[s].op = "fail"
    <2> DEFINE st == IF rows[j].attempts < rows[j].max_attempts THEN "queued" ELSE "failed"
               wait == st = "queued" /\ W(s, j).available_at > now
    <2>1. Settled(j, W(s, j), st)
      BY <1>2, <1>8 DEF PgInv, PgPending, PendingOK
    <2>2. st \in {"queued", "completed", "failed"}
      OBVIOUS
    <2>3. st = IF AttemptsView[j] < BudgetView[j] THEN "queued" ELSE "failed"
      BY <1>4
    <2> HIDE DEF st
    <2>4. /\ StatusView' = [StatusView EXCEPT ![j] = st]
          /\ AttemptsView' = [AttemptsView EXCEPT ![j] = W(s, j).attempts]
          /\ BudgetView' = [BudgetView EXCEPT ![j] = W(s, j).max_attempts]
          /\ TokenView' = [TokenView EXCEPT ![j] = NoToken]
          /\ DelayedView' = [DelayedView EXCEPT ![j] = (st = "queued" /\ W(s, j).available_at > now)]
          /\ LapsedView' = [LapsedView EXCEPT ![j] = FALSE]
      BY <1>1, <1>2, <2>1, <2>2, SettledViews DEF Settled
    <2>5. AttemptsView' = AttemptsView
      BY <1>4, <2>1, <2>4, AttemptsShape DEF Settled, SameBudget
    <2>6. BudgetView' = BudgetView
      BY <1>4, <2>1, <2>4, BudgetShape DEF Settled, SameBudget
    <2>7. wait \in BOOLEAN /\ DelayedView' = [DelayedView EXCEPT ![j] = wait]
      BY <2>4
    <2>8. ASSUME st = "failed" PROVE DelayedView' = DelayedView
      <3>1. DelayedView' = [DelayedView EXCEPT ![j] = FALSE]
        BY <2>4, <2>8
      <3> QED BY <1>4, <3>1, DelayedShape
    <2> HIDE DEF wait
    <2>9. Contract!Fail(j, tx[s].token, wait)
      <3>1. CASE AttemptsView[j] < BudgetView[j]
        BY <1>1, <1>6, <1>8, <2>3, <2>4, <2>5, <2>6, <2>7, <3>1 DEF Contract!Fail, Contract!Release
      <3>2. CASE ~(AttemptsView[j] < BudgetView[j])
        BY <1>1, <1>6, <1>8, <2>3, <2>4, <2>5, <2>6, <2>8, <3>2 DEF Contract!Fail, Contract!Release
      <3> QED BY <3>1, <3>2
    <2> QED BY <1>5, <2>7, <2>9 DEF Contract!Next, Contract!FailSome
  <1> QED BY <1>1, <1>7, <1>8

LEMMA CommitRetryMaps == ASSUME PgInv, NEW s \in Session, CommitRetry(s) PROVE Contract!Next
  <1>1. /\ tx[s].op = "retry" /\ arrivals < MaxArrivals /\ rows' = Committed(s) /\ Finish(s)
        /\ arrivals' = arrivals + 1 /\ UNCHANGED <<now, issued, outcome>>
    BY DEF CommitRetry, history
  <1>2. PICK j \in Job : Dom(s) = {j} /\ Requeued(j, W(s, j))
    BY <1>1 DEF PgInv, PgPending, PendingOK
  <1>3. /\ StatusView[j] = "failed" /\ DelayedView[j] = FALSE
        /\ LapsedView[j] = FALSE /\ TokenView[j] = NoToken
    <2>1. Is(j, "failed")
      BY <1>2 DEF Requeued
    <2>2. PICK st : st = "failed"
      OBVIOUS
    <2>a. Is(j, st) /\ st # "processing" /\ st # "queued"
      BY <2>1, <2>2 DEF Is
    <2>3. /\ StatusView[j] = st /\ LapsedView[j] = FALSE /\ TokenView[j] = NoToken
          /\ DelayedView[j] = (st = "queued" /\ rows[j].available_at > now)
      BY <2>2, <2>a, RowViews
    <2> QED BY <2>2, <2>a, <2>3
  <1>4. Freed(W(s, j), "queued") /\ ~(W(s, j).available_at > now) /\ W(s, j).attempts = 0
    <2>1. W(s, j).available_at \in Nat /\ now \in Nat /\ W(s, j).available_at <= now
      BY <1>2, PostgresAssumption DEF Requeued, Freed, Row, PgInv, PgTypes, TypeOK
    <2> QED BY <1>2, <2>1 DEF Requeued
  <1>5. /\ StatusView' = [StatusView EXCEPT ![j] = "queued"]
        /\ AttemptsView' = [AttemptsView EXCEPT ![j] = W(s, j).attempts]
        /\ BudgetView' = [BudgetView EXCEPT ![j] = W(s, j).max_attempts]
        /\ TokenView' = [TokenView EXCEPT ![j] = NoToken]
        /\ DelayedView' = [DelayedView EXCEPT ![j] = ("queued" = "queued" /\ W(s, j).available_at > now)]
        /\ LapsedView' = [LapsedView EXCEPT ![j] = FALSE]
    BY <1>1, <1>2, <1>4, SettledViews
  <1>6. DelayedView' = DelayedView
    <2>1. DelayedView' = [DelayedView EXCEPT ![j] = FALSE]
      BY <1>4, <1>5
    <2> QED BY <1>3, <2>1, DelayedShape
  <1>7. LapsedView' = LapsedView
    <2>1. LapsedView' = [LapsedView EXCEPT ![j] = FALSE]
      BY <1>5
    <2> QED BY <1>3, <2>1, LapsedShape
  <1>8. TokenView' = TokenView
    BY <1>3, <1>5, TokenShape
  <1>9. Contract!RetryDeadLetter(j, W(s, j).max_attempts)
    BY <1>1, <1>3, <1>4, <1>5, <1>6, <1>7, <1>8 DEF Contract!RetryDeadLetter, Contract!NewBudget
  <1>10. W(s, j).max_attempts \in {p.max : p \in Policy}
    BY <1>2 DEF Requeued
  <1>11. Contract!RetrySome
    BY <1>9, <1>10 DEF Contract!RetrySome
  <1> QED BY <1>11 DEF Contract!Next

LEMMA CommitPurgeMaps == ASSUME PgInv, NEW s \in Session, CommitPurge(s) PROVE Contract!Next
  <1>1. /\ tx[s].op = "purge" /\ rows' = Committed(s) /\ Finish(s)
        /\ UNCHANGED <<now, issued, outcome, arrivals>>
    BY DEF CommitPurge, history
  <1>2. PICK st \in {"completed", "failed"} : \A j \in Dom(s) : Is(j, st) /\ W(s, j) = Absent
    BY <1>1 DEF PgInv, PgPending, PendingOK
  <1>3. Dom(s) \subseteq Job
    BY DEF PgInv, PgTypes, TypeOK, Dom
  <1>4. \A j \in Job \ Dom(s) :
          /\ StatusView'[j] = StatusView[j] /\ AttemptsView'[j] = AttemptsView[j]
          /\ BudgetView'[j] = BudgetView[j] /\ TokenView'[j] = TokenView[j]
          /\ DelayedView'[j] = DelayedView[j] /\ LapsedView'[j] = LapsedView[j]
    BY <1>1, CommitViews
  <1>5. \A j \in Dom(s) :
          /\ StatusView'[j] = "absent" /\ AttemptsView'[j] = 0
          /\ BudgetView'[j] = 0 /\ TokenView'[j] = NoToken
          /\ DelayedView'[j] = FALSE /\ LapsedView'[j] = FALSE
    BY <1>1, <1>2, CommitViews
  <1>6. ASSUME NEW j \in Dom(s)
        PROVE  /\ StatusView[j] = st /\ TokenView[j] = NoToken
               /\ DelayedView[j] = FALSE /\ LapsedView[j] = FALSE
    <2>1. /\ StatusView[j] = st /\ TokenView[j] = NoToken /\ LapsedView[j] = FALSE
          /\ DelayedView[j] = (st = "queued" /\ rows[j].available_at > now)
      BY <1>2, <1>3, RowViews
    <2> QED BY <2>1
  <1>7. StatusView' = [j \in Job |-> IF j \in Dom(s) THEN "absent" ELSE StatusView[j]]
    BY <1>4, <1>5, StatusShape
  <1>8. AttemptsView' = [j \in Job |-> IF j \in Dom(s) THEN 0 ELSE AttemptsView[j]]
    BY <1>4, <1>5, AttemptsShape
  <1>9. BudgetView' = [j \in Job |-> IF j \in Dom(s) THEN 0 ELSE BudgetView[j]]
    BY <1>4, <1>5, BudgetShape
  <1>10. \A j \in Job : /\ TokenView'[j] = TokenView[j] /\ DelayedView'[j] = DelayedView[j]
                       /\ LapsedView'[j] = LapsedView[j]
    BY <1>4, <1>5, <1>6
  <1>11. TokenView' = TokenView
    BY <1>10, TokenShape
  <1>12. DelayedView' = DelayedView
    BY <1>10, DelayedShape
  <1>13. LapsedView' = LapsedView
    BY <1>10, LapsedShape
  <1>14. Contract!PurgeTerminal(Dom(s), st)
    BY <1>1, <1>6, <1>7, <1>8, <1>9, <1>11, <1>12, <1>13 DEF Contract!PurgeTerminal, Contract!Terminal
  <1> QED BY <1>3, <1>14 DEF Contract!Next, Contract!PurgeSome, Contract!Terminal

LEMMA ContractStep == PgInv /\ [Next]_vars => [Contract!Next]_(Contract!vars)
  <1> SUFFICES ASSUME PgInv, [Next]_vars PROVE [Contract!Next]_(Contract!vars)
    OBVIOUS
  <1>1. CASE UNCHANGED vars
    <2>1. UNCHANGED <<now, rows, tx, issued, outcome, arrivals>>
      BY <1>1 DEF vars, history
    <2>2. UNCHANGED <<StatusView, AttemptsView, BudgetView, TokenView, DelayedView, LapsedView>>
      BY <2>1 DEF StatusView, AttemptsView, BudgetView, TokenView, DelayedView, LapsedView,
                  Expired, StoredAs, Settling
    <2> QED BY <2>1, <2>2 DEF Contract!vars
  <1>2. CASE Next
    <2>1. Contract!Next
      BY <1>2, TickMaps, AbortMaps, StatementMaps, CommitEnqueueMaps, CommitClaimMaps,
         CommitSettleMaps, CommitRenewMaps, CommitRetryMaps, CommitPurgeMaps DEF Next
    <2> QED BY <2>1
  <1> QED BY <1>1, <1>2

(* The table with its transactions implements the queue contract: what others *)
(* may see changes at the commits, and each commit, clock tick or accepted    *)
(* settlement is one step of the contract, or none.                           *)
THEOREM ImplementsContractCorrect == Spec => ImplementsContract
  <1>1. Spec => Contract!Init /\ [][Contract!Next]_(Contract!vars)
    BY PgInvAlways, ContractInit, ContractStep, PTL DEF Spec
  <1> QED BY <1>1 DEF ImplementsContract, Contract!Spec

-----------------------------------------------------------------------------
(* What the contract promises, of the table.  The contract's theorems hold  *)
(* of any state functions that behave as it says, so of the six views.      *)
Promise == INSTANCE JobQueueContractProofs WITH
  Budget <- {p.max : p \in Policy},
  status <- StatusView, attempts <- AttemptsView, maxAttempts <- BudgetView,
  delayed <- DelayedView, token <- TokenView, lapsed <- LapsedView

LEMMA PromiseNext == Contract!Next => Promise!Next
  <1>1. Contract!TimePassesSome => Promise!TimePassesSome
    BY DEF Contract!TimePassesSome, Promise!TimePassesSome, Contract!TimePasses,
           Promise!TimePasses
  <1>2. Contract!EnqueueSome => Promise!EnqueueSome
    BY DEF Contract!EnqueueSome, Promise!EnqueueSome, Contract!Enqueue, Promise!Enqueue
  <1>3. Contract!ClaimSome => Promise!ClaimSome
    BY DEF Contract!ClaimSome, Promise!ClaimSome, Contract!Claim, Promise!Claim,
           Contract!Claimable, Promise!Claimable, Contract!Exhausted, Promise!Exhausted,
           Contract!Abandoned, Promise!Abandoned, Contract!Due, Promise!Due,
           Contract!Lapsed, Promise!Lapsed, Contract!AllIssued, Promise!AllIssued
  <1>4. Contract!AckSome => Promise!AckSome
    BY DEF Contract!AckSome, Promise!AckSome, Contract!Ack, Promise!Ack,
           Contract!Holds, Promise!Holds, Contract!Release, Promise!Release
  <1>5. Contract!FailSome => Promise!FailSome
    BY DEF Contract!FailSome, Promise!FailSome, Contract!Fail, Promise!Fail,
           Contract!Holds, Promise!Holds, Contract!Release, Promise!Release
  <1>6. Contract!RetrySome => Promise!RetrySome
    BY DEF Contract!RetrySome, Promise!RetrySome, Contract!RetryDeadLetter,
           Promise!RetryDeadLetter, Contract!NewBudget, Promise!NewBudget
  <1>7. Contract!PurgeSome => Promise!PurgeSome
    BY DEF Contract!PurgeSome, Promise!PurgeSome, Contract!PurgeTerminal,
           Promise!PurgeTerminal, Contract!Terminal, Promise!Terminal
  <1> QED BY <1>1, <1>2, <1>3, <1>4, <1>5, <1>6, <1>7 DEF Contract!Next, Promise!Next

LEMMA PromiseKept == Spec => Promise!Spec
  <1>1. Contract!Init => Promise!Init
    BY DEF Contract!Init, Promise!Init, Contract!Terminal, Promise!Terminal
  <1>2. [Contract!Next]_(Contract!vars) => [Promise!Next]_(Promise!vars)
    BY PromiseNext DEF Contract!vars, Promise!vars
  <1> QED BY <1>1, <1>2, ImplementsContractCorrect, PTL
      DEF ImplementsContract, Contract!Spec, Promise!Spec

(* No row is leased more often than its budget allows, dead-lettered before *)
(* it is spent, or queued with nothing left of it.                          *)
THEOREM BudgetHolds == Spec => []Contract!BudgetSpentExactly
  <1>1. Promise!Spec => []Promise!BudgetSpentExactly
    BY PostgresAssumption, Promise!BudgetCorrect
  <1>2. Promise!BudgetSpentExactly => Contract!BudgetSpentExactly
    BY DEF Promise!BudgetSpentExactly, Contract!BudgetSpentExactly
  <1> QED BY <1>1, <1>2, PromiseKept, PTL

(* The token of a leased row was issued for that job and no other, and is   *)
(* not settled.                                                             *)
THEOREM TokensHold == Spec => []Contract!TokensFence
  <1>1. Promise!Spec => []Promise!TokensFence
    BY PostgresAssumption, Promise!TokensCorrect
  <1>2. Promise!TokensFence => Contract!TokensFence
    BY DEF Promise!TokensFence, Contract!TokensFence
  <1> QED BY <1>1, <1>2, PromiseKept, PTL

(* No row gets back a token it lost, and no settlement follows an accepted  *)
(* one, whatever stale requests arrive.                                     *)
THEOREM TokensStayLost == Spec => Contract!TokensNeverReturn
  <1>1. Promise!Spec => Promise!TokensNeverReturn
    BY PostgresAssumption, Promise!TokensNeverReturnCorrect
  <1>2. Promise!TokensNeverReturn => Contract!TokensNeverReturn
    BY PTL DEF Promise!TokensNeverReturn, Contract!TokensNeverReturn, Promise!vars, Contract!vars
  <1> QED BY <1>1, <1>2, PromiseKept
=============================================================================
