---------------------------- MODULE StoreProofs -----------------------------
(***************************************************************************)
(* Proofs about the TypeScript store and the worker that serves it, for    *)
(* any processes, ticks, events, orders, references, requests and          *)
(* deliveries: IntervalWorker, StoreInventory and StoreCheckout.           *)
(***************************************************************************)
EXTENDS StoreInventory, StoreCheckout, SumProofs, SequenceTheorems, FiniteSetTheorems, TLAPS

-----------------------------------------------------------------------------
(***************************************************************************)
(* IntervalWorker: every event that is to be processed is in one place.    *)
(*                                                                         *)
(* The list and what the ticks hold have no event in common, and no event  *)
(* twice (Apart); what is to be processed next was tried as often as its   *)
(* count says, what has failed once more (Counts); and an event that is    *)
(* nowhere any more came to one of its ends (Ends).  What reversing,       *)
(* splitting and filtering do to a list of records is stated first, place  *)
(* by place: no induction is needed.                                       *)
(***************************************************************************)
\* No event has two records in a list.
Once(records) == \A i, j \in DOMAIN records : records[i].id = records[j].id => i = j

-----------------------------------------------------------------------------
(* What the operations on lists do to the records in them.                  *)
LEMMA ListFacts ==
  ASSUME NEW S, NEW s \in Seq(S)
  PROVE  /\ DOMAIN s = 1 .. Len(s) /\ Len(s) \in Nat
         /\ ToSet(s) \subseteq S
         /\ \A x : x \in ToSet(s) <=> \E i \in 1 .. Len(s) : x = s[i]
         /\ \A x : x \in Ids(s) <=> \E i \in 1 .. Len(s) : x = s[i].id
BY DEF ToSet, Ids

LEMMA ReverseFacts ==
  ASSUME NEW S, NEW s \in Seq(S)
  PROVE  /\ Reverse(s) \in Seq(S) /\ Len(Reverse(s)) = Len(s)
         /\ ToSet(Reverse(s)) = ToSet(s)
         /\ Once(s) => Once(Reverse(s))
<1> DEFINE n == Len(s)
           r == Reverse(s)
<1>1. n \in Nat /\ \A i \in 1 .. n : (n - i) + 1 \in 1 .. n /\ s[(n - i) + 1] \in S
  OBVIOUS
<1>2. r = [i \in 1 .. n |-> s[(n - i) + 1]]
  BY DEF Reverse
<1>3. r \in Seq(S) /\ Len(r) = n
  BY <1>1, <1>2
<1> HIDE DEF n, r
<1>4. \A i \in 1 .. n : r[i] = s[(n - i) + 1] /\ s[i] = r[(n - i) + 1]
  BY <1>1, <1>2
<1>5. DOMAIN s = 1 .. n /\ DOMAIN r = 1 .. n
  BY <1>3 DEF n
<1>6. ToSet(r) = ToSet(s)
  BY <1>1, <1>4, <1>5 DEF ToSet
<1>7. ASSUME Once(s), NEW i \in 1 .. n, NEW j \in 1 .. n, r[i].id = r[j].id
      PROVE  i = j
  <2>1. (n - i) + 1 = (n - j) + 1
    BY <1>1, <1>4, <1>5, <1>7 DEF Once
  <2> QED BY <1>1, <2>1
<1>8. Once(s) => Once(r)
  BY <1>5, <1>7 DEF Once
<1> QED BY <1>3, <1>6, <1>8 DEF r, n

LEMMA ConcatFacts ==
  ASSUME NEW S, NEW s \in Seq(S), NEW t \in Seq(S)
  PROVE  /\ s \o t \in Seq(S) /\ ToSet(s \o t) = ToSet(s) \cup ToSet(t)
         /\ Once(s) /\ Once(t) /\ Ids(s) \cap Ids(t) = {} => Once(s \o t)
<1>1. PICK m, n \in Nat : m = Len(s) /\ n = Len(t)
  OBVIOUS
<1>2. PICK c : c = s \o t
  OBVIOUS
<1>3. c \in Seq(S) /\ Len(c) = m + n
  BY <1>1, <1>2
<1>4. DOMAIN s = 1 .. m /\ DOMAIN t = 1 .. n /\ DOMAIN c = 1 .. (m + n)
  BY <1>1, <1>3
<1>5. /\ \A i \in 1 .. m : c[i] = s[i]
      /\ \A i \in 1 .. n : m + i \in 1 .. (m + n) /\ c[m + i] = t[i]
      /\ \A i \in 1 .. (m + n) : i \in 1 .. m \/ (i - m \in 1 .. n /\ c[i] = t[i - m])
  <2>1. \A i \in 1 .. (m + n) : c[i] = IF i <= m THEN s[i] ELSE t[i - m]
    BY <1>1, <1>2, ConcatProperties
  <2> QED BY <2>1
<1>6. ToSet(c) = ToSet(s) \cup ToSet(t)
  <2>1. ASSUME NEW x \in ToSet(c) PROVE x \in ToSet(s) \cup ToSet(t)
    BY <1>4, <1>5 DEF ToSet
  <2>2. ASSUME NEW x \in ToSet(s) \cup ToSet(t) PROVE x \in ToSet(c)
    <3>1. CASE x \in ToSet(s)
      BY <3>1, <1>4, <1>5 DEF ToSet
    <3>2. CASE x \in ToSet(t)
      BY <3>2, <1>4, <1>5 DEF ToSet
    <3> QED BY <3>1, <3>2
  <2> QED BY <2>1, <2>2
<1>7. ASSUME Once(s), Once(t), Ids(s) \cap Ids(t) = {},
             NEW i \in 1 .. (m + n), NEW j \in 1 .. (m + n), c[i].id = c[j].id
      PROVE  i = j
  <2>1. /\ \A k \in 1 .. m : s[k].id \in Ids(s)
        /\ \A k \in 1 .. n : t[k].id \in Ids(t)
    BY <1>4 DEF Ids, ToSet
  <2>2. CASE i \in 1 .. m /\ j \in 1 .. m
    BY <1>4, <1>5, <1>7, <2>2 DEF Once
  <2>3. CASE i - m \in 1 .. n /\ j - m \in 1 .. n /\ c[i] = t[i - m] /\ c[j] = t[j - m]
    <3>1. i - m = j - m
      BY <1>4, <1>7, <2>3 DEF Once
    <3> QED BY <3>1
  <2>4. CASE i \in 1 .. m /\ j - m \in 1 .. n /\ c[j] = t[j - m]
    BY <1>5, <1>7, <2>1, <2>4
  <2>5. CASE j \in 1 .. m /\ i - m \in 1 .. n /\ c[i] = t[i - m]
    BY <1>5, <1>7, <2>1, <2>5
  <2> QED BY <1>5, <2>2, <2>3, <2>4, <2>5
<1>8. Once(s) /\ Once(t) /\ Ids(s) \cap Ids(t) = {} => Once(c)
  BY <1>4, <1>7 DEF Once
<1> QED BY <1>2, <1>3, <1>6, <1>8

\* Two parts of a list share no record of an event that is in it once.
LEMMA SplitFacts ==
  ASSUME NEW S, NEW s \in Seq(S), NEW k \in 0 .. Len(s)
  PROVE  LET front == SubSeq(s, 1, k)
             back  == SubSeq(s, k + 1, Len(s))
         IN  /\ front \in Seq(S) /\ back \in Seq(S)
             /\ ToSet(front) \cup ToSet(back) = ToSet(s)
             /\ Once(s) => Once(front) /\ Once(back) /\ Ids(front) \cap Ids(back) = {}
<1>1. PICK n \in Nat : n = Len(s)
  OBVIOUS
<1>2. PICK f, b : f = SubSeq(s, 1, k) /\ b = SubSeq(s, k + 1, n)
  OBVIOUS
<1>3. k \in Nat /\ k <= n /\ DOMAIN s = 1 .. n /\ \A i \in 1 .. n : s[i] \in S
  BY <1>1
<1>4. f \in Seq(S) /\ Len(f) = k /\ \A i \in 1 .. k : f[i] = s[i]
  BY <1>2, <1>3, SubSeqProperties
<1>5. b \in Seq(S) /\ Len(b) = n - k /\ \A i \in 1 .. n - k : b[i] = s[k + i]
  BY <1>2, <1>3, SubSeqProperties
<1>6. DOMAIN f = 1 .. k /\ DOMAIN b = 1 .. n - k
  BY <1>4, <1>5
<1>7. /\ \A i \in 1 .. n - k : k + i \in 1 .. n
      /\ \A i \in 1 .. n : i \in 1 .. k \/ (i - k \in 1 .. n - k /\ b[i - k] = s[i])
      /\ 1 .. k \subseteq 1 .. n
  BY <1>3, <1>5
<1>8. ToSet(f) \cup ToSet(b) = ToSet(s)
  <2>1. ToSet(f) \subseteq ToSet(s)
    BY <1>3, <1>4, <1>6, <1>7 DEF ToSet
  <2>2. ToSet(b) \subseteq ToSet(s)
    BY <1>3, <1>5, <1>6, <1>7 DEF ToSet
  <2>3. ASSUME NEW x \in ToSet(s) PROVE x \in ToSet(f) \cup ToSet(b)
    <3>1. PICK i \in 1 .. n : x = s[i]
      BY <1>3 DEF ToSet
    <3>2. CASE i \in 1 .. k
      BY <1>4, <1>6, <3>1, <3>2 DEF ToSet
    <3>3. CASE i - k \in 1 .. n - k /\ b[i - k] = s[i]
      BY <1>6, <3>1, <3>3 DEF ToSet
    <3> QED BY <1>7, <3>2, <3>3
  <2> QED BY <2>1, <2>2, <2>3
<1>9. ASSUME Once(s)
      PROVE  Once(f) /\ Once(b) /\ Ids(f) \cap Ids(b) = {}
  <2>1. \A i, j \in 1 .. n : s[i].id = s[j].id => i = j
    BY <1>3, <1>9 DEF Once
  <2>2. Once(f)
    BY <1>4, <1>6, <1>7, <2>1 DEF Once
  <2>3. ASSUME NEW i \in 1 .. n - k, NEW j \in 1 .. n - k, b[i].id = b[j].id
        PROVE  i = j
    <3>1. /\ k + i \in 1 .. n /\ k + j \in 1 .. n
          /\ s[k + i].id = s[k + j].id
      BY <1>5, <1>7, <2>3
    <3>2. k + i = k + j
      BY <2>1, <3>1
    <3> QED BY <1>3, <3>2
  <2>4. ASSUME NEW i \in 1 .. k, NEW j \in 1 .. n - k, f[i].id = b[j].id
        PROVE  FALSE
    <3>1. /\ i \in 1 .. n /\ k + j \in 1 .. n
          /\ s[i].id = s[k + j].id
      BY <1>4, <1>5, <1>7, <2>4
    <3>2. i = k + j
      BY <2>1, <3>1
    <3> QED BY <1>3, <3>2
  <2>5. Ids(f) \cap Ids(b) = {}
    BY <1>6, <2>4 DEF Ids, ToSet
  <2> QED BY <1>6, <2>2, <2>3, <2>5 DEF Once
<1> QED BY <1>1, <1>2, <1>4, <1>5, <1>8, <1>9

LEMMA HeadTailFacts ==
  ASSUME NEW S, NEW s \in Seq(S), s # <<>>
  PROVE  /\ Head(s) \in S /\ Tail(s) \in Seq(S)
         /\ ToSet(s) = {Head(s)} \cup ToSet(Tail(s))
         /\ Ids(s) = {Head(s).id} \cup Ids(Tail(s))
         /\ Once(s) => Once(Tail(s)) /\ Head(s).id \notin Ids(Tail(s))
<1>1. PICK n \in Nat \ {0} : n = Len(s)
  BY EmptySeq
<1>2. PICK t : t = Tail(s)
  OBVIOUS
<1>3. /\ DOMAIN s = 1 .. n /\ Head(s) = s[1] /\ \A i \in 1 .. n : s[i] \in S
      /\ t \in Seq(S) /\ Len(t) = n - 1 /\ \A i \in 1 .. n - 1 : t[i] = s[i + 1]
  BY <1>1, <1>2, HeadTailProperties
<1>4. DOMAIN t = 1 .. n - 1
  BY <1>3
<1>5. /\ \A i \in 1 .. n - 1 : i + 1 \in 1 .. n /\ i + 1 # 1
      /\ \A i \in 1 .. n : i = 1 \/ (i - 1 \in 1 .. n - 1 /\ t[i - 1] = s[i])
      /\ 1 \in 1 .. n
  BY <1>3
<1>6. ToSet(s) = {s[1]} \cup ToSet(t)
  <2>0. ASSUME NEW i \in 1 .. n - 1
        PROVE  t[i] \in ToSet(s)
    <3>1. t[i] = s[i + 1] /\ i + 1 \in DOMAIN s
      BY <1>3, <1>5
    <3> QED BY <3>1 DEF ToSet
  <2>1. {s[1]} \cup ToSet(t) \subseteq ToSet(s)
    <3>1. ToSet(t) \subseteq ToSet(s)
      BY <1>4, <2>0 DEF ToSet
    <3>2. s[1] \in ToSet(s)
      BY <1>3, <1>5 DEF ToSet
    <3> QED BY <3>1, <3>2
  <2>2. ASSUME NEW i \in 1 .. n PROVE s[i] \in {s[1]} \cup ToSet(t)
    BY <1>4, <1>5 DEF ToSet
  <2>3. ToSet(s) \subseteq {s[1]} \cup ToSet(t)
    BY <1>3, <2>2 DEF ToSet
  <2> QED BY <2>1, <2>3
<1>7. Ids(s) = {s[1].id} \cup Ids(t)
  BY <1>6 DEF Ids
<1>8. ASSUME Once(s)
      PROVE  Once(t) /\ s[1].id \notin Ids(t)
  <2>1. \A i, j \in 1 .. n : s[i].id = s[j].id => i = j
    BY <1>3, <1>8 DEF Once
  <2>2. ASSUME NEW i \in 1 .. n - 1, NEW j \in 1 .. n - 1, t[i].id = t[j].id
        PROVE  i = j
    <3>1. /\ i + 1 \in 1 .. n /\ j + 1 \in 1 .. n
          /\ s[i + 1].id = s[j + 1].id
      BY <1>3, <1>5, <2>2
    <3>2. i + 1 = j + 1
      BY <2>1, <3>1
    <3> QED BY <3>2
  <2>3. \A i \in 1 .. n - 1 : t[i].id # s[1].id
    BY <1>3, <1>5, <2>1
  <2>4. s[1].id \notin Ids(t)
    BY <1>4, <2>3 DEF Ids, ToSet
  <2> QED BY <1>4, <2>2, <2>4 DEF Once
<1> QED BY <1>2, <1>3, <1>6, <1>7, <1>8

LEMMA AppendFacts ==
  ASSUME NEW S, NEW s \in Seq(S), NEW r \in S
  PROVE  /\ Append(s, r) \in Seq(S)
         /\ ToSet(Append(s, r)) = ToSet(s) \cup {r}
         /\ Ids(Append(s, r)) = Ids(s) \cup {r.id}
         /\ Once(s) /\ r.id \notin Ids(s) => Once(Append(s, r))
<1>1. PICK n \in Nat : n = Len(s)
  OBVIOUS
<1>2. PICK a : a = Append(s, r)
  OBVIOUS
<1>3. /\ a \in Seq(S) /\ Len(a) = n + 1 /\ a[n + 1] = r /\ \A i \in 1 .. n : a[i] = s[i]
      /\ DOMAIN s = 1 .. n
  BY <1>1, <1>2
<1>4. DOMAIN a = 1 .. n + 1 /\ 1 .. n + 1 = (1 .. n) \cup {n + 1}
  BY <1>3
<1>5. ToSet(a) = ToSet(s) \cup {r}
  BY <1>3, <1>4 DEF ToSet
<1>6. Ids(a) = Ids(s) \cup {r.id}
  BY <1>5 DEF Ids
<1>7. ASSUME Once(s), r.id \notin Ids(s)
      PROVE  Once(a)
  <2>1. \A i \in 1 .. n : s[i].id # r.id
    BY <1>3, <1>7 DEF Ids, ToSet
  <2>2. \A i, j \in 1 .. n : s[i].id = s[j].id => i = j
    BY <1>3, <1>7 DEF Once
  <2> QED BY <1>3, <1>4, <2>1, <2>2 DEF Once
<1> QED BY <1>2, <1>3, <1>5, <1>6, <1>7

LEMMA EmptyFacts == Once(<<>>) /\ ToSet(<<>>) = {} /\ Ids(<<>>) = {}
BY DEF Once, ToSet, Ids

\* What updateEvents pushes: the failed records that were retried few times.
LEMMA AgainFacts ==
  ASSUME NEW s \in Seq(QueueRecord), NEW f \in InOrder(Retried(s)), Once(s)
  PROVE  /\ Again(s, f) \in Seq(QueueRecord) /\ Once(Again(s, f))
         /\ \A a \in ToSet(Again(s, f)) : \E r \in ToSet(s) :
              r.retryCount <= RetryLimit /\ a.id = r.id /\ a.retryCount = r.retryCount + 1
         /\ \A r \in ToSet(s) : r.retryCount <= RetryLimit => r.id \in Ids(Again(s, f))
<1>1. PICK K : K = Retried(s)
  OBVIOUS
<1>2. K \subseteq DOMAIN s /\ DOMAIN s = 1 .. Len(s) /\ Len(s) \in Nat
  BY <1>1 DEF Retried
<1>3. IsFiniteSet(K) /\ Cardinality(K) \in Nat
  <2>1. IsFiniteSet(1 .. Len(s))
    BY <1>2, FS_Interval
  <2>2. K \in SUBSET (1 .. Len(s))
    BY <1>2
  <2> QED BY <2>1, <2>2, FS_Subset, FS_CardinalityType
<1>4. PICK n \in Nat : n = Cardinality(K)
  BY <1>3
<1>5. /\ f \in [1 .. n -> K]
      /\ \A i, j \in 1 .. n : f[i] = f[j] => i = j
      /\ \A k \in K : \E i \in 1 .. n : f[i] = k
  BY <1>1, <1>4 DEF InOrder, Bijection, Injection, Surjection, IsInjective
<1>6. PICK a : a = Again(s, f)
  OBVIOUS
<1>7. \A i \in 1 .. n : /\ f[i] \in K /\ s[f[i]] \in QueueRecord
                        /\ f[i] \in DOMAIN s /\ s[f[i]] \in ToSet(s)
                        /\ s[f[i]].retryCount <= RetryLimit
  BY <1>1, <1>2, <1>5 DEF Retried, ToSet
<1>8. a = [i \in 1 .. n |-> [s[f[i]] EXCEPT !.retryCount = @ + 1]]
  BY <1>5, <1>6 DEF Again
<1>9. ASSUME NEW i \in 1 .. n
      PROVE  /\ a[i] \in QueueRecord /\ a[i].id = s[f[i]].id
             /\ a[i].retryCount = s[f[i]].retryCount + 1
  <2>1. PICK r : r = s[f[i]]
    OBVIOUS
  <2>2. r \in QueueRecord /\ a[i] = [r EXCEPT !.retryCount = @ + 1]
    BY <1>7, <1>8, <2>1
  <2>3. a[i] \in QueueRecord /\ a[i].id = r.id /\ a[i].retryCount = r.retryCount + 1
    BY <2>2 DEF QueueRecord
  <2> QED BY <2>1, <2>3
<1>10. a \in Seq(QueueRecord) /\ DOMAIN a = 1 .. n
  BY <1>8, <1>9
<1>11. Once(a)
  <2>1. ASSUME NEW i \in 1 .. n, NEW j \in 1 .. n, a[i].id = a[j].id
        PROVE  i = j
    <3>1. f[i] = f[j]
      BY <1>7, <1>9, <2>1 DEF Once
    <3> QED BY <1>5, <3>1
  <2> QED BY <1>10, <2>1 DEF Once
<1>12. ASSUME NEW x \in ToSet(a)
       PROVE  \E r \in ToSet(s) :
                r.retryCount <= RetryLimit /\ x.id = r.id /\ x.retryCount = r.retryCount + 1
  <2>1. PICK i \in 1 .. n : x = a[i]
    BY <1>10 DEF ToSet
  <2> QED BY <1>7, <1>9, <2>1
<1>13. ASSUME NEW r \in ToSet(s), r.retryCount <= RetryLimit
       PROVE  r.id \in Ids(a)
  <2>1. PICK k \in DOMAIN s : r = s[k]
    BY DEF ToSet
  <2>2. k \in K
    BY <1>1, <1>13, <2>1 DEF Retried
  <2>3. PICK i \in 1 .. n : f[i] = k
    BY <1>5, <2>2
  <2>4. a[i] \in ToSet(a) /\ a[i].id = r.id
    BY <1>9, <1>10, <2>1, <2>3 DEF ToSet
  <2> QED BY <2>4 DEF Ids
<1> QED BY <1>6, <1>10, <1>11, <1>12, <1>13

-----------------------------------------------------------------------------
(* The invariant.                                                           *)

\* Every event that is to be processed has one record.
Apart ==
  /\ Once(queue)
  /\ \A w \in Server, t \in Tick :
       /\ Once(tick[w][t].rest) /\ Once(tick[w][t].failed)
       /\ Ids(tick[w][t].rest) \cap Ids(tick[w][t].failed) = {}
       /\ Ids(queue) \cap Held(w, t) = {}
  /\ \A w, v \in Server, t, u \in Tick :
       w # v \/ t # u => Held(w, t) \cap Held(v, u) = {}

\* A record says how often its event was tried, one time less if it has
\* just failed.
Tried(r, n) ==
  /\ r.id \in 1 .. enqueued /\ r.id \notin done
  /\ tries[r.id] = r.retryCount + n
  /\ r.retryCount <= RetryLimit + 1

Counts ==
  /\ \A r \in ToSet(queue) : Tried(r, 0)
  /\ \A w \in Server, t \in Tick :
       /\ \A r \in ToSet(tick[w][t].rest) : Tried(r, 0)
       /\ \A r \in ToSet(tick[w][t].failed) : Tried(r, 1)
  /\ \A e \in Event : e > enqueued => tries[e] = 0

Present(e) == e \in Ids(queue) \/ \E w \in Server, t \in Tick : e \in Held(w, t)

\* An event that has no record came to an end.
Ends ==
  \A e \in 1 .. enqueued :
    Present(e) \/ e \in done \/ e \in lost \/ tries[e] = RetryLimit + 2

WorkerInv == WorkerTypeOK /\ Apart /\ Counts /\ Ends

LEMMA TickTypes ==
  ASSUME WorkerTypeOK, NEW w \in Server, NEW t \in Tick
  PROVE  /\ tick[w][t].rest \in Seq(QueueRecord) /\ tick[w][t].failed \in Seq(QueueRecord)
         /\ tick[w][t].busy \in BOOLEAN
         /\ tick[w][t] = [busy |-> tick[w][t].busy, rest |-> tick[w][t].rest,
                          failed |-> tick[w][t].failed]
BY DEF WorkerTypeOK

TickState == [busy : BOOLEAN, rest : Seq(QueueRecord), failed : Seq(QueueRecord)]

\* One tick's state becomes x.
Becomes(w, t, x) ==
  /\ tick' \in [Server -> [Tick -> TickState]]
  /\ tick'[w][t] = x
  /\ \A v \in Server, u \in Tick : w # v \/ t # u => tick'[v][u] = tick[v][u]

LEMMA IdleIs == /\ Idle \in TickState
                /\ Idle.rest = <<>> /\ Idle.failed = <<>> /\ Idle.busy = FALSE
BY EmptySeq DEF Idle, TickState

LEMMA Updated ==
  ASSUME NEW cur \in TickState, NEW a \in Seq(QueueRecord), NEW b \in Seq(QueueRecord),
         NEW x \in TickState, x.busy = cur.busy, x.rest = a, x.failed = b
  PROVE  [cur EXCEPT !.rest = a, !.failed = b] = x
<1>1. PICK y : y = [cur EXCEPT !.rest = a, !.failed = b]
  OBVIOUS
<1>2. y \in TickState
  BY <1>1 DEF TickState
<1>3. y.busy = cur.busy /\ y.rest = a /\ y.failed = b
  BY <1>1 DEF TickState
<1>4. /\ x = [busy |-> x.busy, rest |-> x.rest, failed |-> x.failed]
      /\ y = [busy |-> y.busy, rest |-> y.rest, failed |-> y.failed]
  BY <1>2 DEF TickState
<1>5. x.busy = y.busy /\ x.rest = y.rest /\ x.failed = y.failed
  BY <1>3
<1> QED BY <1>1, <1>4, <1>5, Zenon

LEMMA TickBecomes ==
  ASSUME WorkerTypeOK, NEW w \in Server, NEW t \in Tick, NEW x \in TickState,
         tick' = [tick EXCEPT ![w][t] = x]
  PROVE  Becomes(w, t, x)
<1>1. tick \in [Server -> [Tick -> TickState]]
  BY DEF WorkerTypeOK, TickState
<1> QED BY <1>1 DEF Becomes

\* One tick takes records from the list or gives some back.
LEMMA OneTick ==
  ASSUME WorkerInv, NEW w \in Server, NEW t \in Tick, NEW x, NEW q,
         Becomes(w, t, x), queue' = q,
         Once(q), Once(x.rest), Once(x.failed), Ids(x.rest) \cap Ids(x.failed) = {},
         Ids(q) \cap (Ids(x.rest) \cup Ids(x.failed)) = {},
         Ids(q) \cup Ids(x.rest) \cup Ids(x.failed) \subseteq Ids(queue) \cup Held(w, t)
  PROVE  Apart'
<1>2. /\ tick'[w][t] = x
      /\ \A v \in Server, u \in Tick : w # v \/ t # u => tick'[v][u] = tick[v][u]
  BY DEF Becomes
<1>3. /\ Held(w, t)' = Ids(x.rest) \cup Ids(x.failed)
      /\ \A v \in Server, u \in Tick : w # v \/ t # u => Held(v, u)' = Held(v, u)
  BY <1>2 DEF Held
<1>4. ASSUME NEW v \in Server, NEW u \in Tick
      PROVE  /\ Once(tick'[v][u].rest) /\ Once(tick'[v][u].failed)
             /\ Ids(tick'[v][u].rest) \cap Ids(tick'[v][u].failed) = {}
  BY <1>2 DEF WorkerInv, Apart
<1>5. ASSUME NEW v \in Server, NEW u \in Tick, w # v \/ t # u
      PROVE  (Ids(queue) \cup Held(w, t)) \cap Held(v, u) = {}
  BY <1>5 DEF WorkerInv, Apart
<1>6. ASSUME NEW v \in Server, NEW u \in Tick
      PROVE  Ids(queue') \cap Held(v, u)' = {}
  <2>1. CASE w # v \/ t # u
    BY <1>3, <1>5, <2>1
  <2>2. CASE w = v /\ t = u
    BY <1>3, <2>2
  <2> QED BY <2>1, <2>2
<1>7. ASSUME NEW v \in Server, NEW u \in Tick, NEW y \in Server, NEW z \in Tick, v # y \/ u # z
      PROVE  Held(v, u)' \cap Held(y, z)' = {}
  <2>1. CASE w = v /\ t = u
    BY <1>3, <1>5, <1>7, <2>1
  <2>2. CASE w = y /\ t = z
    BY <1>3, <1>5, <1>7, <2>2
  <2>3. CASE (w # v \/ t # u) /\ (w # y \/ t # z)
    BY <1>3, <1>7, <2>3 DEF WorkerInv, Apart
  <2> QED BY <2>1, <2>2, <2>3
<1> QED BY <1>4, <1>6, <1>7 DEF Apart

\* The ids of the records that are about.
LEMMA IdRange ==
  ASSUME WorkerInv
  PROVE  /\ \A e \in Ids(queue) : e \in 1 .. enqueued /\ e \in Event /\ e \notin done
         /\ \A w \in Server, t \in Tick : \A e \in Held(w, t) :
              e \in 1 .. enqueued /\ e \in Event /\ e \notin done
<1>1. enqueued \in 0 .. MaxEvents /\ MaxEvents \in Nat
  BY WorkerAssumption DEF WorkerInv, WorkerTypeOK
<1>2. ASSUME NEW r, NEW n, Tried(r, n)
      PROVE  r.id \in 1 .. enqueued /\ r.id \in Event /\ r.id \notin done
  BY <1>1, <1>2 DEF Tried, Event
<1>3. \A e \in Ids(queue) : e \in 1 .. enqueued /\ e \in Event /\ e \notin done
  BY <1>2 DEF WorkerInv, Counts, Ids
<1>4. ASSUME NEW w \in Server, NEW t \in Tick, NEW e \in Held(w, t)
      PROVE  e \in 1 .. enqueued /\ e \in Event /\ e \notin done
  <2>1. CASE e \in Ids(tick[w][t].rest)
    BY <1>2, <2>1 DEF WorkerInv, Counts, Ids
  <2>2. CASE e \in Ids(tick[w][t].failed)
    BY <1>2, <2>2 DEF WorkerInv, Counts, Ids
  <2> QED BY <1>4, <2>1, <2>2 DEF Held
<1> QED BY <1>3, <1>4

LEMMA EnqueueJobsStep ==
  ASSUME WorkerInv, NEW n \in 1 .. MaxEvents, EnqueueJobs(n)
  PROVE  WorkerInv'
<1> DEFINE new == [i \in 1 .. n |-> [id |-> enqueued + i, retryCount |-> 0]]
<1>1. /\ enqueued \in Nat /\ n \in Nat \ {0} /\ enqueued + n <= MaxEvents /\ MaxEvents \in Nat
      /\ enqueued' = enqueued + n /\ queue' = Reverse(new) \o queue
      /\ queue \in Seq(QueueRecord)
      /\ UNCHANGED <<tick, up, crashes, done, tries, lost>>
  BY WorkerAssumption DEF WorkerInv, WorkerTypeOK, EnqueueJobs, Pushed
<1>2. /\ new \in Seq(QueueRecord) /\ DOMAIN new = 1 .. n
      /\ \A i \in 1 .. n : new[i].id = enqueued + i /\ new[i].retryCount = 0
  <2>1. \A i \in 1 .. n : [id |-> enqueued + i, retryCount |-> 0] \in QueueRecord
    BY <1>1 DEF QueueRecord, Event
  <2>2. new \in [1 .. n -> QueueRecord]
    BY <2>1
  <2>3. \A i \in 1 .. n : new[i].id = enqueued + i /\ new[i].retryCount = 0
    OBVIOUS
  <2> HIDE DEF new
  <2> QED BY <1>1, <2>2, <2>3
<1> HIDE DEF new
<1>3. Once(new)
  BY <1>1, <1>2 DEF Once
<1>4. \A r \in ToSet(new) : /\ r.retryCount = 0 /\ r.id \in Event
                             /\ r.id > enqueued /\ r.id \in 1 .. enqueued + n
  BY <1>1, <1>2 DEF ToSet, Event
<1>5. /\ Reverse(new) \in Seq(QueueRecord) /\ ToSet(Reverse(new)) = ToSet(new)
      /\ Once(Reverse(new))
  BY <1>2, <1>3, ReverseFacts
<1>6. Ids(Reverse(new)) = Ids(new) /\ \A e \in Ids(new) : e > enqueued
  BY <1>4, <1>5 DEF Ids
<1>7. Ids(Reverse(new)) \cap Ids(queue) = {}
  BY <1>1, <1>6, IdRange
<1>8. Once(queue)
  BY DEF WorkerInv, Apart
<1>9. /\ queue' \in Seq(QueueRecord) /\ Once(queue')
      /\ ToSet(queue') = ToSet(new) \cup ToSet(queue)
  BY <1>1, <1>5, <1>7, <1>8, ConcatFacts
<1>10. Ids(queue') = Ids(new) \cup Ids(queue)
  BY <1>9 DEF Ids
<1>11. \A w \in Server, t \in Tick : Held(w, t)' = Held(w, t)
  BY <1>1 DEF Held
<1>12. WorkerTypeOK'
  <2>1. enqueued' \in 0 .. MaxEvents /\ 1 .. enqueued \subseteq 1 .. enqueued'
    BY <1>1
  <2> QED BY <1>1, <1>9, <2>1 DEF WorkerInv, WorkerTypeOK
<1>13. Apart'
  <2>1. \A w \in Server, t \in Tick : Ids(queue') \cap Held(w, t) = {}
    <3> TAKE w \in Server, t \in Tick
    <3>1. Ids(queue) \cap Held(w, t) = {}
      BY DEF WorkerInv, Apart
    <3>2. \A e \in Held(w, t) : e \in 1 .. enqueued
      BY IdRange
    <3>3. Ids(new) \cap Held(w, t) = {}
      BY <1>1, <1>6, <3>2
    <3> QED BY <1>10, <3>1, <3>3
  <2>2. ASSUME NEW w \in Server, NEW t \in Tick
        PROVE  /\ Once(tick'[w][t].rest) /\ Once(tick'[w][t].failed)
               /\ Ids(tick'[w][t].rest) \cap Ids(tick'[w][t].failed) = {}
               /\ Ids(queue') \cap Held(w, t)' = {}
    BY <1>1, <1>11, <2>1 DEF WorkerInv, Apart
  <2>3. ASSUME NEW w \in Server, NEW v \in Server, NEW t \in Tick, NEW u \in Tick, w # v \/ t # u
        PROVE  Held(w, t)' \cap Held(v, u)' = {}
    BY <1>11, <2>3 DEF WorkerInv, Apart
  <2> QED BY <1>9, <2>2, <2>3 DEF Apart
<1>14. Counts'
  <2>1. ASSUME NEW r, NEW k, Tried(r, k)
        PROVE  Tried(r, k)'
    BY <1>1, <2>1 DEF Tried
  <2>2. ASSUME NEW r \in ToSet(new)
        PROVE  Tried(r, 0)'
    <3>1. r.retryCount = 0 /\ tries[r.id] = 0
      BY <1>4 DEF WorkerInv, Counts
    <3>2. r.id \notin done
      BY <1>1, <1>4 DEF WorkerInv, WorkerTypeOK
    <3>3. 0 = 0 + 0 /\ 0 <= RetryLimit + 1
      BY WorkerAssumption
    <3> QED BY <1>1, <1>4, <3>1, <3>2, <3>3 DEF Tried
  <2>3. \A r \in ToSet(queue') : Tried(r, 0)'
    BY <1>9, <2>1, <2>2 DEF WorkerInv, Counts
  <2>4. \A w \in Server, t \in Tick :
          /\ \A r \in ToSet(tick'[w][t].rest) : Tried(r, 0)'
          /\ \A r \in ToSet(tick'[w][t].failed) : Tried(r, 1)'
    BY <1>1, <2>1 DEF WorkerInv, Counts
  <2>5. \A e \in Event : e > enqueued' => tries'[e] = 0
    BY <1>1 DEF WorkerInv, Counts, Event
  <2> QED BY <2>3, <2>4, <2>5 DEF Counts
<1>15. Ends'
  <2>1. ASSUME NEW e \in 1 .. enqueued', e \notin 1 .. enqueued
        PROVE  e \in Ids(queue')
    <3>1. e - enqueued \in 1 .. n /\ enqueued + (e - enqueued) = e
      BY <1>1, <2>1
    <3>2. new[e - enqueued].id = e /\ new[e - enqueued] \in ToSet(new)
      BY <1>2, <3>1 DEF ToSet
    <3> QED BY <1>10, <3>2 DEF Ids
  <2>2. ASSUME NEW e \in 1 .. enqueued
        PROVE  Present(e)' \/ e \in done' \/ e \in lost' \/ tries'[e] = RetryLimit + 2
    BY <1>1, <1>10, <1>11 DEF WorkerInv, Ends, Present
  <2> QED BY <2>1, <2>2 DEF Ends, Present
<1> QED BY <1>12, <1>13, <1>14, <1>15 DEF WorkerInv

LEMMA RetrieveStep ==
  ASSUME WorkerInv, NEW w \in Server, NEW t \in Tick, Retrieve(w, t)
  PROVE  WorkerInv'
<1> DEFINE x == [busy |-> TRUE, rest |-> Popped, failed |-> <<>>]
<1>1. /\ tick[w][t] = Idle /\ tick' = [tick EXCEPT ![w][t] = x] /\ queue' = Remaining
      /\ UNCHANGED <<up, enqueued, crashes, done, tries, lost>>
  BY DEF WorkerInv, WorkerTypeOK, Retrieve
<1>2. Held(w, t) = {}
  BY <1>1, IdleIs, EmptyFacts DEF Held
<1>3. queue \in Seq(QueueRecord) /\ Once(queue)
  BY DEF WorkerInv, WorkerTypeOK, Apart
<1>4. PICK n \in Nat : n = Len(queue)
  BY <1>3
<1>5. PICK k \in 0 .. n : k = n - Page /\ Page = n - k
  <2>1. Page \in 0 .. n
    BY <1>4, WorkerAssumption DEF Page
  <2>2. n - Page \in 0 .. n /\ Page = n - (n - Page)
    BY <2>1
  <2> QED BY <2>2
<1>6. PICK front, back : front = SubSeq(queue, 1, k) /\ back = SubSeq(queue, k + 1, n)
  OBVIOUS
<1>7. /\ front \in Seq(QueueRecord) /\ back \in Seq(QueueRecord)
      /\ ToSet(front) \cup ToSet(back) = ToSet(queue)
      /\ Once(front) /\ Once(back) /\ Ids(front) \cap Ids(back) = {}
  BY <1>3, <1>4, <1>6, SplitFacts
<1>8. Popped = Reverse(back)
  <2>1. Len(queue) - Page + 1 = k + 1
    BY <1>4, <1>5
  <2> QED BY <1>4, <1>6, <2>1 DEF Popped
<1>9. /\ Popped \in Seq(QueueRecord) /\ Len(Popped) = Len(back)
      /\ ToSet(Popped) = ToSet(back) /\ Once(Popped)
  BY <1>7, <1>8, ReverseFacts
<1>10. Remaining = front
  <2>1. \A i \in k + 1 .. n : queue[i] \in QueueRecord
    BY <1>3, <1>4
  <2>2. Len(back) = IF k + 1 <= n THEN n - (k + 1) + 1 ELSE 0
    BY <1>6, <2>1, SubSeqProperties
  <2>3. n - Len(Popped) = k
    BY <1>9, <2>2
  <2> QED BY <1>4, <1>6, <2>3 DEF Remaining
<1>11. Ids(Popped) = Ids(back) /\ Ids(front) \cup Ids(back) = Ids(queue)
  BY <1>7, <1>9 DEF Ids
<1>12. /\ x \in TickState
       /\ x.rest = Popped /\ x.failed = <<>> /\ x.busy
  BY <1>9 DEF TickState
<1> HIDE DEF x
<1>13. /\ queue' = front /\ front \in Seq(QueueRecord)
       /\ Once(front) /\ Once(x.rest) /\ Once(x.failed)
       /\ Ids(x.rest) \cap Ids(x.failed) = {}
       /\ Ids(front) \cap (Ids(x.rest) \cup Ids(x.failed)) = {}
       /\ Ids(front) \cup Ids(x.rest) \cup Ids(x.failed) \subseteq Ids(queue) \cup Held(w, t)
  BY <1>1, <1>7, <1>9, <1>10, <1>11, <1>12, EmptyFacts
<1>14. Becomes(w, t, x)
  BY <1>1, <1>12, TickBecomes DEF WorkerInv
<1>15. /\ tick' \in [Server -> [Tick -> TickState]] /\ tick'[w][t] = x
      /\ \A v \in Server, u \in Tick : w # v \/ t # u => tick'[v][u] = tick[v][u]
  BY <1>14 DEF Becomes
<1>16. Apart'
  BY <1>14, <1>13, OneTick
<1>17. WorkerTypeOK'
  <2>1. \A v \in Server, u \in Tick : ~tick'[v][u].busy => tick'[v][u] = Idle
    <3> SUFFICES ASSUME NEW v \in Server, NEW u \in Tick, ~tick'[v][u].busy
                 PROVE  tick'[v][u] = Idle
      OBVIOUS
    <3>1. w # v \/ t # u
      BY <1>12, <1>15
    <3>2. tick'[v][u] = tick[v][u]
      BY <1>15, <3>1
    <3> QED BY <3>2 DEF WorkerInv, WorkerTypeOK
  <2> QED BY <1>1, <1>13, <1>15, <2>1 DEF WorkerInv, WorkerTypeOK, TickState
<1>18. Counts'
  <2>1. \A r, m : Tried(r, m)' = Tried(r, m)
    BY <1>1 DEF Tried
  <2>2. \A r \in ToSet(front) \cup ToSet(back) : Tried(r, 0)
    BY <1>7 DEF WorkerInv, Counts
  <2>3. ASSUME NEW v \in Server, NEW u \in Tick
        PROVE  /\ \A r \in ToSet(tick'[v][u].rest) : Tried(r, 0)
               /\ \A r \in ToSet(tick'[v][u].failed) : Tried(r, 1)
    <3>1. CASE w = v /\ t = u
      BY <1>9, <1>12, <1>15, <2>2, <3>1, EmptyFacts
    <3>2. CASE w # v \/ t # u
      BY <1>15, <3>2 DEF WorkerInv, Counts
    <3> QED BY <3>1, <3>2
  <2>4. \A r \in ToSet(queue') : Tried(r, 0)
    BY <1>1, <1>10, <2>2
  <2>5. \A e \in Event : e > enqueued' => tries'[e] = 0
    BY <1>1 DEF WorkerInv, Counts
  <2> QED BY <2>1, <2>3, <2>4, <2>5 DEF Counts
<1>19. Ends'
  <2>1. ASSUME NEW e, Present(e)
        PROVE  Present(e)'
    <3>1. CASE e \in Ids(queue)
      <4>1. CASE e \in Ids(front)
        BY <1>1, <1>10, <4>1 DEF Present
      <4>2. CASE e \in Ids(back)
        <5>1. e \in Held(w, t)'
          BY <1>11, <1>12, <1>15, <4>2 DEF Held
        <5> QED BY <5>1 DEF Present
      <4> QED BY <1>11, <3>1, <4>1, <4>2
    <3>2. ASSUME NEW v \in Server, NEW u \in Tick, e \in Held(v, u)
          PROVE  Present(e)'
      <4>1. w # v \/ t # u
        BY <1>2, <3>2
      <4>2. e \in Held(v, u)'
        BY <1>15, <3>2, <4>1 DEF Held
      <4> QED BY <4>2 DEF Present
    <3> QED BY <2>1, <3>1, <3>2 DEF Present
  <2> QED BY <1>1, <2>1 DEF WorkerInv, Ends
<1> QED BY <1>16, <1>17, <1>18, <1>19 DEF WorkerInv

LEMMA ProcessStep ==
  ASSUME WorkerInv, NEW w \in Server, NEW t \in Tick, NEW ok \in BOOLEAN, ProcessNext(w, t, ok)
  PROVE  WorkerInv'
<1>1. PICK r, rest, failed :
        /\ r = Head(tick[w][t].rest) /\ rest = Tail(tick[w][t].rest)
        /\ failed = IF ok THEN tick[w][t].failed ELSE Append(tick[w][t].failed, r)
  OBVIOUS
<1> DEFINE x == [busy |-> tick[w][t].busy, rest |-> rest, failed |-> failed]
<1>2. /\ tick[w][t].rest \in Seq(QueueRecord) /\ tick[w][t].rest # <<>>
      /\ tick[w][t].failed \in Seq(QueueRecord) /\ tick[w][t].busy \in BOOLEAN
  BY TickTypes DEF WorkerInv, ProcessNext
<1>3. /\ tries' = [tries EXCEPT ![r.id] = @ + 1]
      /\ done' = IF ok THEN done \cup {r.id} ELSE done
      /\ UNCHANGED <<queue, up, enqueued, crashes, lost>>
  BY <1>1 DEF ProcessNext
<1>4. /\ r \in QueueRecord /\ rest \in Seq(QueueRecord)
      /\ ToSet(tick[w][t].rest) = {r} \cup ToSet(rest)
      /\ Ids(tick[w][t].rest) = {r.id} \cup Ids(rest)
      /\ Once(rest) /\ r.id \notin Ids(rest)
  BY <1>1, <1>2, HeadTailFacts DEF WorkerInv, Apart
<1>5. Tried(r, 0)
  BY <1>4 DEF WorkerInv, Counts
<1>6. /\ r.id \notin Ids(tick[w][t].failed)
      /\ r.id \notin Ids(queue)
      /\ \A v \in Server, u \in Tick : w # v \/ t # u => r.id \notin Held(v, u)
  BY <1>4 DEF WorkerInv, Apart, Held
<1>7. /\ failed \in Seq(QueueRecord) /\ Once(failed)
      /\ ToSet(failed) = ToSet(tick[w][t].failed) \cup (IF ok THEN {} ELSE {r})
      /\ Ids(failed) = Ids(tick[w][t].failed) \cup (IF ok THEN {} ELSE {r.id})
  <2>1. Once(tick[w][t].failed)
    BY DEF WorkerInv, Apart
  <2>2. CASE ok
    BY <1>1, <1>2, <2>1, <2>2
  <2>3. CASE ~ok
    <3>1. PICK old \in Seq(QueueRecord) : old = tick[w][t].failed
      BY <1>2
    <3>2. failed = Append(old, r)
      BY <1>1, <2>3, <3>1
    <3>3. Once(old) /\ r.id \notin Ids(old) /\ r \in QueueRecord
      BY <1>4, <1>6, <2>1, <3>1
    <3>4. /\ failed \in Seq(QueueRecord) /\ Once(failed)
          /\ ToSet(failed) = ToSet(old) \cup {r}
          /\ Ids(failed) = Ids(old) \cup {r.id}
      BY <3>2, <3>3, AppendFacts
    <3> QED BY <2>3, <3>1, <3>4
  <2> QED BY <2>2, <2>3
<1>8. /\ x \in TickState
      /\ x.rest = rest /\ x.failed = failed /\ x.busy = tick[w][t].busy
  BY <1>2, <1>4, <1>7 DEF TickState
<1> HIDE DEF x
<1>9. /\ Ids(tick[w][t].rest) \cap Ids(tick[w][t].failed) = {}
       /\ Ids(queue) \cap Held(w, t) = {} /\ Once(queue) /\ queue \in Seq(QueueRecord)
       /\ Held(w, t) = Ids(tick[w][t].rest) \cup Ids(tick[w][t].failed)
  BY DEF WorkerInv, Apart, Held, WorkerTypeOK
<1>10. /\ queue' = queue /\ Once(x.rest) /\ Once(x.failed)
       /\ Ids(x.rest) \cap Ids(x.failed) = {}
       /\ Ids(queue) \cap (Ids(x.rest) \cup Ids(x.failed)) = {}
       /\ Ids(queue) \cup Ids(x.rest) \cup Ids(x.failed) \subseteq Ids(queue) \cup Held(w, t)
  BY <1>3, <1>4, <1>6, <1>7, <1>8, <1>9
<1>11. tick' = [tick EXCEPT ![w][t] = x]
  <2>1. tick' = [tick EXCEPT ![w][t].rest = Tail(@),
                             ![w][t].failed = IF ok THEN @ ELSE Append(@, r)]
    BY <1>1 DEF ProcessNext
  <2>2. tick \in [Server -> [Tick -> TickState]]
    BY DEF WorkerInv, WorkerTypeOK, TickState
  <2>3. PICK cur \in TickState : cur = tick[w][t]
    BY <2>2
  <2>4. [cur EXCEPT !.rest = rest, !.failed = failed] = x
    <3>1. /\ rest \in Seq(QueueRecord) /\ failed \in Seq(QueueRecord) /\ x \in TickState
          /\ x.busy = cur.busy /\ x.rest = rest /\ x.failed = failed
      BY <1>4, <1>7, <1>8, <2>3
    <3> QED BY <3>1, Updated, Zenon
  <2>5. tick' = [tick EXCEPT ![w][t] = [cur EXCEPT !.rest = rest, !.failed = failed]]
    BY <1>1, <2>1, <2>2, <2>3
  <2> QED BY <2>4, <2>5
<1>12. Becomes(w, t, x)
  BY <1>11, <1>8, TickBecomes DEF WorkerInv
<1>13. /\ tick' \in [Server -> [Tick -> TickState]] /\ tick'[w][t] = x
      /\ \A v \in Server, u \in Tick : w # v \/ t # u => tick'[v][u] = tick[v][u]
  BY <1>12 DEF Becomes
<1>14. Apart'
  BY <1>12, <1>9, <1>10, OneTick
<1>15. /\ r.id \in 1 .. enqueued /\ r.id \in Event /\ r.id \notin done
       /\ tries \in [Event -> Nat] /\ tries' \in [Event -> Nat]
       /\ tries'[r.id] = tries[r.id] + 1
       /\ \A e \in Event : e # r.id => tries'[e] = tries[e]
  <2>1. tries \in [Event -> Nat] /\ enqueued \in Nat /\ MaxEvents \in Nat /\ enqueued <= MaxEvents
    BY WorkerAssumption DEF WorkerInv, WorkerTypeOK
  <2>2. r.id \in 1 .. enqueued /\ r.id \in Event /\ r.id \notin done
    BY <1>5, <2>1 DEF Tried, Event
  <2> QED BY <1>3, <2>1, <2>2
<1>16. WorkerTypeOK'
  <2>1. tick[w][t].busy
    BY <1>2, IdleIs DEF WorkerInv, WorkerTypeOK
  <2>2. \A v \in Server, u \in Tick : ~tick'[v][u].busy => tick'[v][u] = Idle
    <3> SUFFICES ASSUME NEW v \in Server, NEW u \in Tick, ~tick'[v][u].busy
                 PROVE  tick'[v][u] = Idle
      OBVIOUS
    <3>1. w # v \/ t # u
      BY <1>8, <1>13, <2>1
    <3>2. tick'[v][u] = tick[v][u]
      BY <1>13, <3>1
    <3> QED BY <3>2 DEF WorkerInv, WorkerTypeOK
  <2>3. done' \subseteq 1 .. enqueued'
    BY <1>3, <1>15 DEF WorkerInv, WorkerTypeOK
  <2> QED BY <1>3, <1>10, <1>13, <1>15, <2>2, <2>3 DEF WorkerInv, WorkerTypeOK, TickState
<1>17. ASSUME NEW y, NEW n, Tried(y, n), y.id # r.id
       PROVE  Tried(y, n)'
  <2>1. y.id \in Event
    BY <1>17, WorkerAssumption DEF Tried, WorkerInv, WorkerTypeOK, Event
  <2>2. tries'[y.id] = tries[y.id] /\ y.id \notin done'
    BY <1>3, <1>15, <1>17, <2>1 DEF Tried
  <2> QED BY <1>3, <1>17, <2>2 DEF Tried
<1>18. ~ok => Tried(r, 1)'
  <2>1. tries[r.id] = r.retryCount + 0 /\ r.retryCount \in Nat
    BY <1>4, <1>5 DEF Tried, QueueRecord
  <2>2. tries'[r.id] = r.retryCount + 1
    BY <1>15, <2>1
  <2> QED BY <1>3, <1>5, <2>2 DEF Tried
<1>19. Counts'
  <2>1. \A y \in ToSet(queue') : Tried(y, 0)'
    <3>1. \A y \in ToSet(queue) : Tried(y, 0) /\ y.id # r.id
      BY <1>6 DEF WorkerInv, Counts, Ids
    <3> QED BY <1>3, <1>17, <3>1
  <2>2. ASSUME NEW v \in Server, NEW u \in Tick, w # v \/ t # u
        PROVE  /\ \A y \in ToSet(tick'[v][u].rest) : Tried(y, 0)'
               /\ \A y \in ToSet(tick'[v][u].failed) : Tried(y, 1)'
    <3>1. /\ \A y \in ToSet(tick[v][u].rest) : Tried(y, 0) /\ y.id # r.id
          /\ \A y \in ToSet(tick[v][u].failed) : Tried(y, 1) /\ y.id # r.id
      BY <1>6, <2>2 DEF WorkerInv, Counts, Held, Ids
    <3> QED BY <1>13, <1>17, <2>2, <3>1
  <2>3. \A y \in ToSet(rest) : Tried(y, 0)'
    <3>1. \A y \in ToSet(rest) : Tried(y, 0) /\ y.id # r.id
      BY <1>4 DEF WorkerInv, Counts, Ids
    <3> QED BY <1>17, <3>1
  <2>4. \A y \in ToSet(failed) : Tried(y, 1)'
    <3>1. \A y \in ToSet(tick[w][t].failed) : Tried(y, 1) /\ y.id # r.id
      BY <1>6 DEF WorkerInv, Counts, Ids
    <3>2. \A y \in ToSet(tick[w][t].failed) : Tried(y, 1)'
      BY <1>17, <3>1
    <3> QED BY <1>7, <1>18, <3>2
  <2>5. ASSUME NEW e \in Event, e > enqueued'
        PROVE  tries'[e] = 0
    <3>1. e > enqueued /\ e # r.id
      BY <1>3, <1>15, <2>5 DEF WorkerInv, WorkerTypeOK
    <3> QED BY <1>15, <3>1 DEF WorkerInv, Counts
  <2>6. ASSUME NEW v \in Server, NEW u \in Tick
        PROVE  /\ \A y \in ToSet(tick'[v][u].rest) : Tried(y, 0)'
               /\ \A y \in ToSet(tick'[v][u].failed) : Tried(y, 1)'
    <3>1. CASE w = v /\ t = u
      BY <1>8, <1>13, <2>3, <2>4, <3>1
    <3>2. CASE w # v \/ t # u
      BY <2>2, <3>2
    <3> QED BY <3>1, <3>2
  <2> QED BY <2>1, <2>5, <2>6 DEF Counts
<1>20. Ends'
  <2>1. ASSUME NEW e, Present(e), e # r.id
        PROVE  Present(e)'
    <3>1. CASE e \in Ids(queue)
      BY <1>3, <3>1 DEF Present
    <3>2. ASSUME NEW v \in Server, NEW u \in Tick, e \in Held(v, u)
          PROVE  Present(e)'
      <4>1. e \in Held(v, u)'
        <5>1. CASE w = v /\ t = u
          BY <1>4, <1>7, <1>8, <1>9, <1>13, <2>1, <3>2, <5>1 DEF Held
        <5>2. CASE w # v \/ t # u
          BY <1>13, <3>2, <5>2 DEF Held
        <5> QED BY <5>1, <5>2
      <4> QED BY <4>1 DEF Present
    <3> QED BY <2>1, <3>1, <3>2 DEF Present
  <2>2. CASE ok
    <3>1. r.id \in done'
      BY <1>3, <2>2
    <3>2. \A e \in 1 .. enqueued : e # r.id => e \in Event /\ tries'[e] = tries[e]
      BY <1>15, WorkerAssumption DEF WorkerInv, WorkerTypeOK, Event
    <3> QED BY <1>3, <2>1, <3>1, <3>2 DEF WorkerInv, Ends
  <2>3. CASE ~ok
    <3>1. r.id \in Held(w, t)'
      BY <1>7, <1>8, <1>13, <2>3 DEF Held
    <3>2. Present(r.id)'
      BY <3>1 DEF Present
    <3>3. \A e \in 1 .. enqueued : e # r.id => e \in Event /\ tries'[e] = tries[e]
      BY <1>15, WorkerAssumption DEF WorkerInv, WorkerTypeOK, Event
    <3> QED BY <1>3, <2>1, <3>2, <3>3 DEF WorkerInv, Ends
  <2> QED BY <2>2, <2>3
<1> QED BY <1>14, <1>16, <1>19, <1>20 DEF WorkerInv

LEMMA UpdateStep ==
  ASSUME WorkerInv, NEW w \in Server, NEW t \in Tick, UpdateEvents(w, t)
  PROVE  WorkerInv'
<1>1. PICK s : s = tick[w][t].failed
  OBVIOUS
<1>2. PICK f \in InOrder(Retried(s)) : queue' = Pushed(Again(s, f))
  BY <1>1 DEF UpdateEvents
<1>3. /\ tick[w][t].rest = <<>> /\ tick' = [tick EXCEPT ![w][t] = Idle]
      /\ UNCHANGED <<up, enqueued, crashes, done, tries, lost>>
  BY DEF UpdateEvents, TickEnded
<1>4. s \in Seq(QueueRecord) /\ Once(s) /\ queue \in Seq(QueueRecord) /\ Once(queue)
  BY <1>1, TickTypes DEF WorkerInv, Apart, WorkerTypeOK
<1>5. PICK a : a = Again(s, f)
  OBVIOUS
<1>6. /\ a \in Seq(QueueRecord) /\ Once(a)
      /\ \A y \in ToSet(a) : \E r \in ToSet(s) :
           r.retryCount <= RetryLimit /\ y.id = r.id /\ y.retryCount = r.retryCount + 1
      /\ \A r \in ToSet(s) : r.retryCount <= RetryLimit => r.id \in Ids(a)
  BY <1>4, <1>5, AgainFacts
<1>7. Ids(a) \subseteq Ids(s)
  BY <1>6 DEF Ids
<1>8. Held(w, t) = Ids(s) /\ Ids(queue) \cap Ids(s) = {}
  BY <1>1, <1>3, EmptyFacts DEF WorkerInv, Apart, Held
<1>9. PICK back : back = Reverse(a)
  OBVIOUS
<1>10. back \in Seq(QueueRecord) /\ ToSet(back) = ToSet(a) /\ Once(back)
  BY <1>6, <1>9, ReverseFacts
<1>11. Ids(back) = Ids(a)
  BY <1>10 DEF Ids
<1>12. PICK q : q = back \o queue /\ queue' = q
  BY <1>2, <1>5, <1>9 DEF Pushed
<1>13. Ids(back) \cap Ids(queue) = {}
  BY <1>7, <1>8, <1>11
<1>14. /\ q \in Seq(QueueRecord) /\ ToSet(q) = ToSet(a) \cup ToSet(queue) /\ Once(q)
       /\ queue' = q
  BY <1>4, <1>10, <1>12, <1>13, ConcatFacts
<1>15. Ids(q) = Ids(a) \cup Ids(queue) /\ Ids(queue') = Ids(q)
  BY <1>14 DEF Ids
<1>16. /\ Once(Idle.rest) /\ Once(Idle.failed)
       /\ Ids(Idle.rest) = {} /\ Ids(Idle.failed) = {}
       /\ Idle \in TickState
  BY IdleIs, EmptyFacts
<1>17. /\ Ids(Idle.rest) \cap Ids(Idle.failed) = {}
       /\ Ids(q) \cap (Ids(Idle.rest) \cup Ids(Idle.failed)) = {}
       /\ Ids(q) \cup Ids(Idle.rest) \cup Ids(Idle.failed) \subseteq Ids(queue) \cup Held(w, t)
  BY <1>7, <1>8, <1>15, <1>16
<1>18. Becomes(w, t, Idle)
  BY <1>3, <1>16, TickBecomes DEF WorkerInv
<1>19. /\ tick' \in [Server -> [Tick -> TickState]] /\ tick'[w][t] = Idle
      /\ \A v \in Server, u \in Tick : w # v \/ t # u => tick'[v][u] = tick[v][u]
  BY <1>18 DEF Becomes
<1>20. Apart'
  BY <1>18, <1>14, <1>16, <1>17, OneTick
<1>21. WorkerTypeOK'
  <2>1. \A v \in Server, u \in Tick : ~tick'[v][u].busy => tick'[v][u] = Idle
    <3> SUFFICES ASSUME NEW v \in Server, NEW u \in Tick, ~tick'[v][u].busy
                 PROVE  tick'[v][u] = Idle
      OBVIOUS
    <3>1. CASE w = v /\ t = u
      BY <1>19, <3>1
    <3>2. CASE w # v \/ t # u
      <4>1. tick'[v][u] = tick[v][u]
        BY <1>19, <3>2
      <4> QED BY <4>1 DEF WorkerInv, WorkerTypeOK
    <3> QED BY <3>1, <3>2
  <2> QED BY <1>3, <1>14, <1>19, <2>1 DEF WorkerInv, WorkerTypeOK, TickState
<1>22. Counts'
  <2>1. \A r, n : Tried(r, n)' = Tried(r, n)
    BY <1>3 DEF Tried
  <2>2. ASSUME NEW y \in ToSet(a)
        PROVE  Tried(y, 0)
    <3>1. PICK r \in ToSet(s) :
            r.retryCount <= RetryLimit /\ y.id = r.id /\ y.retryCount = r.retryCount + 1
      BY <1>6
    <3>2. Tried(r, 1) /\ r \in QueueRecord
      BY <1>1, <1>4, ListFacts DEF WorkerInv, Counts
    <3>3. r.retryCount \in Nat /\ RetryLimit \in Nat
      BY <3>2, WorkerAssumption DEF QueueRecord
    <3>4. r.retryCount + 1 = y.retryCount + 0 /\ y.retryCount <= RetryLimit + 1
      BY <3>1, <3>3
    <3> QED BY <3>1, <3>2, <3>4 DEF Tried
  <2>3. \A r \in ToSet(queue') : Tried(r, 0)
    BY <1>14, <2>2 DEF WorkerInv, Counts
  <2>4. ASSUME NEW v \in Server, NEW u \in Tick
        PROVE  /\ \A r \in ToSet(tick'[v][u].rest) : Tried(r, 0)
               /\ \A r \in ToSet(tick'[v][u].failed) : Tried(r, 1)
    <3>1. CASE w = v /\ t = u
      BY <1>19, <3>1, IdleIs, EmptyFacts
    <3>2. CASE w # v \/ t # u
      BY <1>19, <3>2 DEF WorkerInv, Counts
    <3> QED BY <3>1, <3>2
  <2>5. \A e \in Event : e > enqueued' => tries'[e] = 0
    BY <1>3 DEF WorkerInv, Counts
  <2> QED BY <2>1, <2>3, <2>4, <2>5 DEF Counts
<1>23. Ends'
  <2>1. ASSUME NEW e \in 1 .. enqueued, Present(e)
        PROVE  Present(e)' \/ tries[e] = RetryLimit + 2
    <3>1. CASE e \in Ids(queue)
      BY <1>15, <3>1 DEF Present
    <3>2. CASE e \in Held(w, t)
      <4>1. PICK r \in ToSet(s) : e = r.id
        BY <1>8, <3>2 DEF Ids
      <4>2. CASE r.retryCount <= RetryLimit
        BY <1>6, <1>15, <4>1, <4>2 DEF Present
      <4>3. CASE ~(r.retryCount <= RetryLimit)
        <5>1. Tried(r, 1) /\ r \in QueueRecord
          BY <1>1, <1>4, ListFacts DEF WorkerInv, Counts
        <5>2. r.retryCount \in Nat /\ RetryLimit \in Nat
          BY <5>1, WorkerAssumption DEF QueueRecord
        <5>3. tries[e] = r.retryCount + 1 /\ r.retryCount <= RetryLimit + 1
          BY <4>1, <5>1 DEF Tried
        <5> QED BY <4>3, <5>2, <5>3
      <4> QED BY <4>2, <4>3
    <3>3. ASSUME NEW v \in Server, NEW u \in Tick, e \in Held(v, u), w # v \/ t # u
          PROVE  Present(e)'
      <4>1. e \in Held(v, u)'
        BY <1>19, <3>3 DEF Held
      <4> QED BY <4>1 DEF Present
    <3> QED BY <2>1, <3>1, <3>2, <3>3 DEF Present
  <2> QED BY <1>3, <2>1 DEF WorkerInv, Ends
<1> QED BY <1>20, <1>21, <1>22, <1>23 DEF WorkerInv

LEMMA DieStep ==
  ASSUME WorkerInv, NEW w \in Server, WorkerDies(w)
  PROVE  WorkerInv'
<1>1. /\ tick' = [tick EXCEPT ![w] = [t \in Tick |-> Idle]]
      /\ lost' = lost \cup UNION {Held(w, t) : t \in Tick}
      /\ up' = up \ {w} /\ crashes < MaxCrashes /\ crashes' = crashes + 1
      /\ UNCHANGED <<queue, enqueued, done, tries>>
  BY DEF WorkerDies
<1>2. tick \in [Server -> [Tick -> TickState]]
  BY DEF WorkerInv, WorkerTypeOK, TickState
<1>3. /\ tick' \in [Server -> [Tick -> TickState]]
      /\ \A t \in Tick : tick'[w][t] = Idle
      /\ \A v \in Server, t \in Tick : v # w => tick'[v][t] = tick[v][t]
  BY <1>1, <1>2, IdleIs
<1>4. /\ \A t \in Tick : Held(w, t)' = {}
      /\ \A v \in Server, t \in Tick : v # w => Held(v, t)' = Held(v, t)
  BY <1>3, IdleIs, EmptyFacts DEF Held
<1>5. WorkerTypeOK'
  <2>1. UNION {Held(w, t) : t \in Tick} \subseteq 1 .. enqueued
    BY IdRange
  <2>2. crashes' \in 0 .. MaxCrashes
    BY <1>1, WorkerAssumption DEF WorkerInv, WorkerTypeOK
  <2>3. \A v \in Server, t \in Tick : ~tick'[v][t].busy => tick'[v][t] = Idle
    BY <1>3 DEF WorkerInv, WorkerTypeOK
  <2> QED BY <1>1, <1>3, <2>1, <2>2, <2>3 DEF WorkerInv, WorkerTypeOK, TickState
<1>6. Apart'
  <2>1. ASSUME NEW v \in Server, NEW t \in Tick
        PROVE  /\ Once(tick'[v][t].rest) /\ Once(tick'[v][t].failed)
               /\ Ids(tick'[v][t].rest) \cap Ids(tick'[v][t].failed) = {}
               /\ Ids(queue') \cap Held(v, t)' = {}
    <3>1. CASE v = w
      BY <1>3, <1>4, <3>1, IdleIs, EmptyFacts
    <3>2. CASE v # w
      <4>1. /\ tick'[v][t] = tick[v][t] /\ Held(v, t)' = Held(v, t) /\ queue' = queue
        BY <1>1, <1>3, <1>4, <3>2
      <4> QED BY <4>1 DEF WorkerInv, Apart
    <3> QED BY <3>1, <3>2
  <2>2. ASSUME NEW v \in Server, NEW y \in Server, NEW t \in Tick, NEW u \in Tick, v # y \/ t # u
        PROVE  Held(v, t)' \cap Held(y, u)' = {}
    <3>1. CASE v = w \/ y = w
      BY <1>4, <3>1
    <3>2. CASE v # w /\ y # w
      BY <1>4, <2>2, <3>2 DEF WorkerInv, Apart
    <3> QED BY <3>1, <3>2
  <2>3. Once(queue')
    BY <1>1 DEF WorkerInv, Apart
  <2> QED BY <2>1, <2>2, <2>3 DEF Apart
<1>7. Counts'
  <2>1. \A r, n : Tried(r, n)' = Tried(r, n)
    BY <1>1 DEF Tried
  <2>2. ASSUME NEW v \in Server, NEW t \in Tick
        PROVE  /\ \A r \in ToSet(tick'[v][t].rest) : Tried(r, 0)
               /\ \A r \in ToSet(tick'[v][t].failed) : Tried(r, 1)
    <3>1. CASE v = w
      BY <1>3, <3>1, IdleIs, EmptyFacts
    <3>2. CASE v # w
      BY <1>3, <3>2 DEF WorkerInv, Counts
    <3> QED BY <3>1, <3>2
  <2>3. \A r \in ToSet(queue') : Tried(r, 0)
    BY <1>1 DEF WorkerInv, Counts
  <2>4. \A e \in Event : e > enqueued' => tries'[e] = 0
    BY <1>1 DEF WorkerInv, Counts
  <2> QED BY <2>1, <2>2, <2>3, <2>4 DEF Counts
<1>8. Ends'
  <2>1. ASSUME NEW e, Present(e)
        PROVE  Present(e)' \/ e \in lost'
    <3>1. CASE e \in Ids(queue)
      BY <1>1, <3>1 DEF Present
    <3>2. ASSUME NEW v \in Server, NEW t \in Tick, e \in Held(v, t)
          PROVE  Present(e)' \/ e \in lost'
      <4>1. CASE v = w
        BY <1>1, <3>2, <4>1
      <4>2. CASE v # w
        BY <1>4, <3>2, <4>2 DEF Present
      <4> QED BY <4>1, <4>2
    <3> QED BY <2>1, <3>1, <3>2 DEF Present
  <2>2. lost \subseteq lost'
    BY <1>1
  <2> QED BY <1>1, <2>1, <2>2 DEF WorkerInv, Ends
<1> QED BY <1>5, <1>6, <1>7, <1>8 DEF WorkerInv

\* Nothing that the invariant speaks of changes but the set of processes.
LEMMA SameWork ==
  ASSUME WorkerInv, up' \subseteq Server,
         UNCHANGED <<queue, tick, enqueued, crashes, done, tries, lost>>
  PROVE  WorkerInv'
<1>1. WorkerTypeOK'
  BY DEF WorkerInv, WorkerTypeOK
<1>2. \A w \in Server, t \in Tick : Held(w, t)' = Held(w, t)
  BY DEF Held
<1>3. Apart' /\ Ends'
  BY <1>2 DEF WorkerInv, Apart, Ends, Present
<1>4. Counts'
  BY DEF WorkerInv, Counts, Tried
<1> QED BY <1>1, <1>3, <1>4 DEF WorkerInv

LEMMA WorkerInvInit == WorkerInit => WorkerInv
<1> SUFFICES ASSUME WorkerInit PROVE WorkerInv
  OBVIOUS
<1>1. /\ queue = <<>> /\ tick = [w \in Server |-> [t \in Tick |-> Idle]] /\ up = Server
      /\ enqueued = 0 /\ crashes = 0 /\ done = {} /\ lost = {}
      /\ tries = [e \in Event |-> 0]
  BY DEF WorkerInit
<1>2. \A w \in Server, t \in Tick : tick[w][t] = Idle /\ Held(w, t) = {}
  BY <1>1, IdleIs, EmptyFacts DEF Held
<1>3. WorkerTypeOK
  BY <1>1, <1>2, IdleIs, EmptySeq, WorkerAssumption DEF WorkerTypeOK, TickState
<1>4. Apart
  BY <1>1, <1>2, IdleIs, EmptyFacts DEF Apart
<1>5. Counts
  BY <1>1, <1>2, IdleIs, EmptyFacts DEF Counts
<1>6. Ends
  BY <1>1 DEF Ends
<1> QED BY <1>3, <1>4, <1>5, <1>6 DEF WorkerInv

LEMMA WorkerInvNext == WorkerInv /\ [WorkerNext]_workerVars => WorkerInv'
<1> SUFFICES ASSUME WorkerInv, [WorkerNext]_workerVars PROVE WorkerInv'
  OBVIOUS
<1>1. ASSUME NEW n \in 1 .. MaxEvents, EnqueueJobs(n) PROVE WorkerInv'
  BY <1>1, EnqueueJobsStep
<1>2. ASSUME NEW w \in Server, WorkerDies(w) \/ StartServer(w) PROVE WorkerInv'
  <2>1. CASE StartServer(w)
    BY <2>1, SameWork DEF StartServer, WorkerInv, WorkerTypeOK
  <2> QED BY <1>2, <2>1, DieStep
<1>3. ASSUME NEW w \in Server, NEW t \in Tick, Retrieve(w, t) PROVE WorkerInv'
  BY <1>3, RetrieveStep
<1>4. ASSUME NEW w \in Server, NEW t \in Tick, TryNext(w, t) PROVE WorkerInv'
  BY <1>4, ProcessStep DEF TryNext
<1>5. ASSUME NEW w \in Server, NEW t \in Tick, UpdateEvents(w, t) PROVE WorkerInv'
  BY <1>5, UpdateStep
<1>6. CASE UNCHANGED workerVars
  BY <1>6, SameWork DEF workerVars, WorkerInv, WorkerTypeOK
<1> QED BY <1>1, <1>2, <1>3, <1>4, <1>5, <1>6 DEF WorkerNext

\* The places of an event's records, told apart by the invariant.
LEMMA PlacesAre ==
  ASSUME NEW e
  PROVE  \A x : x \in Places(e) <=>
           \/ \E i \in DOMAIN queue : queue[i].id = e /\ x = <<(<<>>), i>>
           \/ \E w \in Server, t \in Tick, part \in {"rest", "failed"} :
                \E i \in DOMAIN tick[w][t][part] :
                  tick[w][t][part][i].id = e /\ x = <<(<<w, t, part>>), i>>
<1> TAKE x
<1>1. x \in {<<>>} \X Copies(queue, e) <=>
        \E i \in DOMAIN queue : queue[i].id = e /\ x = <<(<<>>), i>>
  BY DEF Copies
<1>2. x \in UNION {{p} \X Copies(tick[p[1]][p[2]][p[3]], e) : p \in TickLists} <=>
        \E p \in TickLists : \E i \in Copies(tick[p[1]][p[2]][p[3]], e) : x = <<p, i>>
  OBVIOUS
<1>3. (\E p \in TickLists : \E i \in Copies(tick[p[1]][p[2]][p[3]], e) : x = <<p, i>>) <=>
        \E w \in Server, t \in Tick, part \in {"rest", "failed"} :
          \E i \in Copies(tick[w][t][part], e) : x = <<(<<w, t, part>>), i>>
  BY DEF TickLists
<1>4. \A w, t, part : \A i : i \in Copies(tick[w][t][part], e) <=>
        i \in DOMAIN tick[w][t][part] /\ tick[w][t][part][i].id = e
  BY DEF Copies
<1> QED BY <1>1, <1>2, <1>3, <1>4 DEF Places

LEMMA PlacesOne ==
  ASSUME WorkerInv, NEW e
  PROVE  /\ Present(e) => Cardinality(Places(e)) = 1
         /\ ~Present(e) => Places(e) = {}
<1>1. ASSUME NEW w \in Server, NEW t \in Tick, NEW part \in {"rest", "failed"}
      PROVE  /\ Once(tick[w][t][part]) /\ Ids(tick[w][t][part]) \subseteq Held(w, t)
             /\ \A i \in DOMAIN tick[w][t][part] : tick[w][t][part][i].id \in Ids(tick[w][t][part])
  BY DEF WorkerInv, Apart, Held, Ids, ToSet
<1>2. \A i \in DOMAIN queue : queue[i].id \in Ids(queue)
  BY DEF Ids, ToSet
<1>3. Places(e) # {} => Present(e)
  BY <1>1, <1>2, PlacesAre DEF Present
<1>4. Present(e) => Places(e) # {}
  <2>1. CASE e \in Ids(queue)
    <3>1. PICK i \in DOMAIN queue : queue[i].id = e
      BY <2>1 DEF Ids, ToSet
    <3>2. <<(<<>>), i>> \in Places(e)
      BY <3>1, PlacesAre
    <3> QED BY <3>2
  <2>2. ASSUME NEW w \in Server, NEW t \in Tick, NEW part \in {"rest", "failed"},
               e \in Ids(tick[w][t][part])
        PROVE  Places(e) # {}
    <3>1. PICK i \in DOMAIN tick[w][t][part] : tick[w][t][part][i].id = e
      BY <2>2 DEF Ids, ToSet
    <3>2. <<(<<w, t, part>>), i>> \in Places(e)
      BY <3>1, PlacesAre
    <3> QED BY <3>2
  <2> QED BY <2>1, <2>2 DEF Present, Held
<1>5. ASSUME NEW x \in Places(e), NEW y \in Places(e)
      PROVE  x = y
  <2>1. ASSUME NEW i \in DOMAIN queue, queue[i].id = e, NEW w \in Server, NEW t \in Tick,
               NEW part \in {"rest", "failed"}, NEW j \in DOMAIN tick[w][t][part],
               tick[w][t][part][j].id = e
        PROVE  FALSE
    <3>1. e \in Ids(queue) /\ e \in Held(w, t)
      BY <1>1, <1>2, <2>1
    <3> QED BY <3>1 DEF WorkerInv, Apart
  <2>2. ASSUME NEW w \in Server, NEW t \in Tick, NEW a \in {"rest", "failed"},
               NEW i \in DOMAIN tick[w][t][a], tick[w][t][a][i].id = e,
               NEW v \in Server, NEW u \in Tick, NEW b \in {"rest", "failed"},
               NEW j \in DOMAIN tick[v][u][b], tick[v][u][b][j].id = e
        PROVE  w = v /\ t = u /\ a = b /\ i = j
    <3>1. e \in Ids(tick[w][t][a]) /\ e \in Ids(tick[v][u][b])
      BY <1>1, <2>2
    <3>2. w = v /\ t = u
      <4>1. e \in Held(w, t) /\ e \in Held(v, u)
        BY <1>1, <3>1
      <4> QED BY <4>1 DEF WorkerInv, Apart
    <3>3. a = b
      BY <3>1, <3>2 DEF WorkerInv, Apart
    <3> QED BY <1>1, <2>2, <3>2, <3>3 DEF Once
  <2>3. ASSUME NEW i \in DOMAIN queue, queue[i].id = e, NEW j \in DOMAIN queue, queue[j].id = e
        PROVE  i = j
    BY <2>3 DEF WorkerInv, Apart, Once
  <2>4. CASE \E i \in DOMAIN queue : queue[i].id = e /\ x = <<(<<>>), i>>
    <3>1. PICK i \in DOMAIN queue : queue[i].id = e /\ x = <<(<<>>), i>>
      BY <2>4
    <3>2. PICK j \in DOMAIN queue : queue[j].id = e /\ y = <<(<<>>), j>>
      BY <2>1, <3>1, PlacesAre
    <3> QED BY <2>3, <3>1, <3>2
  <2>5. CASE \E w \in Server, t \in Tick, part \in {"rest", "failed"} :
               \E i \in DOMAIN tick[w][t][part] :
                 tick[w][t][part][i].id = e /\ x = <<(<<w, t, part>>), i>>
    <3>1. PICK w \in Server, t \in Tick, a \in {"rest", "failed"} :
            \E i \in DOMAIN tick[w][t][a] : tick[w][t][a][i].id = e /\ x = <<(<<w, t, a>>), i>>
      BY <2>5
    <3>2. PICK i \in DOMAIN tick[w][t][a] : tick[w][t][a][i].id = e /\ x = <<(<<w, t, a>>), i>>
      BY <3>1
    <3>3. PICK v \in Server, u \in Tick, b \in {"rest", "failed"} :
            \E j \in DOMAIN tick[v][u][b] : tick[v][u][b][j].id = e /\ y = <<(<<v, u, b>>), j>>
      BY <2>1, <3>2, PlacesAre
    <3>4. PICK j \in DOMAIN tick[v][u][b] : tick[v][u][b][j].id = e /\ y = <<(<<v, u, b>>), j>>
      BY <3>3
    <3> QED BY <2>2, <3>2, <3>4
  <2> QED BY <2>4, <2>5, PlacesAre
<1>6. ASSUME Present(e)
      PROVE  Cardinality(Places(e)) = 1
  <2>1. PICK x : Places(e) = {x}
    BY <1>4, <1>5, <1>6
  <2> QED BY <2>1, FS_Singleton
<1> QED BY <1>3, <1>6

LEMMA InvAccounts == WorkerInv => EventsAccounted
<1> SUFFICES ASSUME WorkerInv, NEW e \in 1 .. enqueued
             PROVE  \/ e \in done /\ Places(e) = {}
                    \/ e \notin done /\ Cardinality(Places(e)) = 1
                    \/ Places(e) = {} /\ (e \in lost \/ tries[e] = RetryLimit + 2)
  BY DEF EventsAccounted
<1>1. Present(e) => e \notin done
  BY IdRange DEF Present
<1> QED BY <1>1, PlacesOne DEF WorkerInv, Ends

(* Every part of the state of the TypeScript Redis worker has its type.      *)
THEOREM WorkerTypeCorrect == WorkerSpec => []WorkerTypeOK
<1>1. WorkerInv => WorkerTypeOK
  BY DEF WorkerInv
<1> QED BY <1>1, WorkerInvInit, WorkerInvNext, PTL DEF WorkerSpec

(* However many ticks of however many processes overlap on the list, an      *)
(* event is in one place until it is processed, taken along by a process     *)
(* that dies, or dropped after its last try.                                 *)
THEOREM EventsAccountedCorrect == WorkerSpec => []EventsAccounted
BY WorkerInvInit, WorkerInvNext, InvAccounts, PTL DEF WorkerSpec

-----------------------------------------------------------------------------
(***************************************************************************)
(* StoreInventory: no transition of an order is announced twice, and the   *)
(* stock is what was supplied and what the processed events moved.         *)
(*                                                                         *)
(* A transition takes its order to a status of a higher rank, so a         *)
(* request that has written holds one that nobody else announces           *)
(* (Announced).  The store's steps are the worker's or leave it alone      *)
(* (WorkerImplemented): an event is processed once, when its effect joins  *)
(* the sum over those that are done.                                       *)
(***************************************************************************)
\* Every transition of ORDER_TRANSITIONS goes up.
Rank == [s \in Status |->
  IF s = "pending" THEN 0 ELSE IF s = "paid" THEN 1 ELSE IF s = "fulfilled" THEN 2
  ELSE IF s = "shipped" THEN 3 ELSE IF s = "delivered" THEN 4 ELSE 5]

Requests == {NoRequest} \cup Step("before") \cup Step("moved")
  \cup [at : {"checked"}, order : Order, to : Status, from : Status, current : Status]

StoreTyped ==
  /\ order \in [Order -> Status]
  /\ event \in Seq(OrderEvent)
  /\ request \in [Request -> Requests]

\* A request that has written holds a transition that no event announces and
\* no other request holds; what was announced or written is not above the
\* status of its order.
Written(q) == request[q].at = "moved"

Unique ==
  /\ \A d \in DOMAIN event : Rank[event[d].to] <= Rank[order[event[d].order]]
  /\ \A q \in Request : Written(q) =>
       /\ Rank[request[q].to] <= Rank[order[request[q].order]]
       /\ \A d \in DOMAIN event :
            event[d].order = request[q].order => event[d].to # request[q].to
       /\ \A p \in Request :
            Written(p) /\ request[p].order = request[q].order
                       /\ request[p].to = request[q].to => p = q
  /\ \A q \in Request : request[q].at = "checked" =>
       <<request[q].current, request[q].to>> \in ORDER_TRANSITIONS

Announced == StoreTyped /\ Unique /\ OneEventPerTransition

LEMMA RankRises ==
  \A s, t \in Status :
    /\ Rank[s] \in Nat
    /\ <<s, t>> \in ORDER_TRANSITIONS => Rank[s] < Rank[t]
BY DEF Rank, Status, ORDER_TRANSITIONS

\* A request gives up, or goes on without having written.
LEMMA UnwrittenStep ==
  ASSUME Announced, NEW q \in Request, NEW r \in Requests,
         request' = [request EXCEPT ![q] = r], UNCHANGED <<order, event>>,
         r.at # "moved",
         r.at = "checked" => <<r.current, r.to>> \in ORDER_TRANSITIONS
  PROVE  Announced'
<1>1. StoreTyped'
  BY DEF Announced, StoreTyped
<1>2. request'[q] = r /\ \A p \in Request \ {q} : request'[p] = request[p]
  BY DEF Announced, StoreTyped
<1>3. Unique'
  BY <1>2 DEF Announced, Unique, Written
<1>4. OneEventPerTransition'
  BY DEF Announced, OneEventPerTransition
<1> QED
  BY <1>1, <1>3, <1>4 DEF Announced

LEMMA WriteStep ==
  ASSUME Announced, NEW q \in Request, WriteTransition(q)
  PROVE  Announced'
<1> DEFINE r == request[q]
<1>1. /\ r \in [at : {"checked"}, order : Order, to : Status, from : Status, current : Status]
      /\ UNCHANGED event
  BY DEF WriteTransition, AtStore, Announced, StoreTyped, Requests, Step, NoRequest
<1>2. CASE ~Affected(r)
  <2>1. request' = [request EXCEPT ![q] = NoRequest] /\ UNCHANGED order
    BY <1>2 DEF WriteTransition, GoOn
  <2>2. NoRequest \in Requests /\ NoRequest.at = "idle"
    BY DEF Requests, NoRequest
  <2> QED
    BY <1>1, <2>1, <2>2, UnwrittenStep
<1>3. CASE Affected(r)
  <2> DEFINE moved == [at |-> "moved", order |-> r.order, to |-> r.to, from |-> r.from]
  <2>1. /\ order' = [order EXCEPT ![r.order] = r.to]
        /\ request' = [request EXCEPT ![q] = moved]
        /\ order[r.order] = r.current
    BY <1>3 DEF WriteTransition, GoOn, Affected
  <2>2. moved \in Requests
    BY <1>1 DEF Requests, Step
  <2>3. StoreTyped'
    BY <1>1, <2>1, <2>2 DEF Announced, StoreTyped
  <2>4. request'[q] = moved /\ \A p \in Request \ {q} : request'[p] = request[p]
    BY <2>1 DEF Announced, StoreTyped
  <2>5. Rank[order[r.order]] < Rank[r.to]
    BY <1>1, <2>1, RankRises DEF WriteTransition, Announced, Unique
  <2>6. /\ order'[r.order] = r.to
        /\ \A o \in Order \ {r.order} : order'[o] = order[o]
        /\ \A o \in Order : Rank[order[o]] \in Nat /\ Rank[order'[o]] \in Nat
                            /\ Rank[order[o]] <= Rank[order'[o]]
    <3>1. /\ order \in [Order -> Status] /\ order' \in [Order -> Status]
          /\ r.order \in Order
      BY <1>1, <2>3 DEF Announced, StoreTyped
    <3>2. order'[r.order] = r.to /\ \A o \in Order \ {r.order} : order'[o] = order[o]
      BY <2>1, <3>1
    <3>3. \A o \in Order : order[o] \in Status /\ order'[o] \in Status
      BY <3>1
    <3>4. \A o \in Order : Rank[order[o]] \in Nat /\ Rank[order'[o]] \in Nat
      BY <3>3, RankRises
    <3> QED
      BY <2>5, <3>1, <3>2, <3>4
  <2>7. /\ \A d \in DOMAIN event :
             /\ event[d].order \in Order /\ event[d].to \in Status
             /\ Rank[event[d].to] \in Nat
        /\ \A p \in Request : Written(p) =>
             /\ request[p].order \in Order /\ request[p].to \in Status
             /\ Rank[request[p].to] \in Nat
    <3>1. \A d \in DOMAIN event : event[d] \in OrderEvent
      BY DEF Announced, StoreTyped
    <3>2. \A p \in Request : Written(p) => request[p] \in Step("moved")
      BY DEF Announced, StoreTyped, Written, Requests, Step, NoRequest
    <3>3. /\ \A d \in DOMAIN event : event[d].order \in Order /\ event[d].to \in Status
          /\ \A p \in Request : Written(p) => request[p].order \in Order /\ request[p].to \in Status
      BY <3>1, <3>2 DEF OrderEvent, Step
    <3> QED
      BY <3>3, RankRises
  <2>8. /\ \A d \in DOMAIN event : event[d].order = r.order => event[d].to # r.to
        /\ \A p \in Request : Written(p) /\ request[p].order = r.order => request[p].to # r.to
    BY <1>1, <2>5, <2>6, <2>7 DEF Announced, Unique
  <2>9. Unique'
    <3>1. \A d \in DOMAIN event : Rank[event[d].to] <= Rank[order'[event[d].order]]
      BY <2>6, <2>7 DEF Announced, Unique
    <3>2. ASSUME NEW p \in Request, Written(p)'
          PROVE  /\ Rank[request'[p].to] <= Rank[order'[request'[p].order]]
                 /\ \A d \in DOMAIN event :
                      event[d].order = request'[p].order => event[d].to # request'[p].to
      <4>1. CASE p = q
        BY <4>1, <1>1, <2>4, <2>6, <2>8
      <4>2. CASE p # q
        BY <4>2, <3>2, <2>4, <2>6, <2>7 DEF Announced, Unique, Written
      <4> QED
        BY <4>1, <4>2
    <3>3. ASSUME NEW p \in Request, NEW s \in Request, Written(p)', Written(s)',
                 request'[p].order = request'[s].order, request'[p].to = request'[s].to
          PROVE  p = s
      BY <3>3, <2>4, <2>8 DEF Announced, Unique, Written
    <3>4. \A p \in Request : request'[p].at = "checked" =>
            <<request'[p].current, request'[p].to>> \in ORDER_TRANSITIONS
      BY <2>4 DEF Announced, Unique
    <3> QED
      BY <1>1, <3>1, <3>2, <3>3, <3>4 DEF Unique, Written
  <2>10. OneEventPerTransition'
    BY <1>1 DEF Announced, OneEventPerTransition
  <2> QED
    BY <2>3, <2>9, <2>10 DEF Announced
<1> QED
  BY <1>2, <1>3

LEMMA AnnounceStep ==
  ASSUME Announced, NEW q \in Request, EnqueueJob(q)
  PROVE  Announced'
<1> DEFINE r == request[q]
           e == [order |-> r.order, from |-> r.from, to |-> r.to]
<1>1. /\ r \in Step("moved")
      /\ event' = Append(event, e)
      /\ request' = [request EXCEPT ![q] = NoRequest]
      /\ UNCHANGED order
  BY DEF EnqueueJob, GoOn, Announced, StoreTyped, Requests, Step, NoRequest
<1>2. /\ e \in OrderEvent /\ event \in Seq(OrderEvent) /\ NoRequest \in Requests
      /\ e.order = r.order /\ e.to = r.to
  BY <1>1 DEF Announced, StoreTyped, Step, OrderEvent, Requests
<1>3. StoreTyped'
  BY <1>1, <1>2 DEF Announced, StoreTyped
<1>4. /\ DOMAIN event' = DOMAIN event \cup {Len(event) + 1}
      /\ Len(event) + 1 \notin DOMAIN event
      /\ event'[Len(event) + 1] = e
      /\ \A d \in DOMAIN event : event'[d] = event[d]
  BY <1>1, <1>2
<1>5. request'[q] = NoRequest /\ \A p \in Request \ {q} : request'[p] = request[p]
  BY <1>1 DEF Announced, StoreTyped
<1>6. /\ Written(q)
      /\ Rank[r.to] <= Rank[order[r.order]]
      /\ \A d \in DOMAIN event : event[d].order = e.order => event[d].to # e.to
  BY <1>1, <1>2 DEF Announced, Unique, Written, Step
<1> HIDE DEF e
<1>7. Unique'
  <2>1. \A d \in DOMAIN event' : Rank[event'[d].to] <= Rank[order'[event'[d].order]]
    BY <1>1, <1>2, <1>4, <1>6 DEF Announced, Unique
  <2>2. \A p \in Request : Written(p)' => p # q /\ Written(p) /\ request'[p] = request[p]
    BY <1>5 DEF Written, NoRequest
  <2>3. ASSUME NEW p \in Request, Written(p)', NEW d \in DOMAIN event',
               event'[d].order = request'[p].order
        PROVE  event'[d].to # request'[p].to
    BY <2>2, <2>3, <1>2, <1>4, <1>6 DEF Announced, Unique
  <2>4. \A p \in Request : request'[p].at = "checked" =>
          <<request'[p].current, request'[p].to>> \in ORDER_TRANSITIONS
    BY <1>5 DEF Announced, Unique, NoRequest
  <2> QED
    BY <1>1, <2>1, <2>2, <2>3, <2>4 DEF Announced, Unique
<1>8. OneEventPerTransition'
  BY <1>4, <1>6 DEF Announced, OneEventPerTransition
<1> QED
  BY <1>3, <1>7, <1>8 DEF Announced

\* The queue, the stock and the events that are applied leave orders alone.
LEMMA OtherStep ==
  ASSUME Announced, UNCHANGED <<order, event, request>>
  PROVE  Announced'
BY DEF Announced, StoreTyped, Unique, Written, OneEventPerTransition

LEMMA AnnouncedInit == InventoryInit => Announced
<1> SUFFICES ASSUME InventoryInit PROVE Announced
  OBVIOUS
<1>1. StoreTyped
  BY DEF InventoryInit, StoreTyped, Status, Requests
<1>2. Unique /\ OneEventPerTransition
  BY DEF InventoryInit, Unique, Written, OneEventPerTransition, NoRequest
<1> QED
  BY <1>1, <1>2 DEF Announced

LEMMA AnnouncedNext == Announced /\ [InventoryNext]_inventoryVars => Announced'
<1> SUFFICES ASSUME Announced, [InventoryNext]_inventoryVars PROVE Announced'
  OBVIOUS
<1>1. ASSUME NEW q \in Request, NEW o \in Order, NEW to \in Target, GetOrder(q, o, to)
      PROVE  Announced'
  <2>1. [at |-> "before", order |-> o, to |-> to, from |-> order[o]] \in Requests
    BY StoreAssumption DEF Announced, StoreTyped, Requests, Step
  <2> QED
    BY <1>1, <2>1, UnwrittenStep DEF GetOrder, GoOn, AtStore
<1>2. ASSUME NEW q \in Request, CheckTransition(q)
      PROVE  Announced'
  <2> DEFINE r == request[q]
             s == [at |-> "checked", order |-> r.order, to |-> r.to, from |-> r.from,
                   current |-> order[r.order]]
  <2>1. r \in Step("before")
    BY <1>2 DEF CheckTransition, Announced, StoreTyped, Requests, Step, NoRequest
  <2>2. s \in Requests /\ NoRequest \in Requests
    BY <2>1 DEF Announced, StoreTyped, Requests, Step
  <2>3. CASE <<order[r.order], r.to>> \in ORDER_TRANSITIONS
    BY <1>2, <2>2, <2>3, UnwrittenStep DEF CheckTransition, GoOn, AtStore
  <2>4. CASE <<order[r.order], r.to>> \notin ORDER_TRANSITIONS
    BY <1>2, <2>2, <2>4, UnwrittenStep DEF CheckTransition, GoOn, AtStore, NoRequest
  <2> QED
    BY <2>3, <2>4
<1>3. ASSUME NEW q \in Request, WriteTransition(q) \/ EnqueueJob(q)
      PROVE  Announced'
  BY <1>3, WriteStep, AnnounceStep
<1>4. ASSUME NEW q \in Request, RequestFails(q)
      PROVE  Announced'
  <2>1. NoRequest \in Requests
    BY DEF Requests
  <2> QED
    BY <1>4, <2>1, UnwrittenStep DEF RequestFails, GoOn, AtStore, NoRequest
<1>5. ASSUME NEW w \in Server,
             QueueStep(w) \/ \E t \in Tick : ApplyEvent(w, t) \/ RefuseEvent(w, t)
      PROVE  Announced'
  BY <1>5, OtherStep DEF QueueStep, storeVars, ApplyEvent, RefuseEvent
<1>6. ASSUME NEW v \in Variant, NEW delta \in {-1, 1}, AdjustStock(v, delta)
      PROVE  Announced'
  BY <1>6, OtherStep DEF AdjustStock
<1>7. CASE UNCHANGED inventoryVars
  BY <1>7, OtherStep DEF inventoryVars, storeVars
<1> QED
  BY <1>1, <1>2, <1>3, <1>4, <1>5, <1>6, <1>7 DEF InventoryNext

(* transitionOrder and the enqueue after it announce each transition of an   *)
(* order once, for any number of requests and any crashes.                   *)
THEOREM OneEventPerTransitionAlways == InventorySpec => []OneEventPerTransition
<1>1. Announced => OneEventPerTransition
  BY DEF Announced
<1> QED
  BY <1>1, AnnouncedInit, AnnouncedNext, PTL DEF InventorySpec

-----------------------------------------------------------------------------
(* The stock.                                                               *)

StockInv ==
  /\ WorkerInv
  /\ Announced
  /\ Len(event) = enqueued
  /\ stock \in [Variant -> Nat] /\ supplied \in [Variant -> Int]
  /\ StockMatchesDone

\* The events and the list are those of the worker.
LEMMA WorkerSteps ==
  ASSUME WorkerInv, [InventoryNext]_inventoryVars
  PROVE  [WorkerNext]_workerVars
<1>1. ASSUME NEW q \in Request, EnqueueJob(q)
      PROVE  WorkerNext
  <2>1. EnqueueJobs(1)
    BY <1>1 DEF EnqueueJob
  <2>2. 1 \in 1 .. MaxEvents
    BY <2>1, WorkerAssumption DEF EnqueueJobs, WorkerInv, WorkerTypeOK
  <2> QED
    BY <2>1, <2>2 DEF WorkerNext
<1>2. ASSUME NEW q \in Request, NEW o \in Order, NEW to \in Target,
             GetOrder(q, o, to) \/ CheckTransition(q) \/ WriteTransition(q) \/ RequestFails(q)
      PROVE  UNCHANGED workerVars
  BY <1>2 DEF GetOrder, CheckTransition, WriteTransition, RequestFails, AtStore
<1>3. ASSUME NEW q \in Request, CheckTransition(q) \/ WriteTransition(q) \/ RequestFails(q)
      PROVE  UNCHANGED workerVars
  BY <1>3 DEF CheckTransition, WriteTransition, RequestFails, AtStore
<1>4. ASSUME NEW w \in Server, QueueStep(w)
      PROVE  WorkerNext
  BY <1>4 DEF QueueStep, WorkerNext
<1>5. ASSUME NEW w \in Server, NEW t \in Tick, ApplyEvent(w, t) \/ RefuseEvent(w, t)
      PROVE  WorkerNext
  <2>1. TryNext(w, t)
    BY <1>5 DEF ApplyEvent, RefuseEvent, TryNext
  <2> QED
    BY <2>1 DEF WorkerNext
<1>6. ASSUME NEW v \in Variant, NEW delta \in {-1, 1}, AdjustStock(v, delta)
      PROVE  UNCHANGED workerVars
  BY <1>6 DEF AdjustStock
<1>7. CASE UNCHANGED inventoryVars
  BY <1>7 DEF inventoryVars
<1> QED
  BY <1>1, <1>2, <1>3, <1>4, <1>5, <1>6, <1>7 DEF InventoryNext

\* What an event does to a variant.
LEMMA ImpactTyped ==
  ASSUME StockInv, NEW e \in 1 .. enqueued, NEW v \in Variant
  PROVE  /\ event[e] \in OrderEvent
         /\ Sign(event[e]) * Items[event[e].order][v] \in Int
<1>1. event[e] \in OrderEvent
  BY DEF StockInv, Announced, StoreTyped
<1>2. Items[event[e].order][v] \in Nat
  BY <1>1, StoreAssumption DEF OrderEvent
<1>3. Sign(event[e]) \in {-1, 0, 1}
  BY DEF Sign
<1>4. \A s \in {-1, 0, 1}, n \in Nat : s * n \in Int
  OBVIOUS
<1> QED
  BY <1>1, <1>2, <1>3, <1>4

LEMMA DoneFinite ==
  ASSUME StockInv
  PROVE  /\ IsFiniteSet(done) /\ done \subseteq 1 .. enqueued
         /\ \A v \in Variant : SumFunctionOnSet(Effects(v), done) \in Int
<1>1. done \subseteq 1 .. enqueued /\ enqueued \in Nat
  BY DEF StockInv, WorkerInv, WorkerTypeOK
<1>2. IsFiniteSet(done)
  <2>1. IsFiniteSet(1 .. enqueued)
    BY <1>1, FS_Interval
  <2> QED BY <1>1, <2>1, FS_Subset
<1>3. ASSUME NEW v \in Variant
      PROVE  \A e \in done : Effects(v)[e] \in Int
  BY <1>1, ImpactTyped DEF Effects
<1> QED
  BY <1>1, <1>2, <1>3, SumTyped

\* A step that neither applies an event nor touches the stock.
LEMMA StockKept ==
  ASSUME StockInv, UNCHANGED <<done, stock, supplied>>, \A e \in done : event'[e] = event[e]
  PROVE  StockMatchesDone'
<1>1. ASSUME NEW v \in Variant
      PROVE  Effects(v)' = Effects(v)
  BY DEF Effects
<1> QED
  BY <1>1 DEF StockInv, StockMatchesDone

LEMMA ApplyStock ==
  ASSUME StockInv, NEW w \in Server, NEW t \in Tick, ApplyEvent(w, t)
  PROVE  stock' \in [Variant -> Nat] /\ StockMatchesDone'
<1>1. PICK e : e = Head(tick[w][t].rest).id
  OBVIOUS
<1>2. /\ done' = done \cup {e} /\ UNCHANGED <<event, supplied, enqueued>>
      /\ \A v \in Variant : stock[v] + Sign(event[e]) * Items[event[e].order][v] >= 0
      /\ stock' = [v \in Variant |-> stock[v] + Sign(event[e]) * Items[event[e].order][v]]
  BY <1>1 DEF ApplyEvent, ProcessNext, Applied, Sufficient, Adjusted
<1>3. e \in 1 .. enqueued /\ e \notin done
  <2>1. tick[w][t].rest \in Seq(QueueRecord) /\ tick[w][t].rest # <<>>
    BY TickTypes DEF StockInv, WorkerInv, ApplyEvent, ProcessNext
  <2>2. e \in Held(w, t)
    BY <1>1, <2>1, HeadTailFacts DEF Held
  <2> QED
    BY <2>2, IdRange DEF StockInv
<1>4. ASSUME NEW v \in Variant
      PROVE  /\ stock'[v] \in Nat
             /\ stock'[v] = Stock[v] + supplied'[v] + SumFunctionOnSet(Effects(v)', done')
  <2>1. PICK d \in Int : d = Sign(event[e]) * Items[event[e].order][v]
    BY <1>3, ImpactTyped
  <2>2. PICK f : f = Effects(v)'
    OBVIOUS
  <2>3. f[e] = d /\ \A x \in done : f[x] = Effects(v)[x]
    BY <1>2, <2>1, <2>2 DEF Effects
  <2>4. \A x \in done : Effects(v)[x] \in Int
    BY DoneFinite, ImpactTyped DEF Effects
  <2>5. SumFunctionOnSet(f, done \cup {e}) = f[e] + SumFunctionOnSet(f, done)
    <3>1. \A x \in done \cup {e} : f[x] \in Int
      BY <2>3, <2>4
    <3> QED
      BY <1>3, <3>1, DoneFinite, SumJoins
  <2>6. SumFunctionOnSet(f, done) = SumFunctionOnSet(Effects(v), done)
    BY <2>3, DoneFinite, SumSame
  <2>7. PICK sum \in Int : sum = SumFunctionOnSet(Effects(v), done)
    BY DoneFinite
  <2>8. SumFunctionOnSet(Effects(v)', done') = d + sum
    BY <1>2, <2>2, <2>3, <2>5, <2>6, <2>7
  <2>9. /\ stock[v] = Stock[v] + supplied[v] + sum /\ stock[v] \in Nat
        /\ Stock[v] \in Nat /\ supplied[v] \in Int
    BY <2>7, StoreAssumption DEF StockInv, StockMatchesDone
  <2>10. stock'[v] = stock[v] + d /\ stock[v] + d >= 0 /\ supplied'[v] = supplied[v]
    BY <1>2, <2>1
  <2> QED
    BY <2>8, <2>9, <2>10
<1>5. stock' \in [Variant -> Nat]
  BY <1>2, <1>4
<1> QED
  BY <1>4, <1>5 DEF StockMatchesDone

LEMMA AdjustStockKeeps ==
  ASSUME StockInv, NEW v \in Variant, NEW delta \in {-1, 1}, AdjustStock(v, delta)
  PROVE  /\ stock' \in [Variant -> Nat] /\ supplied' \in [Variant -> Int]
         /\ StockMatchesDone'
<1>1. /\ stock' = [stock EXCEPT ![v] = @ + delta]
      /\ supplied' = [supplied EXCEPT ![v] = @ + delta]
      /\ stock[v] + delta \in 0 .. MaxSupply
      /\ UNCHANGED <<event, done>>
  BY DEF AdjustStock, workerVars
<1>2. stock \in [Variant -> Nat] /\ supplied \in [Variant -> Int] /\ MaxSupply \in Nat
  BY StoreAssumption DEF StockInv
<1>3. stock' \in [Variant -> Nat] /\ supplied' \in [Variant -> Int]
  BY <1>1, <1>2
<1>4. ASSUME NEW u \in Variant
      PROVE  stock'[u] = Stock[u] + supplied'[u] + SumFunctionOnSet(Effects(u)', done')
  <2>1. Effects(u)' = Effects(u)
    BY <1>1 DEF Effects
  <2>2. PICK sum \in Int : sum = SumFunctionOnSet(Effects(u), done)
    BY DoneFinite
  <2>3. SumFunctionOnSet(Effects(u)', done') = sum
    BY <1>1, <2>1, <2>2
  <2>4. /\ stock[u] = Stock[u] + supplied[u] + sum /\ stock[u] \in Nat
        /\ Stock[u] \in Nat /\ supplied[u] \in Int
    BY <2>2, StoreAssumption DEF StockInv, StockMatchesDone
  <2>5. \/ stock'[u] = stock[u] + delta /\ supplied'[u] = supplied[u] + delta
        \/ stock'[u] = stock[u] /\ supplied'[u] = supplied[u]
    BY <1>1, <1>2
  <2> QED
    BY <2>3, <2>4, <2>5
<1> QED
  BY <1>3, <1>4 DEF StockMatchesDone

LEMMA StockInvInit == InventoryInit => StockInv
<1> SUFFICES ASSUME InventoryInit PROVE StockInv
  OBVIOUS
<1>1. /\ WorkerInit /\ stock = Stock /\ event = <<>>
      /\ supplied = [v \in Variant |-> 0]
  BY DEF InventoryInit
<1>2. WorkerInv /\ Announced
  BY <1>1, WorkerInvInit, AnnouncedInit
<1>3. done = {} /\ enqueued = 0 /\ Len(event) = 0
  BY <1>1 DEF WorkerInit
<1>4. stock \in [Variant -> Nat] /\ supplied \in [Variant -> Int]
  BY <1>1, StoreAssumption
<1>5. ASSUME NEW v \in Variant
      PROVE  stock[v] = Stock[v] + supplied[v] + SumFunctionOnSet(Effects(v), done)
  <2>1. SumFunctionOnSet(Effects(v), done) = 0
    BY <1>3, SumOfNone
  <2> QED
    BY <1>1, <2>1, StoreAssumption
<1> QED
  BY <1>2, <1>3, <1>4, <1>5 DEF StockInv, StockMatchesDone

LEMMA StockInvNext == StockInv /\ [InventoryNext]_inventoryVars => StockInv'
<1> SUFFICES ASSUME StockInv, [InventoryNext]_inventoryVars PROVE StockInv'
  OBVIOUS
<1>1. WorkerInv' /\ Announced'
  BY WorkerSteps, WorkerInvNext, AnnouncedNext DEF StockInv
<1> DEFINE Rest ==
      /\ Len(event)' = enqueued'
      /\ stock' \in [Variant -> Nat] /\ supplied' \in [Variant -> Int]
      /\ StockMatchesDone'
<1>2. ASSUME UNCHANGED <<event, enqueued, done, stock, supplied>>
      PROVE  Rest
  BY <1>2, StockKept DEF StockInv
<1>3. ASSUME NEW q \in Request, NEW o \in Order, NEW to \in Target, GetOrder(q, o, to)
      PROVE  Rest
  BY <1>2, <1>3 DEF GetOrder, AtStore, workerVars
<1>4. ASSUME NEW q \in Request, CheckTransition(q) \/ WriteTransition(q) \/ RequestFails(q)
      PROVE  Rest
  BY <1>2, <1>4 DEF CheckTransition, WriteTransition, RequestFails, AtStore, workerVars
<1>5. ASSUME NEW q \in Request, EnqueueJob(q)
      PROVE  Rest
  <2>1. PICK r : r = [order |-> request[q].order, from |-> request[q].from, to |-> request[q].to]
    OBVIOUS
  <2>2. /\ event' = Append(event, r) /\ enqueued' = enqueued + 1
        /\ UNCHANGED <<done, stock, supplied>>
    BY <1>5, <2>1 DEF EnqueueJob, EnqueueJobs
  <2>3. event' \in Seq(OrderEvent) /\ event \in Seq(OrderEvent)
    BY <1>1 DEF Announced, StoreTyped, StockInv
  <2>4. Len(event') = enqueued' /\ \A e \in 1 .. enqueued : event'[e] = event[e]
    BY <2>2, <2>3 DEF StockInv
  <2>5. StockMatchesDone'
    BY <2>2, <2>4, DoneFinite, StockKept
  <2> QED
    BY <2>2, <2>4, <2>5 DEF StockInv
<1>6. ASSUME NEW w \in Server, QueueStep(w)
      PROVE  Rest
  BY <1>2, <1>6 DEF QueueStep, storeVars, WorkerDies, StartServer, Retrieve, UpdateEvents
<1>7. ASSUME NEW w \in Server, NEW t \in Tick, ApplyEvent(w, t)
      PROVE  Rest
  BY <1>7, ApplyStock DEF ApplyEvent, ProcessNext, StockInv
<1>8. ASSUME NEW w \in Server, NEW t \in Tick, RefuseEvent(w, t)
      PROVE  Rest
  BY <1>2, <1>8 DEF RefuseEvent, RolledBack, ProcessNext
<1>9. ASSUME NEW v \in Variant, NEW delta \in {-1, 1}, AdjustStock(v, delta)
      PROVE  Rest
  BY <1>9, AdjustStockKeeps DEF AdjustStock, workerVars, StockInv
<1>10. ASSUME UNCHANGED inventoryVars
       PROVE  Rest
  BY <1>2, <1>10 DEF inventoryVars, storeVars, workerVars
<1>11. Rest
  <2> HIDE DEF Rest
  <2> QED
    BY <1>3, <1>4, <1>5, <1>6, <1>7, <1>8, <1>9, <1>10 DEF InventoryNext
<1> QED
  BY <1>1, <1>11 DEF StockInv

(* Every part of the state of the orders and the stock has its type: no      *)
(* stock is ever negative.                                                   *)
THEOREM InventoryTypeCorrect == InventorySpec => []InventoryTypeOK
<1>1. StockInv => InventoryTypeOK
  BY DEF StockInv, WorkerInv, Announced, StoreTyped, Requests, InventoryTypeOK
<1> QED
  BY <1>1, StockInvInit, StockInvNext, PTL DEF InventorySpec

(* The store's requests and its worker use the list as the Redis worker      *)
(* does, so that what is proved of IntervalWorker holds here.                *)
THEOREM WorkerImplemented == InventorySpec => WorkerSpec
<1>1. InventoryInit => WorkerInit
  BY DEF InventoryInit
<1>2. StockInv /\ [InventoryNext]_inventoryVars => [WorkerNext]_workerVars
  BY WorkerSteps DEF StockInv
<1> QED
  BY <1>1, <1>2, StockInvInit, StockInvNext, PTL DEF InventorySpec, WorkerSpec

(* The stock is what was put in and the effect of the events that are done,  *)
(* for any number of requests, ticks, tries and crashes.                     *)
THEOREM StockMatchesDoneAlways == InventorySpec => []StockMatchesDone
<1>1. StockInv => StockMatchesDone
  BY DEF StockInv
<1> QED
  BY <1>1, StockInvInit, StockInvNext, PTL DEF InventorySpec

-----------------------------------------------------------------------------
(***************************************************************************)
(* StoreCheckout: one live payment of an order, one capture at a time of a *)
(* payment, one paid event of an order, and no success that leaves its     *)
(* order waiting.                                                          *)
(***************************************************************************)
\* What a request carries exists, and the intent it is about to record is its
\* own and has no payment yet.
Carried(c) ==
  /\ client[c].at \in {"cancel", "lookup", "open", "insert", "raced", "resume", "answer"} =>
       client[c].order \in CartOrder /\ status[client[c].order] # "none"
  /\ client[c].at \in {"resume", "answer"} =>
       client[c].ref \in Ref /\ owner[client[c].ref] # None
  /\ client[c].at = "insert" =>
       /\ client[c].ref \in Ref
       /\ intent[client[c].ref] # "none" /\ owner[client[c].ref] = None
       /\ \A b \in Client :
            client[b].at = "insert" /\ client[b].ref = client[c].ref => b = c

Carries == \A c \in Client : Carried(c)

\* A payment belongs to an order that was created and to an intent, and only
\* payments have events.
Backed ==
  \A r \in Ref :
    /\ owner[r] # None => status[owner[r]] # "none" /\ intent[r] # "none"
    /\ \A k \in EventKind : ledger[<<r, k>>] # "unsent" => owner[r] # None

\* A delivery serves the event it was begun for, goes on to the order for an
\* amount that agrees only, and is past the order's payment where the order is.
Serving(d) ==
  /\ hook[d].at # "idle" =>
       /\ hook[d].ref \in Ref /\ owner[hook[d].ref] \in CartOrder
       /\ ledger[<<hook[d].ref, hook[d].kind>>] # "unsent"
  /\ hook[d].at \notin {"idle", "fail", "refuse", "mark"} => hook[d].kind # "fail"
  /\ hook[d].at \in {"order", "pay", "enqueue", "clear"} => hook[d].kind = "confirm"
  /\ hook[d].at \in {"fail", "refuse"} => hook[d].kind = "fail"
  /\ hook[d].at \in {"enqueue", "clear"} \/ (hook[d].at = "mark" /\ hook[d].kind = "confirm") =>
       status[owner[hook[d].ref]] \in {"paid", "cancelled"}

Serves == \A d \in Hook : Serving(d)

\* The one announcement of an order is made, or one delivery is about to.
OneAnnouncer ==
  /\ \A o \in CartOrder :
       announced[o] # 0 => announced[o] = 1 /\ status[o] \in {"paid", "cancelled"}
  /\ \A d \in Hook : hook[d].at = "enqueue" =>
       /\ announced[owner[hook[d].ref]] = 0
       /\ \A g \in Hook :
            hook[g].at = "enqueue" /\ owner[hook[g].ref] = owner[hook[d].ref] => g = d

\* An order that was announced has a payment whose success was sent.
Occasioned ==
  \A o \in CartOrder : announced[o] # 0 =>
    \E r \in Ref : owner[r] = o /\ ledger[<<r, "confirm">>] # "unsent"

Checked ==
  /\ CheckoutTypeOK /\ Carries /\ Backed /\ Serves
  /\ OneLivePayment /\ OneCapture /\ OneAnnouncer /\ Occasioned /\ NoForgottenSuccess
-----------------------------------------------------------------------------
\* How a step changes one request, or one delivery, and no other.
ClientMoved(c) ==
  client' \in [Client -> ClientState] /\ \A b \in Client \ {c} : client'[b] = client[b]

HookMoved(d) ==
  hook' \in [Hook -> HookState] /\ \A g \in Hook \ {d} : hook'[g] = hook[g]

ClientPlace == {"find", "cancel", "create", "winner", "lookup", "open", "insert",
                "raced", "resume", "answer"}
HookPlace == {"confirm", "settle", "capture", "refuse", "release", "order", "pay",
              "enqueue", "clear", "mark"}

LEMMA ClientMoves ==
  ASSUME CheckoutTypeOK, NEW c \in Client
  PROVE  /\ \A p \in ClientPlace : Goto(c, p) =>
              /\ ClientMoved(c) /\ client'[c].at = p
              /\ client'[c].order = client[c].order /\ client'[c].ref = client[c].ref
         /\ \A p \in ClientPlace, o \in CartOrder, r \in Ref \cup {None} : With(c, p, o, r) =>
              /\ ClientMoved(c) /\ client'[c].at = p
              /\ client'[c].order = o /\ client'[c].ref = r
         /\ Leave(c) => ClientMoved(c) /\ client'[c].at = "idle"
<1>1. ASSUME NEW p \in ClientPlace, Goto(c, p)
      PROVE  /\ ClientMoved(c) /\ client'[c].at = p
             /\ client'[c].order = client[c].order /\ client'[c].ref = client[c].ref
  BY <1>1 DEF CheckoutTypeOK, Goto, ClientMoved, ClientPlace, ClientState
<1>2. ASSUME NEW p \in ClientPlace, NEW o \in CartOrder, NEW r \in Ref \cup {None}, With(c, p, o, r)
      PROVE  /\ ClientMoved(c) /\ client'[c].at = p
             /\ client'[c].order = o /\ client'[c].ref = r
  BY <1>2 DEF CheckoutTypeOK, With, ClientMoved, ClientPlace, ClientState
<1>3. ASSUME Leave(c)
      PROVE  ClientMoved(c) /\ client'[c].at = "idle"
  BY <1>3 DEF CheckoutTypeOK, Leave, ClientMoved, ClientState, Waiting
<1> QED
  BY <1>1, <1>2, <1>3

LEMMA HookMoves ==
  ASSUME CheckoutTypeOK, NEW d \in Hook
  PROVE  /\ \A p \in HookPlace : Move(d, p) =>
              /\ HookMoved(d) /\ hook'[d].at = p
              /\ hook'[d].ref = hook[d].ref /\ hook'[d].kind = hook[d].kind
         /\ Stop(d) => HookMoved(d) /\ hook'[d].at = "idle"
<1>1. ASSUME NEW p \in HookPlace, Move(d, p)
      PROVE  /\ HookMoved(d) /\ hook'[d].at = p
             /\ hook'[d].ref = hook[d].ref /\ hook'[d].kind = hook[d].kind
  BY <1>1 DEF CheckoutTypeOK, Move, HookMoved, HookPlace, HookState
<1>2. ASSUME Stop(d)
      PROVE  HookMoved(d) /\ hook'[d].at = "idle"
  BY <1>2 DEF CheckoutTypeOK, Stop, HookMoved, HookState, EventKind, Free
<1> QED
  BY <1>1, <1>2

-----------------------------------------------------------------------------
\* A step of a request that only reads: what it carries afterwards exists.
LEMMA ReadStep ==
  ASSUME Checked, NEW c \in Client, ClientMoved(c), Reads, UNCHANGED hookVars,
         client'[c].at # "insert",
         client'[c].at \in {"cancel", "lookup", "open", "raced", "resume", "answer"} =>
           client'[c].order \in CartOrder /\ status[client'[c].order] # "none",
         client'[c].at \in {"resume", "answer"} =>
           client'[c].ref \in Ref /\ owner[client'[c].ref] # None
  PROVE  Checked'
<1> USE DEF Reads, hookVars
<1>1. CheckoutTypeOK'
  BY DEF Checked, CheckoutTypeOK, ClientMoved
<1>2. Carries'
  <2> SUFFICES ASSUME NEW b \in Client
               PROVE  Carried(b)'
    BY DEF Carries
  <2>1. CASE b = c
    BY <2>1 DEF Carried
  <2>2. CASE b # c
    BY <2>2 DEF Checked, Carries, Carried, ClientMoved
  <2> QED
    BY <2>1, <2>2
<1>3. Backed' /\ Serves'
  BY DEF Checked, Backed, Serves, Serving
<1>4. OneLivePayment' /\ OneCapture'
  BY DEF Checked, OneLivePayment, PendingOrders, OneCapture
<1>5. OneAnnouncer' /\ Occasioned' /\ NoForgottenSuccess'
  BY DEF Checked, OneAnnouncer, Occasioned, NoForgottenSuccess
<1> QED
  BY <1>1, <1>2, <1>3, <1>4, <1>5 DEF Checked

LEMMA LookupStep ==
  ASSUME Checked, NEW c \in Client, UNCHANGED hookVars,
         \/ GetCart(c) \/ FindOrder(c) \/ FindWinner(c) \/ FindPayment(c)
         \/ FindRaceWinner(c) \/ Resume(c) \/ ClientFails(c)
  PROVE  Checked'
<1> USE DEF Checked
<1>1. /\ \A o \in PendingOrders : o \in CartOrder /\ status[o] # "none"
      /\ \A o \in CartOrder : \A r \in PendingPayments(o) : r \in Ref /\ owner[r] # None
  BY CheckoutAssumption DEF PendingOrders, PendingPayments
<1>2. CASE GetCart(c)
  <2>1. ClientMoved(c) /\ client'[c].at = "find"
    BY <1>2 DEF GetCart, ClientMoved, CheckoutTypeOK, ClientState, Waiting
  <2> QED
    BY <1>2, <2>1, ReadStep DEF GetCart
<1>3. CASE FindOrder(c)
  <2>1. CASE PendingOrders # {}
    <3>1. PICK o \in PendingOrders : With(c, IF client[c].full THEN "cancel" ELSE "lookup", o, None)
      BY <1>3, <2>1 DEF FindOrder
    <3>2. /\ ClientMoved(c) /\ client'[c].at \in {"cancel", "lookup"}
          /\ client'[c].order = o
      BY <3>1, <1>1, ClientMoves DEF ClientPlace
    <3> QED
      BY <1>3, <1>1, <3>2, ReadStep DEF FindOrder
  <2>2. CASE PendingOrders = {}
    <3>1. ClientMoved(c) /\ client'[c].at \in {"create", "idle"}
      BY <1>3, <2>2, ClientMoves DEF FindOrder, ClientPlace
    <3> QED
      BY <1>3, <3>1, ReadStep DEF FindOrder
  <2> QED
    BY <2>1, <2>2
<1>4. CASE FindWinner(c)
  <2>1. CASE PendingOrders # {}
    <3>1. PICK o \in PendingOrders : With(c, "lookup", o, None)
      BY <1>4, <2>1 DEF FindWinner
    <3>2. ClientMoved(c) /\ client'[c].at = "lookup" /\ client'[c].order = o
      BY <3>1, <1>1, ClientMoves DEF ClientPlace
    <3> QED
      BY <1>4, <1>1, <3>2, ReadStep DEF FindWinner
  <2>2. CASE PendingOrders = {}
    <3>1. ClientMoved(c) /\ client'[c].at = "idle"
      BY <1>4, <2>2, ClientMoves DEF FindWinner
    <3> QED
      BY <1>4, <3>1, ReadStep DEF FindWinner
  <2> QED
    BY <2>1, <2>2
<1>5. CASE FindPayment(c) \/ FindRaceWinner(c)
  <2> DEFINE o == client[c].order
  <2>0. o \in CartOrder /\ status[o] # "none"
    BY <1>5 DEF Carries, Carried, FindPayment, FindRaceWinner, At
  <2>1. CASE PendingPayments(o) # {}
    <3>1. PICK r \in PendingPayments(o) : With(c, "resume", o, r)
      BY <1>5, <2>1 DEF FindPayment, FindRaceWinner
    <3>2. /\ ClientMoved(c) /\ client'[c].at = "resume"
          /\ client'[c].order = o /\ client'[c].ref = r
      BY <2>0, <3>1, <1>1, ClientMoves DEF ClientPlace
    <3> QED
      BY <1>5, <1>1, <2>0, <3>2, ReadStep DEF FindPayment, FindRaceWinner
  <2>2. CASE PendingPayments(o) = {}
    <3>1. /\ ClientMoved(c) /\ client'[c].at \in {"open", "idle"}
          /\ client'[c].at = "open" => client'[c].order = o
      BY <1>5, <2>2, ClientMoves DEF FindPayment, FindRaceWinner, ClientPlace
    <3> QED
      BY <1>5, <2>0, <3>1, ReadStep DEF FindPayment, FindRaceWinner
  <2> QED
    BY <2>1, <2>2
<1>6. CASE Resume(c)
  <2>1. /\ ClientMoved(c) /\ client'[c].at \in {"answer", "idle"}
        /\ client'[c].at = "answer" =>
             client'[c].order = client[c].order /\ client'[c].ref = client[c].ref
    BY <1>6, ClientMoves DEF Resume, ClientPlace
  <2>2. /\ client[c].order \in CartOrder /\ status[client[c].order] # "none"
        /\ client[c].ref \in Ref /\ owner[client[c].ref] # None
    BY <1>6 DEF Resume, At, Carries, Carried
  <2> QED
    BY <1>6, <2>1, <2>2, ReadStep DEF Resume
<1>7. CASE ClientFails(c)
  <2>1. ClientMoved(c) /\ client'[c].at = "idle"
    BY <1>7, ClientMoves DEF ClientFails
  <2> QED
    BY <1>7, <2>1, ReadStep DEF ClientFails
<1> QED
  BY <1>2, <1>3, <1>4, <1>5, <1>6, <1>7

-----------------------------------------------------------------------------
\* An order is created, or cancelled: no payment, event or delivery changes.
LEMMA OrderStep ==
  ASSUME Checked, NEW o \in CartOrder, NEW s \in {"pending", "cancelled"},
         status' = [status EXCEPT ![o] = s],
         s = "pending" => status[o] = "none",
         UNCHANGED <<owner, payment, intent, hookVars>>
  PROVE  Backed' /\ Serves' /\ OneCapture' /\ OneAnnouncer' /\ Occasioned' /\ NoForgottenSuccess'
<1> USE DEF Checked, hookVars
<1>1. /\ \A p \in CartOrder : status[p] # "none" => status'[p] # "none"
      /\ \A p \in CartOrder : status[p] \in {"paid", "cancelled"} => status'[p] \in {"paid", "cancelled"}
  BY DEF CheckoutTypeOK
<1>2. Backed'
  <2>1. \A r \in Ref : owner[r] # None => owner[r] \in CartOrder
    BY DEF CheckoutTypeOK
  <2> QED
    BY <1>1, <2>1 DEF Backed
<1>3. Serves'
  BY <1>1 DEF Serves, Serving
<1>4. OneCapture'
  BY DEF OneCapture
<1>5. OneAnnouncer' /\ Occasioned'
  BY <1>1 DEF OneAnnouncer, Occasioned
<1>6. NoForgottenSuccess'
  BY <1>1 DEF NoForgottenSuccess
<1> QED
  BY <1>2, <1>3, <1>4, <1>5, <1>6

LEMMA CancelStep ==
  ASSUME Checked, NEW c \in Client, CancelStale(c), UNCHANGED hookVars
  PROVE  Checked'
<1> USE DEF Checked
<1> DEFINE o == client[c].order
<1>0. /\ o \in CartOrder /\ status' = [status EXCEPT ![o] = "cancelled"]
      /\ UNCHANGED <<cart, owner, payment, intent, shown, edits>>
  BY DEF CancelStale, Carries, Carried, At
<1>1. ClientMoved(c) /\ client'[c].at = "create"
  BY ClientMoves DEF CancelStale, ClientPlace
<1>2. CheckoutTypeOK'
  BY <1>0, <1>1 DEF CheckoutTypeOK, ClientMoved, hookVars
<1>3. Carries'
  <2> SUFFICES ASSUME NEW b \in Client
               PROVE  Carried(b)'
    BY DEF Carries
  <2>1. CASE b = c
    BY <2>1, <1>1 DEF Carried
  <2>2. CASE b # c
    BY <2>2, <1>0, <1>1 DEF Carries, Carried, ClientMoved, CheckoutTypeOK
  <2> QED
    BY <2>1, <2>2
<1>4. OneLivePayment'
  BY <1>0 DEF OneLivePayment, PendingOrders, CheckoutTypeOK
<1> QED
  BY <1>0, <1>2, <1>3, <1>4, OrderStep

LEMMA CreateStep ==
  ASSUME Checked, NEW c \in Client, CreateOrder(c), UNCHANGED hookVars
  PROVE  Checked'
<1> USE DEF Checked
<1>1. CASE PendingOrders # {}
  <2>1. Reads
    BY <1>1 DEF CreateOrder, Reads
  <2>2. ClientMoved(c) /\ client'[c].at = "winner"
    BY <1>1, ClientMoves DEF CreateOrder, ClientPlace
  <2> QED
    BY <2>1, <2>2, ReadStep
<1>2. CASE PendingOrders = {}
  <2>1. PICK o \in CartOrder : /\ status[o] = "none"
                           /\ status' = [status EXCEPT ![o] = "pending"]
                           /\ With(c, "lookup", o, None)
    BY <1>2 DEF CreateOrder
  <2>2. UNCHANGED <<cart, owner, payment, intent, shown, edits>>
    BY DEF CreateOrder
  <2>3. ClientMoved(c) /\ client'[c].at = "lookup" /\ client'[c].order = o
    BY <2>1, ClientMoves DEF ClientPlace
  <2>4. CheckoutTypeOK'
    BY <2>1, <2>2, <2>3 DEF CheckoutTypeOK, ClientMoved, hookVars
  <2>5. Carries'
    <3> SUFFICES ASSUME NEW b \in Client
                 PROVE  Carried(b)'
      BY DEF Carries
    <3>1. CASE b = c
      BY <3>1, <2>1, <2>3 DEF Carried, CheckoutTypeOK
    <3>2. CASE b # c
      BY <3>2, <2>1, <2>2, <2>3 DEF Carries, Carried, ClientMoved, CheckoutTypeOK
    <3> QED
      BY <3>1, <3>2
  <2>6. OneLivePayment'
    BY <1>2, <2>1, <2>2 DEF OneLivePayment, PendingOrders, CheckoutTypeOK
  <2> QED
    BY <2>1, <2>2, <2>4, <2>5, <2>6, OrderStep
<1> QED
  BY <1>1, <1>2

LEMMA OpenStep ==
  ASSUME Checked, NEW c \in Client, OpenIntent(c), UNCHANGED hookVars
  PROVE  Checked'
<1> USE DEF Checked
<1> DEFINE o == client[c].order
<1>1. PICK r \in Ref : /\ intent[r] = "none"
                       /\ intent' = [intent EXCEPT ![r] = "open"]
                       /\ With(c, "insert", o, r)
  BY DEF OpenIntent
<1>2. UNCHANGED <<cart, status, owner, payment, shown, edits, hookVars>>
  BY DEF OpenIntent
<1>3. o \in CartOrder /\ status[o] # "none"
  BY DEF OpenIntent, At, Carries, Carried
<1>4. owner[r] = None
  BY <1>1 DEF Backed
<1>5. ClientMoved(c) /\ client'[c].at = "insert" /\ client'[c].order = o /\ client'[c].ref = r
  BY <1>1, <1>3, ClientMoves DEF ClientPlace
<1>6. CheckoutTypeOK'
  BY <1>1, <1>2, <1>5 DEF CheckoutTypeOK, ClientMoved, hookVars
<1>7. Carries'
  <2> SUFFICES ASSUME NEW b \in Client
               PROVE  Carried(b)'
    BY DEF Carries
  <2>0. \A a \in Client \ {c} : client[a].at = "insert" => client[a].ref # r
    BY <1>1 DEF Carries, Carried
  <2>1. CASE b = c
    BY <2>0, <2>1, <1>1, <1>2, <1>3, <1>4, <1>5 DEF Carried, ClientMoved, CheckoutTypeOK
  <2>2. CASE b # c
    BY <2>0, <2>2, <1>1, <1>2, <1>5 DEF Carries, Carried, ClientMoved, CheckoutTypeOK
  <2> QED
    BY <2>1, <2>2
<1>8. Backed'
  BY <1>1, <1>2 DEF Backed, CheckoutTypeOK, hookVars
<1>9. Serves' /\ OneCapture'
  BY <1>2 DEF Serves, Serving, OneCapture, hookVars
<1>10. OneLivePayment' /\ OneAnnouncer' /\ Occasioned' /\ NoForgottenSuccess'
  BY <1>2 DEF OneLivePayment, PendingOrders, OneAnnouncer, Occasioned, NoForgottenSuccess, hookVars
<1> QED
  BY <1>6, <1>7, <1>8, <1>9, <1>10

LEMMA InsertStep ==
  ASSUME Checked, NEW c \in Client, InsertPayment(c), UNCHANGED hookVars
  PROVE  Checked'
<1> USE DEF Checked
<1> DEFINE o == client[c].order
           r == client[c].ref
<1>1. /\ o \in CartOrder /\ status[o] # "none"
      /\ r \in Ref /\ intent[r] # "none" /\ owner[r] = None
      /\ \A b \in Client : client[b].at = "insert" /\ client[b].ref = r => b = c
  BY DEF InsertPayment, At, Carries, Carried
<1>2. CASE ~SlotFree(o)
  <2>1. Reads
    BY <1>2 DEF InsertPayment, Reads
  <2>2. ClientMoved(c) /\ client'[c].at = "raced" /\ client'[c].order = o
    BY <1>2, ClientMoves DEF InsertPayment, ClientPlace
  <2> QED
    BY <1>1, <2>1, <2>2, ReadStep
<1>3. CASE SlotFree(o)
  <2>1. /\ owner' = [owner EXCEPT ![r] = o]
        /\ payment' = [payment EXCEPT ![r] = "pending"]
        /\ UNCHANGED <<cart, status, intent, shown, edits, hookVars>>
    BY <1>3 DEF InsertPayment
  <2>2. ClientMoved(c) /\ client'[c].at = "answer" /\ client'[c].order = o /\ client'[c].ref = r
    BY <1>3, ClientMoves DEF InsertPayment, ClientPlace
  <2>3. CheckoutTypeOK'
    BY <1>1, <2>1, <2>2, CheckoutAssumption DEF CheckoutTypeOK, ClientMoved, hookVars
  <2>4. Carries'
    <3> SUFFICES ASSUME NEW b \in Client
                 PROVE  Carried(b)'
      BY DEF Carries
    <3>1. CASE b = c
      BY <3>1, <1>1, <2>1, <2>2, CheckoutAssumption DEF Carried, CheckoutTypeOK
    <3>2. CASE b # c
      BY <3>2, <1>1, <2>1, <2>2, CheckoutAssumption DEF Carries, Carried, ClientMoved, CheckoutTypeOK
    <3> QED
      BY <3>1, <3>2
  <2>5. Backed'
    <3>1. o \in CartOrder /\ r \in Ref /\ o # None /\ status[o] # "none" /\ intent[r] # "none"
      BY <1>1, CheckoutAssumption DEF CheckoutTypeOK
    <3>2. \A q \in Ref : owner'[q] = IF q = r THEN o ELSE owner[q]
      BY <1>1, <2>1, <3>1 DEF CheckoutTypeOK
    <3>3. UNCHANGED <<status, intent, ledger>>
      BY <2>1 DEF hookVars
    <3>4. Backed
      BY <1>1
    <3> QED BY <3>1, <3>2, <3>3, <3>4 DEF Backed
  <2>6. \A d \in Hook : hook[d].at # "idle" => hook[d].ref \in Ref \ {r}
    BY <1>1, CheckoutAssumption DEF Serves, Serving
  <2>7. \A d \in Hook : hook[d].at # "idle" =>
          owner'[hook[d].ref] = owner[hook[d].ref] /\ payment'[hook[d].ref] = payment[hook[d].ref]
    BY <2>1, <2>6 DEF CheckoutTypeOK
  <2>8. Serves' /\ OneCapture'
    BY <2>1, <2>6, <2>7 DEF Serves, Serving, OneCapture, hookVars
  <2>9. OneAnnouncer' /\ Occasioned'
    <3>1. \A q \in Ref : owner[q] \in CartOrder => owner'[q] = owner[q]
      BY <1>1, <2>1, CheckoutAssumption DEF CheckoutTypeOK
    <3>2. Occasioned'
      <4>1. UNCHANGED <<announced, ledger>>
        BY <2>1 DEF hookVars
      <4> SUFFICES ASSUME NEW p \in CartOrder, announced[p] # 0
                   PROVE  \E q \in Ref : owner'[q] = p /\ ledger[<<q, "confirm">>] # "unsent"
        BY <4>1 DEF Occasioned
      <4> QED
        BY <3>1 DEF Occasioned
    <3> QED
      BY <2>1, <2>7, <3>2 DEF OneAnnouncer, hookVars
  <2>10. OneLivePayment'
    BY <1>1, <1>3, <2>1 DEF OneLivePayment, PendingOrders, SlotFree, PendingPayments, CheckoutTypeOK
  <2>11. NoForgottenSuccess'
    BY <1>1, <2>1, CheckoutAssumption DEF NoForgottenSuccess, CheckoutTypeOK, hookVars
  <2> QED
    BY <2>3, <2>4, <2>5, <2>8, <2>9, <2>10, <2>11
<1> QED
  BY <1>2, <1>3

LEMMA AnswerStep ==
  ASSUME Checked, NEW c \in Client, Answer(c), UNCHANGED hookVars
  PROVE  Checked'
<1> USE DEF Checked
<1>1. ClientMoved(c) /\ client'[c].at = "idle"
  BY ClientMoves DEF Answer
<1>2. /\ shown' = shown \cup {client[c].ref}
      /\ UNCHANGED <<cart, status, owner, payment, intent, edits, hookVars>>
  BY DEF Answer
<1>3. client[c].ref \in Ref /\ owner[client[c].ref] # None
  BY DEF Answer, At, Carries, Carried
<1>4. CheckoutTypeOK'
  BY <1>1, <1>2, <1>3 DEF CheckoutTypeOK, ClientMoved, hookVars
<1>5. Carries'
  BY <1>1, <1>2 DEF Carries, Carried, ClientMoved
<1>6. Backed' /\ Serves' /\ OneCapture'
  BY <1>2 DEF Backed, Serves, Serving, OneCapture, hookVars
<1>7. OneLivePayment' /\ OneAnnouncer' /\ Occasioned' /\ NoForgottenSuccess'
  BY <1>2 DEF OneLivePayment, PendingOrders, OneAnnouncer, Occasioned, NoForgottenSuccess, hookVars
<1> QED
  BY <1>4, <1>5, <1>6, <1>7

LEMMA ClientStepChecked ==
  ASSUME Checked, NEW c \in Client, ClientStep(c)
  PROVE  Checked'
BY LookupStep, CancelStep, CreateStep, OpenStep, InsertStep, AnswerStep DEF ClientStep

-----------------------------------------------------------------------------
\* What was sent stays sent.
Sent == \A e \in HookEvent : ledger[e] # "unsent" => ledger'[e] # "unsent"

\* A delivery that does not come to announce an order.
LEMMA DeliveryStep ==
  ASSUME Checked, NEW d \in Hook, HookMoved(d), UNCHANGED <<status, owner, announced>>,
         hook'[d].at # "enqueue", Serving(d)', Sent
  PROVE  Serves' /\ OneAnnouncer' /\ Occasioned'
<1> USE DEF Checked
<1>0. \A r \in Ref : \A k \in EventKind : ledger[<<r, k>>] # "unsent" => ledger'[<<r, k>>] # "unsent"
  BY DEF Sent, HookEvent
<1>1. Serves'
  <2> SUFFICES ASSUME NEW g \in Hook
               PROVE  Serving(g)'
    BY DEF Serves
  <2>1. CASE g = d
    BY <2>1
  <2>2. CASE g # d
    <3>1. hook'[g] = hook[g] /\ hook[g].kind \in EventKind
      BY <2>2 DEF HookMoved, CheckoutTypeOK, HookState
    <3> QED
      BY <1>0, <3>1 DEF Serves, Serving
  <2> QED
    BY <2>1, <2>2
<1>2. OneAnnouncer'
  BY DEF OneAnnouncer, HookMoved
<1>3. Occasioned'
  BY <1>0 DEF Occasioned, EventKind
<1> QED
  BY <1>1, <1>2, <1>3

\* A delivery that at most settles or fails its payment.
LEMMA PaymentStep ==
  ASSUME Checked, NEW d \in Hook, HookMoved(d), OnPayment, hook[d].at # "idle",
         NEW s \in {"pending", "succeeded", "failed"},
         payment' = payment \/ payment' = [payment EXCEPT ![hook[d].ref] = s]
  PROVE  /\ CheckoutTypeOK' /\ Carries' /\ Backed' /\ NoForgottenSuccess'
         /\ \A r \in Ref : r # hook[d].ref => payment'[r] = payment[r]
         /\ payment' # payment => payment'[hook[d].ref] = s
<1> USE DEF Checked, OnPayment
<1>1. hook[d].ref \in Ref /\ owner[hook[d].ref] # None
  BY CheckoutAssumption DEF Serves, Serving
<1>2. CheckoutTypeOK'
  BY <1>1 DEF CheckoutTypeOK, HookMoved
<1>3. Carries' /\ Backed'
  BY DEF Carries, Carried, Backed
<1>4. NoForgottenSuccess'
  BY DEF NoForgottenSuccess
<1>5. \A r \in Ref : r # hook[d].ref => payment'[r] = payment[r]
  BY DEF CheckoutTypeOK
<1>6. payment' # payment => payment'[hook[d].ref] = s
  BY <1>1 DEF CheckoutTypeOK
<1> QED
  BY <1>2, <1>3, <1>4, <1>5, <1>6

LEMMA SettleStep ==
  ASSUME Checked, NEW d \in Hook, HookMoved(d), OnPayment, hook[d].at # "idle",
         NEW s \in {"succeeded", "failed"},
         payment' = payment \/ payment' = [payment EXCEPT ![hook[d].ref] = s],
         hook'[d].at \notin {"enqueue", "capture", "release"}, Serving(d)'
  PROVE  Checked'
<1> USE DEF Checked
<1>1. /\ CheckoutTypeOK' /\ Carries' /\ Backed' /\ NoForgottenSuccess'
      /\ \A r \in Ref : r # hook[d].ref => payment'[r] = payment[r]
      /\ payment' # payment => payment'[hook[d].ref] = s
  BY PaymentStep
<1>2. Serves' /\ OneAnnouncer' /\ Occasioned'
  BY DeliveryStep DEF OnPayment, Sent
<1>3. \A r \in Ref : payment'[r] = "pending" => payment[r] = "pending"
  BY <1>1
<1>4. OneLivePayment'
  BY <1>3 DEF OneLivePayment, PendingOrders, OnPayment
<1>5. OneCapture'
  <2> SUFFICES ASSUME NEW g \in Hook, hook'[g].at \in {"capture", "release"}
               PROVE  /\ payment'[hook'[g].ref] # "pending"
                      /\ \A h \in Hook :
                           hook'[h].at \in {"capture", "release"} /\ hook'[h].ref = hook'[g].ref => h = g
    BY DEF OneCapture
  <2>1. g # d /\ hook'[g] = hook[g] /\ hook[g].ref \in Ref
    BY DEF HookMoved, Serves, Serving
  <2> QED
    BY <2>1, <1>3 DEF OneCapture, HookMoved
<1> QED
  BY <1>1, <1>2, <1>4, <1>5

LEMMA ConfirmStep ==
  ASSUME Checked, NEW d \in Hook,
         \/ ReadConfirm(d) \/ Settle(d) \/ ReadFail(d) \/ Refuse(d) \/ ReadOrder(d)
         \/ Claim(d) /\ ~Claimed(d)
         \/ Release(d) /\ UNCHANGED payment
  PROVE  Checked'
<1> USE DEF Checked, In, SetPayment
<1>0. CheckoutTypeOK /\ Serving(d)
  BY DEF Serves
<1>1. CASE ReadConfirm(d)
  <2>1. /\ HookMoved(d) /\ hook'[d].at \in {Compared(d), "settle"}
        /\ hook'[d].ref = hook[d].ref /\ hook'[d].kind = hook[d].kind
    BY <1>1, HookMoves DEF ReadConfirm, Compared, HookPlace
  <2>2. Serving(d)'
    BY <1>0, <1>1, <2>1 DEF Serving, Compared, ReadConfirm, OnPayment
  <2>3. hook'[d].at \in {"order", "mark", "settle"}
    BY <2>1 DEF Compared
  <2> QED
    BY <1>1, <2>1, <2>2, <2>3, SettleStep DEF ReadConfirm
<1>2. CASE Settle(d)
  <2>1. /\ HookMoved(d) /\ hook'[d].at = Compared(d)
        /\ hook'[d].ref = hook[d].ref /\ hook'[d].kind = hook[d].kind
    BY <1>2, HookMoves DEF Settle, Compared, HookPlace
  <2>2. Serving(d)'
    BY <1>0, <1>2, <2>1 DEF Serving, Compared, Settle, OnPayment
  <2>3. hook'[d].at \in {"order", "mark"}
    BY <2>1 DEF Compared
  <2> QED
    BY <1>2, <2>1, <2>2, <2>3, SettleStep DEF Settle
<1>3. CASE ReadFail(d) \/ Refuse(d)
  <2>1. /\ HookMoved(d) /\ hook'[d].at \in {"refuse", "mark"}
        /\ hook'[d].ref = hook[d].ref /\ hook'[d].kind = hook[d].kind
    BY <1>3, HookMoves DEF ReadFail, Refuse, HookPlace
  <2>2. hook[d].kind = "fail"
    BY <1>3 DEF Serves, Serving, ReadFail, Refuse
  <2>3. Serving(d)'
    BY <1>0, <1>3, <2>1, <2>2 DEF Serving, ReadFail, Refuse, OnPayment
  <2> QED
    BY <1>3, <2>1, <2>3, SettleStep DEF ReadFail, Refuse
<1>4. CASE ReadOrder(d)
  <2>1. /\ HookMoved(d)
        /\ hook'[d].at = IF status[Paid(d)] = "pending" THEN "pay" ELSE "mark"
        /\ hook'[d].ref = hook[d].ref /\ hook'[d].kind = hook[d].kind
    BY <1>4, HookMoves DEF ReadOrder, HookPlace
  <2>2. status[Paid(d)] \in {"pending", "paid", "cancelled"}
    <3>1. hook[d].ref \in Ref /\ Paid(d) \in CartOrder /\ Paid(d) # None
      BY <1>0, <1>4, CheckoutAssumption DEF Serving, ReadOrder, Paid
    <3>2. status[Paid(d)] # "none"
      BY <3>1 DEF Backed, Paid
    <3> QED
      BY <1>0, <3>1, <3>2 DEF CheckoutTypeOK
  <2>3. Serving(d)'
    BY <1>0, <1>4, <2>1, <2>2 DEF Serving, ReadOrder, OnPayment, Paid
  <2> QED
    BY <1>4, <2>1, <2>3, SettleStep DEF ReadOrder
<1>5. CASE Claim(d) /\ ~Claimed(d)
  <2>1. /\ HookMoved(d) /\ hook'[d].at = "confirm"
        /\ hook'[d].ref = hook[d].ref /\ hook'[d].kind = hook[d].kind
    BY <1>5, HookMoves DEF Claim, HookPlace
  <2>2. Serving(d)'
    BY <1>0, <1>5, <2>1 DEF Serving, Claim, OnPayment
  <2> QED
    BY <1>5, <2>1, <2>2, SettleStep DEF Claim
<1>6. CASE Release(d) /\ UNCHANGED payment
  <2>1. HookMoved(d) /\ hook'[d].at = "idle"
    BY <1>6, HookMoves DEF Release, Rethrown
  <2>2. Serving(d)'
    BY <2>1 DEF Serving
  <2> QED
    BY <1>6, <2>1, <2>2, SettleStep DEF Release
<1> QED
  BY <1>1, <1>2, <1>3, <1>4, <1>5, <1>6

LEMMA ClaimStep ==
  ASSUME Checked, NEW d \in Hook, Claim(d), Claimed(d)
  PROVE  Checked'
<1> USE DEF Checked, In, SetPayment
<1> DEFINE r == hook[d].ref
<1>0. CheckoutTypeOK /\ Serving(d) /\ OnPayment /\ payment[r] = "pending"
  BY DEF Serves, Claim, Claimed
<1>1. /\ HookMoved(d) /\ hook'[d].at = "capture"
      /\ hook'[d].ref = r /\ hook'[d].kind = hook[d].kind
      /\ payment' = [payment EXCEPT ![r] = "succeeded"]
  BY HookMoves DEF Claim, HookPlace
<1>2. /\ CheckoutTypeOK' /\ Carries' /\ Backed' /\ NoForgottenSuccess'
      /\ \A q \in Ref : q # r => payment'[q] = payment[q]
      /\ payment' # payment => payment'[r] = "succeeded"
  BY <1>0, <1>1, PaymentStep DEF Claim
<1>3. r \in Ref /\ payment'[r] = "succeeded"
  BY <1>0, <1>1 DEF Serving, Claim, CheckoutTypeOK
<1>4. Serving(d)'
  BY <1>0, <1>1 DEF Serving, Claim, OnPayment
<1>5. Serves' /\ OneAnnouncer' /\ Occasioned'
  BY <1>0, <1>1, <1>4, DeliveryStep DEF OnPayment, Sent
<1>6. OneLivePayment'
  BY <1>0, <1>2, <1>3 DEF OneLivePayment, PendingOrders, OnPayment
<1>7. \A g \in Hook \ {d} : hook[g].at \in {"capture", "release"} =>
        hook[g].ref \in Ref \ {r} /\ payment'[hook[g].ref] # "pending"
  BY <1>0, <1>2 DEF OneCapture, Serves, Serving
<1>8. OneCapture'
  BY <1>1, <1>3, <1>7 DEF OneCapture, HookMoved
<1> QED
  BY <1>2, <1>5, <1>6, <1>8

LEMMA ReleaseStep ==
  ASSUME Checked, NEW d \in Hook, Release(d)
  PROVE  Checked'
<1> USE DEF Checked, In, SetPayment
<1> DEFINE r == hook[d].ref
<1>1. CASE UNCHANGED payment
  BY <1>1, ConfirmStep
<1>2. CASE payment' # payment
  <2>0. Serving(d) /\ OnPayment /\ SlotFree(owner[r])
    BY <1>2 DEF Serves, Release, Paid
  <2>1. /\ HookMoved(d) /\ hook'[d].at = "idle"
        /\ payment' = [payment EXCEPT ![r] = "pending"]
    BY <1>2, HookMoves DEF Release, Rethrown
  <2>2. /\ CheckoutTypeOK' /\ Carries' /\ Backed' /\ NoForgottenSuccess'
        /\ \A q \in Ref : q # r => payment'[q] = payment[q]
        /\ payment' # payment => payment'[r] = "pending"
    BY <2>0, <2>1, PaymentStep DEF Release
  <2>3. Serves' /\ OneAnnouncer' /\ Occasioned'
    BY <2>0, <2>1, DeliveryStep DEF OnPayment, Serving, Sent
  <2>4. OneLivePayment'
    BY <2>0, <2>2 DEF OneLivePayment, PendingOrders, OnPayment, SlotFree, PendingPayments
  <2>5. \A g \in Hook \ {d} : hook[g].at \in {"capture", "release"} =>
          hook[g].ref \in Ref \ {r} /\ payment'[hook[g].ref] # "pending"
    BY <2>2 DEF OneCapture, Serves, Serving, Release
  <2>6. OneCapture'
    BY <2>1, <2>5 DEF OneCapture, HookMoved
  <2> QED
    BY <2>2, <2>3, <2>4, <2>6
<1> QED
  BY <1>1, <1>2

\* A capture that succeeds, and one that throws.
LEMMA CaptureStep ==
  ASSUME Checked, NEW d \in Hook, Capture(d) \/ CaptureFails(d) \/ CaptureRefused(d)
  PROVE  Checked'
<1> USE DEF Checked, In
<1> DEFINE r == hook[d].ref
<1>0. CheckoutTypeOK /\ Serving(d) /\ hook[d].at = "capture"
  BY DEF Serves, Capture, CaptureFails, CaptureRefused
<1>1. /\ r \in Ref /\ owner[r] \in CartOrder /\ owner[r] # None
      /\ hook[d].kind # "fail" /\ ledger[<<r, hook[d].kind>>] # "unsent"
      /\ hook[d].kind \in EventKind
  BY <1>0, CheckoutAssumption DEF Serving, CheckoutTypeOK, HookState
<1>2. /\ HookMoved(d) /\ hook'[d].at \in {"confirm", "release"}
      /\ hook'[d].ref = r /\ hook'[d].kind = hook[d].kind
  BY HookMoves DEF Capture, CaptureFails, CaptureRefused, HookPlace
<1>3. /\ UNCHANGED <<cart, status, owner, payment, shown, client, edits, announced>>
      /\ intent' = intent \/ intent' = [intent EXCEPT ![r] = "captured"]
      /\ faults' \in 0 .. MaxFaults
  BY <1>0, CheckoutAssumption DEF Capture, CaptureFails, CaptureRefused, OnPayment, CheckoutTypeOK
<1>4. ledger' = ledger \/ ledger' = [ledger EXCEPT ![<<r, "fail">>] = "sent"]
  <2>1. CASE ledger' = ledger
    BY <2>1
  <2>2. CASE ledger' # ledger
    <3>1. Send(<<r, "fail">>)
      BY <2>2 DEF Capture, CaptureFails, CaptureRefused, OnPayment
    <3> QED
      BY <2>2, <3>1 DEF Send, CheckoutTypeOK
  <2> QED
    BY <2>1, <2>2
<1>5. /\ \A q \in Ref : intent[q] # "none" => intent'[q] # "none"
      /\ intent' \in [Ref -> {"none", "open", "approved", "captured"}]
  BY <1>0, <1>3 DEF CheckoutTypeOK
<1>6. /\ \A q \in Ref : \A k \in EventKind \ {"fail"} : ledger'[<<q, k>>] = ledger[<<q, k>>]
      /\ \A q \in Ref \ {r} : ledger'[<<q, "fail">>] = ledger[<<q, "fail">>]
      /\ ledger' \in [HookEvent -> {"unsent", "sent", "seen", "processed"}]
      /\ Sent
  <2> DEFINE f == <<r, "fail">>
  <2>1. f \in HookEvent /\ ledger \in [HookEvent -> {"unsent", "sent", "seen", "processed"}]
    BY <1>0, <1>1 DEF CheckoutTypeOK, HookEvent, EventKind
  <2>2. \A q \in Ref, k \in EventKind : <<q, k>> \in HookEvent /\ (<<q, k>> = f => q = r /\ k = "fail")
    BY DEF HookEvent
  <2>3. ledger' = ledger \/ ledger' = [ledger EXCEPT ![f] = "sent"]
    BY <1>4
  <2> HIDE DEF f
  <2>4. /\ ledger' \in [HookEvent -> {"unsent", "sent", "seen", "processed"}]
        /\ \A e \in HookEvent : ledger'[e] = ledger[e] \/ (e = f /\ ledger'[e] = "sent")
    BY <2>1, <2>3
  <2>5. Sent
    BY <2>4 DEF Sent
  <2>6. "fail" \in EventKind
    BY DEF EventKind
  <2> QED
    BY <2>2, <2>4, <2>5, <2>6
<1>7. CheckoutTypeOK'
  BY <1>0, <1>2, <1>3, <1>5, <1>6 DEF CheckoutTypeOK, HookMoved
<1>8. Carries'
  BY <1>3, <1>5 DEF Carries, Carried
<1>9. Backed'
  BY <1>1, <1>3, <1>5, <1>6 DEF Backed
<1>10. Serving(d)'
  BY <1>1, <1>2, <1>3, <1>6 DEF Serving
<1>11. Serves' /\ OneAnnouncer' /\ Occasioned'
  BY <1>2, <1>3, <1>6, <1>10, DeliveryStep
<1>12. OneLivePayment'
  BY <1>3 DEF OneLivePayment, PendingOrders
<1>13. OneCapture'
  BY <1>0, <1>2, <1>3 DEF OneCapture, HookMoved
<1>14. NoForgottenSuccess'
  BY <1>3, <1>6 DEF NoForgottenSuccess, EventKind
<1> QED
  BY <1>7, <1>8, <1>9, <1>11, <1>12, <1>13, <1>14

LEMMA PayStep ==
  ASSUME Checked, NEW d \in Hook, Pay(d)
  PROVE  Checked'
<1> USE DEF Checked, In
<1> DEFINE o == owner[hook[d].ref]
<1>0. CheckoutTypeOK /\ Serving(d) /\ hook[d].at = "pay"
  BY DEF Serves, Pay
<1>1. CASE ~StillPending(d)
  <2>1. HookMoved(d) /\ hook'[d].at = "idle"
    BY <1>1, HookMoves DEF Pay
  <2>2. OnPayment /\ payment' = payment
    BY <1>1 DEF Pay, OnPayment
  <2>3. Serving(d)'
    BY <2>1 DEF Serving
  <2> QED
    BY <1>0, <2>1, <2>2, <2>3, SettleStep
<1>2. CASE StillPending(d)
  <2>1. /\ hook[d].ref \in Ref /\ o \in CartOrder /\ status[o] = "pending"
        /\ hook[d].kind = "confirm" /\ ledger[<<hook[d].ref, "confirm">>] # "unsent"
    BY <1>0, <1>2 DEF Serving, StillPending, Paid
  <2>2. /\ HookMoved(d) /\ hook'[d].at = "enqueue"
        /\ hook'[d].ref = hook[d].ref /\ hook'[d].kind = hook[d].kind
        /\ status' = [status EXCEPT ![o] = "paid"]
        /\ UNCHANGED <<cart, owner, payment, intent, shown, client, edits, ledger, announced, faults>>
    BY <1>2, HookMoves DEF Pay, Paid, HookPlace
  <2>3. /\ \A p \in CartOrder : status[p] # "none" => status'[p] # "none"
        /\ \A p \in CartOrder : status[p] \in {"paid", "cancelled"} => status'[p] \in {"paid", "cancelled"}
        /\ \A p \in CartOrder : status'[p] = "pending" => status[p] = "pending"
        /\ status'[o] = "paid"
    BY <2>1, <2>2 DEF CheckoutTypeOK
  <2>4. CheckoutTypeOK'
    BY <2>2 DEF CheckoutTypeOK, HookMoved
  <2>5. Carries'
    BY <2>2, <2>3 DEF Carries, Carried
  <2>6. Backed'
    <3>1. \A r \in Ref : owner[r] # None => owner[r] \in CartOrder
      BY DEF CheckoutTypeOK
    <3> QED
      BY <2>2, <2>3, <3>1 DEF Backed
  <2>7. Serves'
    <3> SUFFICES ASSUME NEW g \in Hook
                 PROVE  Serving(g)'
      BY DEF Serves
    <3>1. CASE g = d
      BY <3>1, <2>1, <2>2, <2>3 DEF Serving
    <3>2. CASE g # d
      BY <3>2, <2>2, <2>3 DEF Serves, Serving, HookMoved
    <3> QED
      BY <3>1, <3>2
  <2>8. OneLivePayment'
    BY <2>2, <2>3 DEF OneLivePayment, PendingOrders
  <2>9. OneCapture'
    BY <2>2 DEF OneCapture, HookMoved
  <2>10. OneAnnouncer'
    <3>1. announced[o] = 0
      BY <2>1 DEF OneAnnouncer
    <3>2. \A g \in Hook : hook[g].at = "enqueue" =>
            owner[hook[g].ref] # o /\ g # d
      BY <1>0, <2>1 DEF Serves, Serving
    <3> QED
      BY <2>1, <2>2, <2>3, <3>1, <3>2 DEF OneAnnouncer, HookMoved
  <2>11. Occasioned' /\ NoForgottenSuccess'
    BY <2>2, <2>3 DEF Occasioned, NoForgottenSuccess
  <2> QED
    BY <2>4, <2>5, <2>6, <2>7, <2>8, <2>9, <2>10, <2>11
<1> QED
  BY <1>1, <1>2

LEMMA EnqueueStep ==
  ASSUME Checked, NEW d \in Hook, Enqueue(d)
  PROVE  Checked'
<1> USE DEF Checked, In
<1> DEFINE o == owner[hook[d].ref]
<1>0. CheckoutTypeOK /\ Serving(d) /\ hook[d].at = "enqueue"
  BY DEF Serves, Enqueue
<1>1. /\ hook[d].ref \in Ref /\ o \in CartOrder /\ status[o] \in {"paid", "cancelled"}
      /\ hook[d].kind = "confirm" /\ ledger[<<hook[d].ref, "confirm">>] # "unsent"
      /\ announced[o] = 0
  BY <1>0 DEF Serving, OneAnnouncer
<1>2. /\ HookMoved(d) /\ hook'[d].at = "clear"
      /\ hook'[d].ref = hook[d].ref /\ hook'[d].kind = hook[d].kind
      /\ announced' = [announced EXCEPT ![o] = announced[o] + 1]
      /\ UNCHANGED <<checkoutVars, ledger, faults>>
  BY HookMoves DEF Enqueue, Paid, HookPlace
<1>3. announced'[o] = 1 /\ \A p \in CartOrder \ {o} : announced'[p] = announced[p]
  BY <1>1, <1>2 DEF CheckoutTypeOK
<1>4. CheckoutTypeOK'
  <2>1. announced' \in [CartOrder -> Nat]
    BY <1>1, <1>2 DEF CheckoutTypeOK
  <2>2. hook' \in [Hook -> HookState]
    BY <1>2 DEF HookMoved
  <2> HIDE DEF Checked
  <2> QED
    BY <1>0, <1>2, <2>1, <2>2 DEF CheckoutTypeOK, checkoutVars
<1>5. Carries' /\ Backed'
  BY <1>2 DEF Carries, Carried, Backed, checkoutVars
<1>6. Serves'
  <2> SUFFICES ASSUME NEW g \in Hook
               PROVE  Serving(g)'
    BY DEF Serves
  <2>1. CASE g = d
    BY <2>1, <1>1, <1>2 DEF Serving, checkoutVars
  <2>2. CASE g # d
    BY <2>2, <1>2 DEF Serves, Serving, HookMoved, checkoutVars
  <2> QED
    BY <2>1, <2>2
<1>7. OneLivePayment' /\ OneCapture'
  BY <1>2 DEF OneLivePayment, PendingOrders, OneCapture, HookMoved, checkoutVars
<1>8. OneAnnouncer'
  <2>1. \A g \in Hook : hook'[g].at = "enqueue" =>
          /\ g # d /\ hook'[g] = hook[g]
          /\ owner[hook[g].ref] \in CartOrder \ {o}
    BY <1>0, <1>1, <1>2 DEF OneAnnouncer, HookMoved, Serves, Serving
  <2>2. \A p \in CartOrder : announced'[p] # 0 => announced'[p] = 1 /\ status'[p] \in {"paid", "cancelled"}
    BY <1>1, <1>2, <1>3 DEF OneAnnouncer, checkoutVars
  <2>3. \A g \in Hook : hook'[g].at = "enqueue" => announced'[owner'[hook'[g].ref]] = 0
    BY <1>2, <1>3, <2>1 DEF OneAnnouncer, checkoutVars
  <2> QED
    BY <1>2, <2>1, <2>2, <2>3 DEF OneAnnouncer, checkoutVars
<1>9. Occasioned' /\ NoForgottenSuccess'
  BY <1>1, <1>2, <1>3 DEF Occasioned, NoForgottenSuccess, checkoutVars
<1> QED
  BY <1>4, <1>5, <1>6, <1>7, <1>8, <1>9

\* Steps after which only the delivery, the ledger or the cart are different.
LEMMA LedgerStep ==
  ASSUME Checked, NEW d \in Hook, HookMoved(d), Serving(d)',
         hook'[d].at \notin {"enqueue", "capture", "release"},
         UNCHANGED <<status, owner, payment, intent, shown, client, edits, announced>>,
         cart' \in BOOLEAN, faults' \in 0 .. MaxFaults,
         NEW e \in HookEvent, NEW s \in {"seen", "processed"},
         ledger' = ledger \/ ledger' = [ledger EXCEPT ![e] = s],
         ledger' # ledger => owner[e[1]] # None,
         ledger' # ledger /\ s = "processed" /\ e[2] = "confirm" =>
           owner[e[1]] \in CartOrder /\ status[owner[e[1]]] \in {"paid", "cancelled"}
  PROVE  Checked'
<1> USE DEF Checked
<1>1. PICK r \in Ref, k \in EventKind : e = <<r, k>>
  BY DEF HookEvent
<1>2. /\ ledger' \in [HookEvent -> {"unsent", "sent", "seen", "processed"}]
      /\ \A q \in Ref, j \in EventKind :
           <<q, j>> # e => ledger'[<<q, j>>] = ledger[<<q, j>>]
      /\ ledger' # ledger => ledger'[<<r, k>>] = s
      /\ Sent
  BY <1>1 DEF CheckoutTypeOK, HookEvent, Sent
<1>3. CheckoutTypeOK'
  BY <1>2 DEF CheckoutTypeOK, HookMoved
<1>4. Carries'
  BY DEF Carries, Carried
<1>5. Backed'
  BY <1>1, <1>2 DEF Backed
<1>6. Serves' /\ OneAnnouncer' /\ Occasioned'
  BY <1>2, DeliveryStep
<1>7. OneLivePayment'
  BY DEF OneLivePayment, PendingOrders
<1>8. OneCapture'
  BY DEF OneCapture, HookMoved
<1>9. NoForgottenSuccess'
  BY <1>1, <1>2 DEF NoForgottenSuccess, EventKind
<1> QED
  BY <1>3, <1>4, <1>5, <1>6, <1>7, <1>8, <1>9

LEMMA BeginStep ==
  ASSUME Checked, NEW d \in Hook, NEW e \in HookEvent, Begin(d, e)
  PROVE  Checked'
<1> USE DEF Checked
<1>1. PICK r \in Ref, k \in EventKind : e = <<r, k>>
  BY DEF HookEvent
<1>2. /\ owner[r] # None /\ owner[r] \in CartOrder
  <2>1. ledger[<<r, k>>] # "unsent"
    BY <1>1 DEF Begin, Unprocessed
  <2>2. owner[r] # None
    BY <2>1 DEF Backed
  <2> QED
    BY <2>2 DEF CheckoutTypeOK
<1>3. /\ HookMoved(d) /\ hook'[d].ref = r /\ hook'[d].kind = k
      /\ hook'[d].at = IF k = "fail" THEN "fail" ELSE IF r \in Paypal THEN "claim" ELSE "confirm"
  BY <1>1 DEF Begin, HookMoved, HookState, CheckoutTypeOK
<1>4. /\ UNCHANGED <<cart, status, owner, payment, intent, shown, client, edits, announced, faults>>
      /\ ledger' = [ledger EXCEPT ![e] = "seen"]
      /\ cart' \in BOOLEAN /\ faults' \in 0 .. MaxFaults
  BY DEF Begin, checkoutVars, CheckoutTypeOK
<1>5. Serving(d)'
  <2>1. ledger'[<<r, k>>] # "unsent"
    BY <1>1, <1>4 DEF CheckoutTypeOK
  <2> QED
    BY <1>2, <1>3, <1>4, <2>1 DEF Serving
<1> QED
  BY <1>1, <1>2, <1>3, <1>4, <1>5, LedgerStep

LEMMA EndStep ==
  ASSUME Checked, NEW d \in Hook, Clear(d) \/ Mark(d) \/ HookFails(d)
  PROVE  Checked'
<1> USE DEF Checked, In
<1>0. CheckoutTypeOK /\ Serving(d) /\ hook[d].at # "idle"
  BY DEF Serves, Clear, Mark, HookFails
<1> DEFINE e == <<hook[d].ref, hook[d].kind>>
<1>1. e \in HookEvent /\ owner[hook[d].ref] # None
  BY <1>0, CheckoutAssumption DEF Serving, HookEvent, CheckoutTypeOK, HookState
<1>2. CASE Clear(d)
  <2>1. /\ HookMoved(d) /\ hook'[d].at = "mark"
        /\ hook'[d].ref = hook[d].ref /\ hook'[d].kind = hook[d].kind
    BY <1>0, <1>2, HookMoves DEF Clear, HookPlace
  <2>2. /\ UNCHANGED <<status, owner, payment, intent, shown, client, edits, announced, ledger, faults>>
        /\ cart' \in BOOLEAN /\ faults' \in 0 .. MaxFaults
    BY <1>0, <1>2 DEF Clear, CheckoutTypeOK
  <2>3. Serving(d)'
    BY <1>0, <1>2, <2>1, <2>2 DEF Serving, Clear
  <2> QED
    BY <1>1, <2>1, <2>2, <2>3, LedgerStep
<1>3. CASE Mark(d)
  <2>1. HookMoved(d) /\ hook'[d].at = "idle"
    BY <1>0, <1>3, HookMoves DEF Mark
  <2>2. /\ UNCHANGED <<cart, status, owner, payment, intent, shown, client, edits, announced, faults>>
        /\ ledger' = [ledger EXCEPT ![e] = "processed"]
        /\ cart' \in BOOLEAN /\ faults' \in 0 .. MaxFaults
    BY <1>0, <1>3 DEF Mark, checkoutVars, CheckoutTypeOK
  <2>3. Serving(d)'
    BY <2>1 DEF Serving
  <2>4. hook[d].kind = "confirm" =>
          owner[hook[d].ref] \in CartOrder /\ status[owner[hook[d].ref]] \in {"paid", "cancelled"}
    BY <1>0, <1>3 DEF Serving, Mark
  <2> QED
    BY <1>1, <2>1, <2>2, <2>3, <2>4, LedgerStep
<1>4. CASE HookFails(d)
  <2>1. HookMoved(d) /\ hook'[d].at = "idle"
    BY <1>0, <1>4, HookMoves DEF HookFails
  <2>2. /\ UNCHANGED <<cart, status, owner, payment, intent, shown, client, edits, announced, ledger>>
        /\ cart' \in BOOLEAN /\ faults' \in 0 .. MaxFaults
    BY <1>0, <1>4, CheckoutAssumption DEF HookFails, checkoutVars, CheckoutTypeOK
  <2>3. Serving(d)'
    BY <2>1 DEF Serving
  <2> QED
    BY <1>1, <2>1, <2>2, <2>3, LedgerStep
<1> QED
  BY <1>2, <1>3, <1>4


-----------------------------------------------------------------------------
\* The shopper changes the cart, confirms, is declined or approves.
LEMMA ShopperStep ==
  ASSUME Checked, UNCHANGED <<status, owner, payment, shown, client, hook, announced, faults>>,
         cart' \in BOOLEAN, edits' \in 0 .. MaxEdits,
         NEW r \in Ref, NEW k \in EventKind,
         \/ UNCHANGED <<intent, ledger>>
         \/ /\ r \in shown
            /\ intent' \in [Ref -> {"none", "open", "approved", "captured"}]
            /\ \A q \in Ref : intent[q] # "none" => intent'[q] # "none"
            /\ Send(<<r, k>>)
  PROVE  Checked'
<1> USE DEF Checked
<1>1. /\ ledger' \in [HookEvent -> {"unsent", "sent", "seen", "processed"}]
      /\ \A e \in HookEvent : ledger'[e] = ledger[e] \/ (ledger'[e] = "sent" /\ e = <<r, k>> /\ r \in shown)
  <2>1. CASE UNCHANGED ledger
    BY <2>1 DEF CheckoutTypeOK
  <2>2. CASE r \in shown /\ Send(<<r, k>>)
    <3>1. <<r, k>> \in HookEvent
      BY DEF HookEvent
    <3>2. ledger' = [ledger EXCEPT ![<<r, k>>] = IF @ = "unsent" THEN "sent" ELSE @]
      BY <2>2 DEF Send
    <3> DEFINE e == <<r, k>>
    <3> HIDE DEF e
    <3>3. e \in HookEvent /\ ledger' = [ledger EXCEPT ![e] = IF @ = "unsent" THEN "sent" ELSE @]
      BY <3>1, <3>2 DEF e
    <3>4. /\ ledger' \in [HookEvent -> {"unsent", "sent", "seen", "processed"}]
          /\ \A f \in HookEvent : ledger'[f] = ledger[f] \/ (ledger'[f] = "sent" /\ f = e)
      BY <3>3 DEF CheckoutTypeOK
    <3> QED
      BY <2>2, <3>4 DEF e
  <2> QED
    BY <2>1, <2>2
<1>2. /\ intent' \in [Ref -> {"none", "open", "approved", "captured"}]
      /\ \A q \in Ref : intent[q] # "none" => intent'[q] # "none"
  BY DEF CheckoutTypeOK
<1>3. \A q \in Ref : \A j \in EventKind :
        \/ ledger'[<<q, j>>] = ledger[<<q, j>>]
        \/ ledger'[<<q, j>>] = "sent" /\ owner[q] # None
  BY <1>1 DEF HookEvent, CheckoutTypeOK
<1>4. CheckoutTypeOK'
  BY <1>1, <1>2 DEF CheckoutTypeOK
<1>5. Carries'
  BY <1>2 DEF Carries, Carried
<1>6. Backed'
  BY <1>2, <1>3 DEF Backed
<1>7. Serves' /\ OneCapture' /\ OneAnnouncer'
  <2>1. \A d \in Hook : hook[d].kind \in EventKind
    BY DEF CheckoutTypeOK, HookState
  <2>2. Serves'
    BY <1>3, <2>1 DEF Serves, Serving
  <2> QED
    BY <2>2 DEF OneCapture, OneAnnouncer
<1>8. OneLivePayment'
  BY DEF OneLivePayment, PendingOrders
<1>9. Occasioned' /\ NoForgottenSuccess'
  <2>1. \A q \in Ref :
          \/ ledger'[<<q, "confirm">>] = ledger[<<q, "confirm">>]
          \/ ledger'[<<q, "confirm">>] = "sent"
    BY <1>3 DEF EventKind
  <2>2. Occasioned'
    BY <2>1 DEF Occasioned
  <2> QED
    BY <2>1, <2>2 DEF NoForgottenSuccess
<1> QED
  BY <1>4, <1>5, <1>6, <1>7, <1>8, <1>9

LEMMA ProviderStep ==
  ASSUME Checked, NEW r \in Ref, Charge(r) \/ Decline(r) \/ Approve(r)
  PROVE  Checked'
<1>1. /\ UNCHANGED <<status, owner, payment, shown, client, hook, announced, faults>>
      /\ cart' \in BOOLEAN /\ edits' \in 0 .. MaxEdits
  BY DEF Checked, CheckoutTypeOK, Charge, Decline, Approve, Provided
<1>2. CASE Charge(r) \/ Approve(r)
  <2>1. /\ r \in shown
        /\ intent' \in [Ref -> {"none", "open", "approved", "captured"}]
        /\ \A q \in Ref : intent[q] # "none" => intent'[q] # "none"
    BY <1>2 DEF Checked, CheckoutTypeOK, Charge, Approve
  <2>2. PICK k \in EventKind : Send(<<r, k>>)
    BY <1>2 DEF Charge, Approve, SendSuccess, EventKind
  <2> QED
    BY <1>1, <2>1, <2>2, ShopperStep
<1>3. CASE Decline(r)
  <2>1. /\ r \in shown
        /\ intent' \in [Ref -> {"none", "open", "approved", "captured"}]
        /\ \A q \in Ref : intent[q] # "none" => intent'[q] # "none"
    BY <1>3 DEF Checked, CheckoutTypeOK, Decline
  <2>2. "fail" \in EventKind /\ Send(<<r, "fail">>)
    BY <1>3 DEF Decline, EventKind
  <2> QED
    BY <1>1, <2>1, <2>2, ShopperStep
<1> QED
  BY <1>2, <1>3

LEMMA EditStep ==
  ASSUME Checked, EditCart \/ UNCHANGED storefrontVars
  PROVE  Checked'
<1>1. /\ UNCHANGED <<status, owner, payment, intent, shown, client, hookVars>>
      /\ cart' \in BOOLEAN /\ edits' \in 0 .. MaxEdits
  <2>1. CASE EditCart
    <3>1. /\ UNCHANGED <<status, owner, payment, intent, shown, client, hookVars>>
          /\ cart' \in BOOLEAN
      BY <2>1 DEF EditCart
    <3>2. edits' \in 0 .. MaxEdits
      BY <2>1, CheckoutAssumption DEF EditCart, Checked, CheckoutTypeOK
    <3> QED
      BY <3>1, <3>2
  <2>2. CASE UNCHANGED storefrontVars
    BY <2>2 DEF Checked, CheckoutTypeOK, storefrontVars, checkoutVars
  <2> QED
    BY <2>1, <2>2
<1> USE DEF Checked, hookVars
<1>2. CheckoutTypeOK'
  BY <1>1 DEF CheckoutTypeOK
<1>3. Carries' /\ Backed' /\ Serves'
  BY <1>1 DEF Carries, Carried, Backed, Serves, Serving
<1>4. OneLivePayment' /\ OneCapture'
  BY <1>1 DEF OneLivePayment, PendingOrders, OneCapture
<1>5. OneAnnouncer' /\ Occasioned' /\ NoForgottenSuccess'
  BY <1>1 DEF OneAnnouncer, Occasioned, NoForgottenSuccess
<1> QED
  BY <1>2, <1>3, <1>4, <1>5
-----------------------------------------------------------------------------
\* The initial state satisfies the invariant.
LEMMA InitChecked == CheckoutInit => Checked
<1> SUFFICES ASSUME CheckoutInit PROVE Checked
  OBVIOUS
<1> USE DEF CheckoutInit
<1>1. CheckoutTypeOK
  BY CheckoutAssumption DEF CheckoutTypeOK, ClientState, HookState, EventKind, Waiting, Free
<1>2. Carries /\ Backed /\ Serves
  BY DEF Carries, Carried, Backed, Serves, Serving, Waiting, Free, HookEvent
<1>3. OneLivePayment /\ OneCapture /\ OneAnnouncer /\ Occasioned /\ NoForgottenSuccess
  BY DEF OneLivePayment, PendingOrders, OneCapture, OneAnnouncer, Occasioned, NoForgottenSuccess,
         Free, HookEvent, EventKind
<1> QED
  BY <1>1, <1>2, <1>3 DEF Checked

LEMMA ServeStep ==
  ASSUME Checked, NEW d \in Hook, Serve(d)
  PROVE  Checked'
<1>1. CASE \/ ReadConfirm(d) \/ Settle(d) \/ ReadFail(d) \/ Refuse(d) \/ ReadOrder(d)
           \/ Claim(d) /\ ~Claimed(d)
  BY <1>1, ConfirmStep
<1>2. CASE Claim(d) /\ Claimed(d)
  BY <1>2, ClaimStep
<1>3. CASE Capture(d) \/ CaptureRefused(d) \/ Release(d) \/ Pay(d)
  BY <1>3, CaptureStep, ReleaseStep, PayStep
<1>4. CASE Enqueue(d) \/ Clear(d) \/ Mark(d)
  BY <1>4, EnqueueStep, EndStep
<1> QED
  BY <1>1, <1>2, <1>3, <1>4 DEF Serve

(* The invariant holds for any number of requests and deliveries, orders and *)
(* references, whatever fails in between.                                    *)
THEOREM CheckedAlways == CheckoutSpec => []Checked
<1>1. ASSUME Checked, [CheckoutNext]_storefrontVars
      PROVE  Checked'
  <2>1. ASSUME NEW c \in Client, ClientStep(c)
        PROVE  Checked'
    BY <1>1, <2>1, ClientStepChecked
  <2>2. ASSUME NEW r \in Ref, Charge(r) \/ Decline(r) \/ Approve(r)
        PROVE  Checked'
    BY <1>1, <2>2, ProviderStep
  <2>3. ASSUME NEW d \in Hook, NEW e \in HookEvent, Begin(d, e)
        PROVE  Checked'
    BY <1>1, <2>3, BeginStep
  <2>4. ASSUME NEW d \in Hook, Serve(d) \/ CaptureFails(d) \/ HookFails(d)
        PROVE  Checked'
    BY <1>1, <2>4, ServeStep, CaptureStep, EndStep
  <2>5. CASE EditCart \/ UNCHANGED storefrontVars
    BY <1>1, <2>5, EditStep
  <2> QED
    BY <1>1, <2>1, <2>2, <2>3, <2>4, <2>5 DEF CheckoutNext
<1> QED
  BY <1>1, InitChecked, PTL DEF CheckoutSpec

(* Payments belong to orders and shown references to payments, in every      *)
(* state (the controllers and services of checkout and webhooks).            *)
THEOREM TypeCorrect == CheckoutSpec => []CheckoutTypeOK
<1>1. Checked => CheckoutTypeOK
  BY DEF Checked
<1> QED
  BY <1>1, CheckedAlways, PTL

(* The two partial unique indexes keep the cart at one pending order and an  *)
(* order at one pending payment, through races and released captures.        *)
THEOREM OneLivePaymentAlways == CheckoutSpec => []OneLivePayment
<1>1. Checked => OneLivePayment
  BY DEF Checked
<1> QED
  BY <1>1, CheckedAlways, PTL

(* claimForConfirmation lets one delivery at a time capture a PayPal order.  *)
THEOREM OneCaptureAlways == CheckoutSpec => []OneCapture
<1>1. Checked => OneCapture
  BY DEF Checked
<1> QED
  BY <1>1, CheckedAlways, PTL

(* The conditional update of transitionOrder lets one delivery at most       *)
(* announce an order as paid, and the comparison of the amounts only one     *)
(* that serves a success of the amount its payment is for.                   *)
THEOREM AnnouncedOnceAlways == CheckoutSpec => []AnnouncedOnce
<1>1. Checked => AnnouncedOnce
  <2> SUFFICES ASSUME Checked, NEW o \in CartOrder
               PROVE  /\ announced[o] <= 1
                      /\ announced[o] = 1 =>
                           \E r \in Ref : owner[r] = o /\ ledger[<<r, "confirm">>] # "unsent"
    BY DEF AnnouncedOnce
  <2>1. announced[o] = 0 \/ announced[o] = 1
    BY DEF Checked, OneAnnouncer
  <2>2. announced[o] = 1 => announced[o] # 0
    OBVIOUS
  <2>3. announced[o] <= 1
    BY <2>1
  <2> QED
    BY <2>2, <2>3 DEF Checked, Occasioned
<1> QED
  BY <1>1, CheckedAlways, PTL

(* For a success of the payment's own amount and currency markProcessed is   *)
(* reached only after the order has left pending, on every path through the  *)
(* webhook controller.  A success of another amount may leave it pending.    *)
THEOREM NoForgottenSuccessAlways == CheckoutSpec => []NoForgottenSuccess
<1>1. Checked => NoForgottenSuccess
  BY DEF Checked
<1> QED
  BY <1>1, CheckedAlways, PTL
=============================================================================
