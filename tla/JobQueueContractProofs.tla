----------------------- MODULE JobQueueContractProofs -----------------------
(***************************************************************************)
(* Proofs about JobQueueContract, for every set of jobs, tokens and        *)
(* budgets.  The inductive invariants BudgetInv and TokenInv add to the    *)
(* safety invariants what they rest on: an identity that is not stored has *)
(* a clean slate, and a token never issued has never been settled.         *)
(***************************************************************************)
EXTENDS JobQueueContract, TLAPS

AbsentIsClean ==
  \A j \in Job : status[j] = "absent" => attempts[j] = 0

UnissuedIsOpen ==
  \A t \in Token : t \notin AllIssued => outcome[t] = "open"

BudgetInv == TypeOK /\ BudgetSpentExactly /\ AbsentIsClean
TokenInv  == TypeOK /\ TokensFence /\ UnissuedIsOpen

-----------------------------------------------------------------------------
LEMMA TypeInit == Init => TypeOK
  BY ContractAssumption DEF Init, TypeOK, Status, Terminal

LEMMA TypeStep == TypeOK /\ [Next]_vars => TypeOK'
<1> SUFFICES ASSUME TypeOK, [Next]_vars PROVE TypeOK'
  OBVIOUS
<1> USE ContractAssumption
<1>1. ASSUME NEW B \in SUBSET Job, NEW b \in [B -> Budget], Enqueue(B, b) PROVE TypeOK'
  <2>1. \A j \in B : b[j] \in Nat
    BY <1>1
  <2>2. status' \in [Job -> Status]
    BY <1>1 DEF TypeOK, Enqueue, Status
  <2>3. maxAttempts' \in [Job -> Nat]
    BY <1>1, <2>1 DEF TypeOK, Enqueue
  <2> QED
    BY <1>1, <2>2, <2>3 DEF TypeOK, Enqueue
<1>2. ASSUME NEW D \in SUBSET Exhausted, NEW C \in SUBSET Claimable,
             NEW R \in SUBSET (Abandoned \ C), NEW X \in SUBSET C,
             NEW fresh \in [C -> Token \ AllIssued], Claim(D, R, C, X, fresh)
      PROVE TypeOK'
  <2>1. status' \in [Job -> Status]
    BY <1>2 DEF TypeOK, Claim, Status
  <2>2. attempts' \in [Job -> Nat]
    BY <1>2 DEF TypeOK, Claim
  <2>3. token' \in [Job -> Token \cup {NoToken}]
    BY <1>2 DEF TypeOK, Claim
  <2>4. lapsed' \in [Job -> BOOLEAN]
    BY <1>2 DEF TypeOK, Claim
  <2>5. issued' \in [Job -> SUBSET Token]
    BY <1>2 DEF TypeOK, Claim
  <2> QED
    BY <1>2, <2>1, <2>2, <2>3, <2>4, <2>5 DEF TypeOK, Claim
<1>3. ASSUME NEW j \in Job, NEW t \in Token, Ack(j, t) PROVE TypeOK'
  BY <1>3 DEF TypeOK, Ack, Release, Status
<1>4. ASSUME NEW j \in Job, NEW t \in Token, NEW w \in BOOLEAN, Fail(j, t, w)
      PROVE TypeOK'
  BY <1>4 DEF TypeOK, Fail, Release, Status
<1>5. ASSUME NEW j \in Job, NEW b \in Budget, RetryDeadLetter(j, b) PROVE TypeOK'
  BY <1>5 DEF TypeOK, RetryDeadLetter, NewBudget, Status
<1>6. ASSUME NEW S \in SUBSET Job, NEW st \in Terminal, PurgeTerminal(S, st)
      PROVE TypeOK'
  BY <1>6 DEF TypeOK, PurgeTerminal, Status
<1>7. ASSUME NEW L \in SUBSET Job, NEW E \in SUBSET Job, TimePasses(L, E)
      PROVE TypeOK'
  BY <1>7 DEF TypeOK, TimePasses
<1>8. CASE UNCHANGED vars
  BY <1>8 DEF TypeOK, vars
<1> QED
  BY <1>1, <1>2, <1>3, <1>4, <1>5, <1>6, <1>7, <1>8
  DEF Next, EnqueueSome, ClaimSome, AckSome, FailSome, RetrySome, PurgeSome,
      TimePassesSome

(* The state is well typed: queue and admin calls never store a budget or   *)
(* an attempt count that is not a natural number.                           *)
THEOREM TypeCorrect == Spec => []TypeOK
  BY TypeInit, TypeStep, PTL DEF Spec

-----------------------------------------------------------------------------
LEMMA BudgetInit == Init => BudgetInv
  BY TypeInit, ContractAssumption
  DEF Init, BudgetInv, TypeOK, BudgetSpentExactly, AbsentIsClean, Terminal

LEMMA BudgetStep == BudgetInv /\ [Next]_vars => BudgetInv'
<1> SUFFICES ASSUME BudgetInv, [Next]_vars, NEW j \in Job
             PROVE  /\ status'[j] = "queued" => attempts'[j] < maxAttempts'[j]
                    /\ status'[j] \in {"processing", "completed"} =>
                         attempts'[j] \in 1..maxAttempts'[j]
                    /\ status'[j] = "failed" => attempts'[j] = maxAttempts'[j]
                    /\ status'[j] = "absent" => attempts'[j] = 0
  BY TypeStep DEF BudgetInv, BudgetSpentExactly, AbsentIsClean
<1> DEFINE Kept == /\ status'[j] = "queued" => attempts'[j] < maxAttempts'[j]
                   /\ status'[j] \in {"processing", "completed"} =>
                        attempts'[j] \in 1..maxAttempts'[j]
                   /\ status'[j] = "failed" => attempts'[j] = maxAttempts'[j]
                   /\ status'[j] = "absent" => attempts'[j] = 0
<1> USE ContractAssumption DEF BudgetInv, BudgetSpentExactly, AbsentIsClean
<1>1. ASSUME NEW B \in SUBSET Job, NEW b \in [B -> Budget], Enqueue(B, b) PROVE Kept
  <2>1. CASE j \in B
    <3>1. b[j] \in Nat \ {0} /\ maxAttempts'[j] = b[j] /\ status'[j] = "queued" /\ attempts'[j] = 0
      BY <1>1, <2>1 DEF TypeOK, Enqueue
    <3> QED
      BY <3>1
  <2>2. CASE j \notin B
    BY <1>1, <2>2 DEF TypeOK, Enqueue
  <2> QED
    BY <2>1, <2>2
<1>2. ASSUME NEW D \in SUBSET Exhausted, NEW C \in SUBSET Claimable,
             NEW R \in SUBSET (Abandoned \ C), NEW X \in SUBSET C,
             NEW fresh \in [C -> Token \ AllIssued], Claim(D, R, C, X, fresh)
      PROVE Kept
  \* A claim only touches deliveries whose budget decides their fate.
  <2>1. CASE j \in D
    <3>1. status[j] = "processing" /\ attempts[j] >= maxAttempts[j] /\ j \notin Claimable
      BY <2>1 DEF Claimable, Due, Abandoned, Exhausted, Lapsed
    <3>2. attempts[j] \in 1..maxAttempts[j] /\ maxAttempts[j] \in Nat
      BY <3>1 DEF TypeOK
    <3>3. status'[j] = "failed" /\ attempts'[j] = attempts[j] /\ maxAttempts'[j] = maxAttempts[j]
      BY <1>2, <2>1, <3>1 DEF TypeOK, Claim
    <3> QED
      BY <3>1, <3>2, <3>3
  <2>2. CASE j \notin D /\ j \in R
    BY <1>2, <2>2 DEF TypeOK, Claim, Claimable, Due, Abandoned, Exhausted, Lapsed
  <2>3. CASE j \notin D /\ j \notin R /\ j \in C
    BY <1>2, <2>3 DEF TypeOK, Claim, Claimable, Due, Abandoned, Exhausted, Lapsed
  <2>4. CASE j \notin D /\ j \notin R /\ j \notin C
    BY <1>2, <2>4 DEF TypeOK, Claim
  <2> QED
    BY <2>1, <2>2, <2>3, <2>4
<1>3. ASSUME NEW i \in Job, NEW t \in Token, Ack(i, t) PROVE Kept
  BY <1>3 DEF TypeOK, Ack, Holds
<1>4. ASSUME NEW i \in Job, NEW t \in Token, NEW w \in BOOLEAN, Fail(i, t, w)
      PROVE Kept
  BY <1>4 DEF TypeOK, Fail, Holds
<1>5. ASSUME NEW i \in Job, NEW b \in Budget, RetryDeadLetter(i, b) PROVE Kept
  BY <1>5 DEF TypeOK, RetryDeadLetter, NewBudget
<1>6. ASSUME NEW S \in SUBSET Job, NEW st \in Terminal, PurgeTerminal(S, st)
      PROVE Kept
  BY <1>6 DEF TypeOK, PurgeTerminal
<1>7. ASSUME NEW L \in SUBSET Job, NEW E \in SUBSET Job, TimePasses(L, E)
      PROVE Kept
  BY <1>7 DEF TypeOK, TimePasses
<1>8. CASE UNCHANGED vars
  BY <1>8 DEF vars
<1> QED
  BY <1>1, <1>2, <1>3, <1>4, <1>5, <1>6, <1>7, <1>8
  DEF Next, EnqueueSome, ClaimSome, AckSome, FailSome, RetrySome, PurgeSome,
      TimePassesSome

(* No job is delivered more often than its budget, none is dead-lettered    *)
(* before the budget is spent, and none waits in the queue with nothing     *)
(* left of it.                                                              *)
THEOREM BudgetCorrect == Spec => []BudgetSpentExactly
<1>1. BudgetInv => BudgetSpentExactly
  BY DEF BudgetInv
<1> QED
  BY BudgetInit, BudgetStep, <1>1, PTL DEF Spec

-----------------------------------------------------------------------------
LEMMA TokenInit == Init => TokenInv
  BY TypeInit, ContractAssumption
  DEF Init, TokenInv, TypeOK, TokensFence, UnissuedIsOpen, AllIssued, Terminal

\* What TokenInv says of one job and of one token.
Fenced(j) ==
  IF status[j] = "processing"
    THEN token[j] \in issued[j] /\ outcome[token[j]] = "open"
    ELSE token[j] = NoToken

LEMMA TokenStep == TokenInv /\ [Next]_vars => TokenInv'
<1> SUFFICES ASSUME TokenInv, [Next]_vars
             PROVE  /\ \A j \in Job : Fenced(j)'
                    /\ \A i, j \in Job : i # j => issued'[i] \cap issued'[j] = {}
                    /\ \A t \in Token : t \notin AllIssued' => outcome'[t] = "open"
  BY TypeStep DEF TokenInv, TokensFence, UnissuedIsOpen, Fenced
<1> DEFINE Kept == /\ \A j \in Job : Fenced(j)'
                   /\ \A i, j \in Job : i # j => issued'[i] \cap issued'[j] = {}
                   /\ \A t \in Token : t \notin AllIssued' => outcome'[t] = "open"
<1>a. /\ \A j \in Job : Fenced(j)
      /\ \A i, j \in Job : i # j => issued[i] \cap issued[j] = {}
      /\ \A t \in Token : t \notin AllIssued => outcome[t] = "open"
      /\ TypeOK
  BY DEF TokenInv, TokensFence, UnissuedIsOpen, Fenced
<1> USE ContractAssumption
<1>1. ASSUME NEW B \in SUBSET Job, NEW b \in [B -> Budget], Enqueue(B, b) PROVE Kept
  BY <1>1, <1>a DEF TypeOK, Enqueue, Fenced, AllIssued
<1>2. ASSUME NEW D \in SUBSET Exhausted, NEW C \in SUBSET Claimable,
             NEW R \in SUBSET (Abandoned \ C), NEW X \in SUBSET C,
             NEW fresh \in [C -> Token \ AllIssued], Claim(D, R, C, X, fresh)
      PROVE Kept
  <2>0. /\ \A j \in D \cup R \cup C : j \in Job
        /\ \A j \in C : fresh[j] \in Token /\ fresh[j] \notin AllIssued
        /\ \A j \in D : j \notin C
        /\ \A j \in R : j \notin C
    BY DEF Claimable, Due, Abandoned, Exhausted, Lapsed
  <2>1. ASSUME NEW j \in Job PROVE Fenced(j)'
    <3>1. CASE j \in D \cup R
      BY <1>2, <2>0, <3>1 DEF TypeOK, Claim, Fenced
    <3>2. CASE j \notin D \cup R /\ j \in C
      BY <1>2, <1>a, <2>0, <3>2 DEF TypeOK, Claim, Fenced
    <3>3. CASE j \notin D \cup R /\ j \notin C
      BY <1>2, <1>a, <2>0, <3>3 DEF TypeOK, Claim, Fenced
    <3> QED
      BY <3>1, <3>2, <3>3
  \* Fresh tokens were issued to nobody, and differ from each other.
  <2>2. ASSUME NEW i \in Job, NEW j \in Job, i # j
        PROVE  issued'[i] \cap issued'[j] = {}
    BY <1>2, <1>a, <2>0, <2>2 DEF TypeOK, Claim, AllIssued
  <2>3. \A t \in Token : t \notin AllIssued' => t \notin AllIssued
    BY <1>2, <1>a DEF TypeOK, Claim, AllIssued
  <2> QED
    BY <1>2, <1>a, <2>1, <2>2, <2>3 DEF Claim
<1>3. ASSUME NEW i \in Job, NEW t \in Token, Ack(i, t) PROVE Kept
  BY <1>3, <1>a DEF TypeOK, Ack, Holds, Release, Fenced, AllIssued
<1>4. ASSUME NEW i \in Job, NEW t \in Token, NEW w \in BOOLEAN, Fail(i, t, w)
      PROVE Kept
  BY <1>4, <1>a DEF TypeOK, Fail, Holds, Release, Fenced, AllIssued
<1>5. ASSUME NEW i \in Job, NEW b \in Budget, RetryDeadLetter(i, b) PROVE Kept
  BY <1>5, <1>a DEF TypeOK, RetryDeadLetter, Fenced, AllIssued
<1>6. ASSUME NEW S \in SUBSET Job, NEW st \in Terminal, PurgeTerminal(S, st)
      PROVE Kept
  BY <1>6, <1>a DEF TypeOK, PurgeTerminal, Terminal, Fenced, AllIssued
<1>7. ASSUME NEW L \in SUBSET Job, NEW E \in SUBSET Job, TimePasses(L, E)
      PROVE Kept
  BY <1>7, <1>a DEF TypeOK, TimePasses, Fenced, AllIssued
<1>8. CASE UNCHANGED vars
  BY <1>8, <1>a DEF vars, Fenced, AllIssued
<1> QED
  BY <1>1, <1>2, <1>3, <1>4, <1>5, <1>6, <1>7, <1>8
  DEF Next, EnqueueSome, ClaimSome, AckSome, FailSome, RetrySome, PurgeSome,
      TimePassesSome

(* A delivery's token is its own: issued for that identity and no other,    *)
(* and not yet settled.                                                     *)
THEOREM TokensCorrect == Spec => []TokensFence
<1>1. TokenInv => TokensFence
  BY DEF TokenInv
<1> QED
  BY TokenInit, TokenStep, <1>1, PTL DEF Spec

(* A token a job once lost never becomes its current one again, and a       *)
(* settlement, once accepted for a token, is the last: a duplicated or late *)
(* ack or fail changes nothing.                                             *)
THEOREM TokensNeverReturnCorrect == Spec => TokensNeverReturn
<1> DEFINE Step == /\ \A j \in Job : token'[j] # token[j] => token'[j] \notin issued[j]
                   /\ \A t \in Token : outcome[t] # "open" => outcome'[t] = outcome[t]
<1>1. TokenInv /\ [Next]_vars => [Step]_vars
  <2> SUFFICES ASSUME TokenInv, Next PROVE Step
    OBVIOUS
  <2>a. /\ \A j \in Job : Fenced(j)
        /\ \A j \in Job : NoToken \notin issued[j]
        /\ TypeOK
    BY ContractAssumption DEF TokenInv, TokensFence, Fenced, TypeOK
  <2>1. ASSUME NEW B \in SUBSET Job, NEW b \in [B -> Budget], Enqueue(B, b) PROVE Step
    BY <2>1 DEF Enqueue
  <2>2. ASSUME NEW D \in SUBSET Exhausted, NEW C \in SUBSET Claimable,
               NEW R \in SUBSET (Abandoned \ C), NEW X \in SUBSET C,
               NEW fresh \in [C -> Token \ AllIssued], Claim(D, R, C, X, fresh)
        PROVE Step
    BY <2>2, <2>a DEF TypeOK, Claim, AllIssued
  <2>3. ASSUME NEW i \in Job, NEW t \in Token, Ack(i, t) PROVE Step
    BY <2>3, <2>a DEF TypeOK, Ack, Holds, Release, Fenced
  <2>4. ASSUME NEW i \in Job, NEW t \in Token, NEW w \in BOOLEAN, Fail(i, t, w)
        PROVE Step
    BY <2>4, <2>a DEF TypeOK, Fail, Holds, Release, Fenced
  <2>5. ASSUME NEW i \in Job, NEW b \in Budget, RetryDeadLetter(i, b) PROVE Step
    BY <2>5 DEF RetryDeadLetter
  <2>6. ASSUME NEW S \in SUBSET Job, NEW st \in Terminal, PurgeTerminal(S, st)
        PROVE Step
    BY <2>6 DEF PurgeTerminal
  <2>7. ASSUME NEW L \in SUBSET Job, NEW E \in SUBSET Job, TimePasses(L, E)
        PROVE Step
    BY <2>7 DEF TimePasses
  <2> QED
    BY <2>1, <2>2, <2>3, <2>4, <2>5, <2>6, <2>7
    DEF Next, EnqueueSome, ClaimSome, AckSome, FailSome, RetrySome, PurgeSome,
        TimePassesSome
<1> QED
  BY TokenInit, TokenStep, <1>1, PTL DEF Spec, TokensNeverReturn
=============================================================================
