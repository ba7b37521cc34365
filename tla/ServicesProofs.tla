--------------------------- MODULE ServicesProofs ---------------------------
(***************************************************************************)
(* Proofs about the Rust blueprint services, for any users, tokens,        *)
(* events, orders, payments and handlers: IamSessions, BillingWebhooks,    *)
(* OrderInventory and EcommercePayments.                                   *)
(***************************************************************************)
EXTENDS IamSessions, BillingWebhooks, EcommercePayments, SumProofs, TLAPS

-----------------------------------------------------------------------------
(***************************************************************************)
(* IamSessions: no session outlives the password it was issued under,      *)
(* none is issued to a barred user, and no deleted cookie returns.         *)
(***************************************************************************)
OneAccount == \A x, y \in accounts : x.user = y.user => x = y

\* A request about to issue a session holds the locks of the rows it read, and
\* they are as it read them.
ReadsHold ==
  \A r \in Request : stage[r] = "locked" =>
    /\ request[r].user \in User
    /\ userLock[request[r].user] = r
    /\ [user |-> request[r].user, password |-> request[r].password,
        disabled |-> FALSE] \in accounts
    /\ request[r].kind = "callback" =>
         request[r].user \in bound /\ bindingLock[request[r].user] = r

\* A password change holds the user's row, and no session of that user is
\* committed after it listed those it deletes.
ChangeHolds ==
  \A r \in Request : stage[r] \in {"rewritten", "deleted"} =>
    /\ request[r].user \in User
    /\ userLock[request[r].user] = r
    /\ stage[r] = "deleted" =>
         \A row \in sessions : row.user = request[r].user => row \in request[r].rows

Consistent == IamTypeOK /\ OneAccount /\ ReadsHold /\ ChangeHolds /\ IssuedUnderCurrentPassword

-----------------------------------------------------------------------------
\* What requests carry, for any step.
LEMMA CarriedTypes ==
  /\ Nothing \in Carried
  /\ \A u \in User, s \in State :
       [Nothing EXCEPT !.kind = "callback", !.user = u, !.state = s] \in Carried
  /\ \A u \in User, p \in 0 .. MaxPasswords :
       /\ [Nothing EXCEPT !.kind = "login", !.user = u, !.password = p] \in Carried
       /\ [Nothing EXCEPT !.kind = "password", !.user = u, !.password = p] \in Carried
  /\ [Nothing EXCEPT !.kind = "logout"] \in Carried
  /\ [Nothing EXCEPT !.kind = "csrf"] \in Carried
<1>1. Nothing \in Carried
  BY IamAssumption DEF Nothing, Carried
<1>2. ASSUME NEW u \in User, NEW s \in State
      PROVE  [Nothing EXCEPT !.kind = "callback", !.user = u, !.state = s] \in Carried
  BY <1>1 DEF Carried
<1>3. ASSUME NEW u \in User, NEW p \in 0 .. MaxPasswords
      PROVE  /\ [Nothing EXCEPT !.kind = "login", !.user = u, !.password = p] \in Carried
             /\ [Nothing EXCEPT !.kind = "password", !.user = u, !.password = p] \in Carried
  BY <1>1 DEF Carried
<1>4. /\ [Nothing EXCEPT !.kind = "logout"] \in Carried
      /\ [Nothing EXCEPT !.kind = "csrf"] \in Carried
  BY <1>1 DEF Carried
<1> QED
  BY <1>1, <1>2, <1>3, <1>4

LEMMA CarriedUpdates ==
  ASSUME NEW q \in Carried
  PROVE  /\ \A c \in Cookie, t \in Token \cup {None} :
              [q EXCEPT !.cookie = c, !.previous = t] \in Carried
         /\ \A p \in 0 .. MaxPasswords : [q EXCEPT !.password = p] \in Carried
         /\ \A t \in Token : [q EXCEPT !.token = t] \in Carried
         /\ \A R \in SUBSET SessionRow : [q EXCEPT !.rows = R] \in Carried
         /\ q.password \in 0 .. MaxPasswords
BY DEF Carried

LEMMA FirstAccount ==
  \A u \in User : [user |-> u, password |-> 0, disabled |-> FALSE] \in Account
BY IamAssumption DEF Account

LEMMA ConsistentInit == ASSUME IamInit PROVE Consistent
<1>1. IamTypeOK
  BY FirstAccount, CarriedTypes DEF IamInit, IamTypeOK, Stage
<1>2. OneAccount
  <2>1. \A x \in accounts : x = [user |-> x.user, password |-> 0, disabled |-> FALSE]
    BY DEF IamInit
  <2> QED
    BY <2>1 DEF OneAccount
<1>3. ReadsHold /\ ChangeHolds /\ IssuedUnderCurrentPassword
  BY DEF IamInit, ReadsHold, ChangeHolds, IssuedUnderCurrentPassword
<1> QED
  BY <1>1, <1>2, <1>3 DEF Consistent

-----------------------------------------------------------------------------
LEMMA LoadTypes ==
  ASSUME IamTypeOK, NEW r \in Request, NEW row \in cookies, NEW carried \in Carried,
         Load(r, row, carried)
  PROVE IamTypeOK'
<1>1. row.id \in Cookie /\ row.subject \in Token \cup {None}
  BY DEF IamTypeOK, CookieRow
<1>2. [carried EXCEPT !.cookie = row.id, !.previous = row.subject] \in Carried
  BY <1>1, CarriedUpdates
<1> QED
  BY <1>2 DEF IamTypeOK, Load, Advance, Stage, tables, locks

\* The actions keep the types.
LEMMA TypeStep ==
  ASSUME IamTypeOK, ReadsHold, [IamNext]_iamVars PROVE IamTypeOK'
<1> USE DEF IamTypeOK, tables, locks
<1>1. ASSUME NEW c \in Cookie, Visit(c) PROVE IamTypeOK'
  BY <1>1 DEF Visit, CookieRow
<1>2. ASSUME NEW c \in Cookie, EndCookie(c) PROVE IamTypeOK'
  BY <1>2 DEF EndCookie, DeleteCookie, WithoutCookie
<1>3. ASSUME NEW c \in Cookie, NEW s \in State, StartOidc(c, s) PROVE IamTypeOK'
  BY <1>3 DEF StartOidc, PendingRow
<1>4. ASSUME NEW r \in Request, NEW row \in cookies, LoadLogin(r, row) PROVE IamTypeOK'
  BY <1>4, CarriedTypes, LoadTypes DEF LoadLogin
<1>5. ASSUME NEW r \in Request, NEW row \in cookies, LoadCallback(r, row) PROVE IamTypeOK'
  BY <1>5, CarriedTypes, LoadTypes DEF LoadCallback
<1>6. ASSUME NEW r \in Request, NEW row \in cookies, LoadLogout(r, row) PROVE IamTypeOK'
  BY <1>6, CarriedTypes, LoadTypes DEF LoadLogout
<1>7. ASSUME NEW r \in Request, NEW row \in cookies, LoadCsrf(r, row) PROVE IamTypeOK'
  BY <1>7, CarriedTypes, LoadTypes DEF LoadCsrf
<1>8. ASSUME NEW r \in Request, ConsumePending(r) PROVE IamTypeOK'
  BY <1>8 DEF ConsumePending, Advance, Stage
<1>9. ASSUME NEW r \in Request, LockForLogin(r) PROVE IamTypeOK'
  BY <1>9 DEF LockForLogin, Advance, SelectForUpdate, Stage
<1>10. ASSUME NEW r \in Request, LockForCallback(r) PROVE IamTypeOK'
  <2>1. PICK p \in 0 .. MaxPasswords : request' = [request EXCEPT ![r].password = p]
    BY <1>10 DEF LockForCallback
  <2>2. request' \in [Request -> Carried]
    BY <2>1, CarriedUpdates
  <2> QED
    BY <1>10, <2>2 DEF LockForCallback, Advance, SelectForUpdate, LockBinding, Stage
<1>11. ASSUME NEW r \in Request, NEW t \in Token, IssueSession(r, t) PROVE IamTypeOK'
  <2>1. request[r].user \in User /\ request[r].password \in 0 .. MaxPasswords
    BY <1>11, CarriedUpdates DEF IssueSession, ReadsHold
  <2>2. [token |-> t, user |-> request[r].user, password |-> request[r].password] \in SessionRow
    BY <2>1 DEF SessionRow
  <2>3. request' \in [Request -> Carried]
    BY <1>11, CarriedUpdates DEF IssueSession
  <2> QED
    BY <1>11, <2>2, <2>3 DEF IssueSession, Advance, Released, Stage
<1>12. ASSUME NEW r \in Request, RevokePrevious(r) PROVE IamTypeOK'
  <2>1. sessions' \subseteq sessions
    BY <1>12 DEF RevokePrevious, WithoutToken
  <2> QED
    BY <1>12, <2>1 DEF RevokePrevious, Advance, Stage
<1>13. ASSUME NEW r \in Request, RevokeIssued(r) PROVE IamTypeOK'
  BY <1>13, CarriedTypes DEF RevokeIssued, Finish, Advance, Released, WithoutToken, Stage
<1>14. ASSUME NEW r \in Request, Establish(r) PROVE IamTypeOK'
  BY <1>14 DEF Establish, Advance, DeleteCookie, WithoutCookie, Stage
<1>15. ASSUME NEW r \in Request, NEW c \in Cookie, CreateCookie(r, c) PROVE IamTypeOK'
  <2>1. [id |-> c, subject |-> request[r].token] \in CookieRow
    BY DEF Carried, CookieRow
  <2>2. cookies' \subseteq CookieRow /\ spent' \subseteq Token \cup Cookie \cup State
    BY <1>15, <2>1 DEF CreateCookie
  <2> QED
    BY <1>15, <2>2, CarriedTypes DEF CreateCookie, Finish, Advance, Released, Stage
<1>16. ASSUME NEW r \in Request, SaveCookie(r) PROVE IamTypeOK'
  <2>1. request[r].previous \in Token \cup {None}
    BY DEF Carried
  <2>2. cookies' \subseteq CookieRow
    BY <1>16, <2>1 DEF SaveCookie, Updated, Live, WithoutCookie, CookieRow
  <2> QED
    BY <1>16, <2>2, CarriedTypes DEF SaveCookie, Finish, Advance, Released, Stage
<1>17. ASSUME NEW r \in Request, LogoutRevoke(r) PROVE IamTypeOK'
  <2>1. sessions' \subseteq sessions
    BY <1>17 DEF LogoutRevoke, WithoutToken
  <2> QED
    BY <1>17, <2>1 DEF LogoutRevoke, Advance, Stage
<1>18. ASSUME NEW r \in Request, LogoutFlush(r) PROVE IamTypeOK'
  BY <1>18, CarriedTypes DEF LogoutFlush, Finish, Advance, Released, DeleteCookie,
       WithoutCookie, Stage
<1>19. ASSUME NEW r \in Request, Abandon(r) PROVE IamTypeOK'
  BY <1>19, CarriedTypes DEF Abandon, Finish, Advance, Released, Stage
<1>20. ASSUME NEW r \in Request, NEW account \in accounts, RewritePassword(r, account) PROVE IamTypeOK'
  <2>1. account.user \in User /\ account.password + 1 \in 0 .. MaxPasswords
    BY <1>20, IamAssumption DEF RewritePassword, Account
  <2>2. request' \in [Request -> Carried]
    BY <1>20, <2>1, CarriedTypes DEF RewritePassword
  <2> QED
    BY <1>20, <2>1, <2>2 DEF RewritePassword, Advance, Stage
<1>21. ASSUME NEW r \in Request, DeleteSessions(r) PROVE IamTypeOK'
  <2>1. request' \in [Request -> Carried]
    BY <1>21, CarriedUpdates DEF DeleteSessions
  <2> QED
    BY <1>21, <2>1 DEF DeleteSessions, Advance, Stage
<1>22. ASSUME NEW r \in Request, CommitPassword(r) PROVE IamTypeOK'
  <2>1. request[r].password \in 0 .. MaxPasswords
    BY CarriedUpdates
  <2>2. \A account \in accounts : [account EXCEPT !.password = request[r].password] \in Account
    BY <2>1 DEF Account
  <2>3. accounts' \subseteq Account
    BY <1>22, <2>2 DEF CommitPassword
  <2> QED
    BY <1>22, <2>3, CarriedTypes DEF CommitPassword, Finish, Advance, Released, Stage
<1>23. ASSUME NEW account \in accounts, NEW disabled \in BOOLEAN, SetDisabled(account, disabled) PROVE IamTypeOK'
  BY <1>23 DEF SetDisabled, Account
<1>24. ASSUME NEW account \in accounts, DeleteUser(account) PROVE IamTypeOK'
  BY <1>24 DEF DeleteUser
<1>25. ASSUME NEW account \in accounts, Bind(account) PROVE IamTypeOK'
  BY <1>25 DEF Bind, Account
<1>26. ASSUME NEW u \in User, Unbind(u) PROVE IamTypeOK'
  BY <1>26 DEF Unbind
<1>27. ASSUME NEW t \in Token, EndSession(t) PROVE IamTypeOK'
  BY <1>27 DEF EndSession, WithoutToken
<1>28. CASE UNCHANGED iamVars
  BY <1>28 DEF iamVars
<1> HIDE DEF IamTypeOK, tables, locks
<1> QED
  BY <1>1, <1>2, <1>3, <1>4, <1>5, <1>6, <1>7, <1>8,
     <1>9, <1>10, <1>11, <1>12, <1>13, <1>14, <1>15, <1>16,
     <1>17, <1>18, <1>19, <1>20, <1>21, <1>22, <1>23, <1>24,
     <1>25, <1>26, <1>27, <1>28
  DEF IamNext

-----------------------------------------------------------------------------
\* A step that neither issues a session nor touches an account or what a
\* transaction has locked.
Quiet ==
  /\ accounts' = accounts
  /\ bound' = bound
  /\ sessions' \subseteq sessions
  /\ \A q \in Request : stage'[q] \in {"locked", "rewritten", "deleted"} =>
       /\ stage'[q] = stage[q]
       /\ request'[q] = request[q]
       /\ \A u \in User : /\ userLock[u] = q => userLock'[u] = q
                          /\ bindingLock[u] = q => bindingLock'[u] = q

LEMMA QuietKeeps ==
  ASSUME Consistent, Quiet
  PROVE  OneAccount' /\ ReadsHold' /\ ChangeHolds' /\ IssuedUnderCurrentPassword'
<1>1. OneAccount' /\ IssuedUnderCurrentPassword'
  BY DEF Consistent, Quiet, OneAccount, IssuedUnderCurrentPassword
<1>2. ReadsHold'
  BY DEF Consistent, Quiet, ReadsHold
<1>3. ChangeHolds'
  BY DEF Consistent, Quiet, ChangeHolds
<1> QED
  BY <1>1, <1>2, <1>3

\* The other steps, one by one.
Disturbing ==
  \/ \E r \in Request :
       \/ LockForLogin(r) \/ LockForCallback(r) \/ \E t \in Token : IssueSession(r, t)
       \/ \E account \in accounts : RewritePassword(r, account)
       \/ DeleteSessions(r) \/ CommitPassword(r)
  \/ \E account \in accounts :
       \/ \E disabled \in BOOLEAN : SetDisabled(account, disabled)
       \/ DeleteUser(account) \/ Bind(account)
  \/ \E u \in User : Unbind(u)

LEMMA QuietOrDisturbing ==
  ASSUME IamTypeOK, [IamNext]_iamVars PROVE Quiet \/ Disturbing
<1> USE DEF IamTypeOK, tables, locks, Quiet
<1>1. ASSUME NEW c \in Cookie, Visit(c) PROVE Quiet
  BY <1>1 DEF Visit
<1>2. ASSUME NEW c \in Cookie, EndCookie(c) PROVE Quiet
  BY <1>2 DEF EndCookie, DeleteCookie
<1>3. ASSUME NEW c \in Cookie, NEW s \in State, StartOidc(c, s) PROVE Quiet
  BY <1>3 DEF StartOidc
<1>4. ASSUME NEW r \in Request, NEW row \in cookies, LoadLogin(r, row) PROVE Quiet
  BY <1>4 DEF LoadLogin, Load, Advance
<1>5. ASSUME NEW r \in Request, NEW row \in cookies, LoadCallback(r, row) PROVE Quiet
  BY <1>5 DEF LoadCallback, Load, Advance
<1>6. ASSUME NEW r \in Request, NEW row \in cookies, LoadLogout(r, row) PROVE Quiet
  BY <1>6 DEF LoadLogout, Load, Advance
<1>7. ASSUME NEW r \in Request, NEW row \in cookies, LoadCsrf(r, row) PROVE Quiet
  BY <1>7 DEF LoadCsrf, Load, Advance
<1>8. ASSUME NEW r \in Request, ConsumePending(r) PROVE Quiet
  BY <1>8 DEF ConsumePending, Advance
<1>9. ASSUME NEW r \in Request, RevokePrevious(r) PROVE Quiet
  BY <1>9 DEF RevokePrevious, Advance, WithoutToken
<1>10. ASSUME NEW r \in Request, RevokeIssued(r) PROVE Quiet
  BY <1>10 DEF RevokeIssued, Finish, Advance, Released, WithoutToken
<1>11. ASSUME NEW r \in Request, Establish(r) PROVE Quiet
  BY <1>11 DEF Establish, Advance, DeleteCookie
<1>12. ASSUME NEW r \in Request, NEW c \in Cookie, CreateCookie(r, c) PROVE Quiet
  BY <1>12 DEF CreateCookie, Finish, Advance, Released
<1>13. ASSUME NEW r \in Request, SaveCookie(r) PROVE Quiet
  BY <1>13 DEF SaveCookie, Finish, Advance, Released
<1>14. ASSUME NEW r \in Request, LogoutRevoke(r) PROVE Quiet
  BY <1>14 DEF LogoutRevoke, Advance, WithoutToken
<1>15. ASSUME NEW r \in Request, LogoutFlush(r) PROVE Quiet
  BY <1>15 DEF LogoutFlush, Finish, Advance, Released, DeleteCookie
<1>16. ASSUME NEW r \in Request, Abandon(r) PROVE Quiet
  BY <1>16 DEF Abandon, Finish, Advance, Released
<1>17. ASSUME NEW t \in Token, EndSession(t) PROVE Quiet
  BY <1>17 DEF EndSession, WithoutToken
<1>18. CASE UNCHANGED iamVars
  BY <1>18 DEF iamVars
<1> HIDE DEF IamTypeOK, tables, locks, Quiet
<1> QED
  BY <1>1, <1>2, <1>3, <1>4, <1>5, <1>6, <1>7, <1>8, <1>9,
     <1>10, <1>11, <1>12, <1>13, <1>14, <1>15, <1>16, <1>17, <1>18
  DEF IamNext, Disturbing

\* Rows that a login reads are locked.
LEMMA ReadIsLocked ==
  ASSUME ReadsHold, NEW q \in Request, stage[q] = "locked", NEW u, userLock[u] = None
  PROVE  request[q].user # u
BY IamAssumption DEF ReadsHold

\* An account's row is changed by who holds its lock, and read under it.
LEMMA RowsStep ==
  ASSUME Consistent, Disturbing PROVE OneAccount' /\ ReadsHold'
<1> USE DEF Consistent, OneAccount, ReadsHold, ChangeHolds, IamTypeOK, tables, locks
<1> DEFINE Goal == OneAccount' /\ ReadsHold'
<1>1. ASSUME NEW r \in Request, LockForLogin(r) PROVE Goal
  <2>1. accounts' = accounts /\ bound' = bound /\ bindingLock' = bindingLock /\ request' = request
    BY <1>1 DEF LockForLogin
  <2>2. \A q \in Request \ {r} : stage'[q] = stage[q]
    BY <1>1 DEF LockForLogin, Advance
  <2>3. request[r].user \in User
    BY <1>1 DEF LockForLogin, Account
  <2>4. userLock' = [userLock EXCEPT ![request[r].user] = r] /\ userLock[request[r].user] = None
    BY <1>1 DEF LockForLogin, SelectForUpdate
  <2>5. request[r].kind = "login" /\ [user |-> request[r].user, password |-> request[r].password,
                                      disabled |-> FALSE] \in accounts
    BY <1>1 DEF LockForLogin
  <2>6. \A q \in Request \ {r} : stage[q] = "locked" => request[q].user # request[r].user
    BY <2>4, ReadIsLocked
  <2>7. OneAccount'
    BY <2>1
  <2>8. ReadsHold'
    BY <2>1, <2>2, <2>3, <2>4, <2>5, <2>6
  <2> QED
    BY <2>7, <2>8
<1>2. ASSUME NEW r \in Request, LockForCallback(r) PROVE Goal
  <2>1. accounts' = accounts /\ bound' = bound /\ request[r].user \in bound
    BY <1>2 DEF LockForCallback
  <2>2. PICK p \in 0 .. MaxPasswords :
          /\ [user |-> request[r].user, password |-> p, disabled |-> FALSE] \in accounts
          /\ request' = [request EXCEPT ![r].password = p]
    BY <1>2 DEF LockForCallback
  <2>3. \A q \in Request \ {r} : stage'[q] = stage[q] /\ request'[q] = request[q]
    BY <1>2, <2>2 DEF LockForCallback, Advance
  <2>4. /\ userLock' = [userLock EXCEPT ![request[r].user] = r] /\ userLock[request[r].user] = None
        /\ bindingLock' = [bindingLock EXCEPT ![request[r].user] = r]
        /\ bindingLock[request[r].user] = None
    BY <1>2 DEF LockForCallback, SelectForUpdate, LockBinding
  <2>5. request'[r].user = request[r].user /\ request'[r].password = p
    BY <2>2 DEF Carried
  <2>6. \A q \in Request \ {r} : stage[q] = "locked" => request[q].user # request[r].user
    BY <2>4, ReadIsLocked
  <2>7. request[r].user \in User
    BY <2>1
  <2>8. OneAccount'
    BY <2>1
  <2>9. ASSUME NEW q \in Request \ {r}, stage'[q] = "locked"
        PROVE  /\ userLock'[request'[q].user] = q
               /\ request'[q].kind = "callback" => bindingLock'[request'[q].user] = q
    <3>1. stage[q] = "locked" /\ request'[q] = request[q]
      BY <2>3, <2>9
    <3>2. request[q].user # request[r].user
      BY <2>6, <3>1
    <3>3. /\ userLock[request[q].user] = q
          /\ request[q].kind = "callback" => bindingLock[request[q].user] = q
      BY <3>1
    <3> QED BY <2>4, <3>1, <3>2, <3>3
  <2>10. userLock'[request[r].user] = r /\ bindingLock'[request[r].user] = r
    BY <2>4, <2>7
  <2>11. ASSUME NEW q \in Request, stage'[q] = "locked"
         PROVE  /\ request'[q].user \in User
                /\ [user |-> request'[q].user, password |-> request'[q].password,
                    disabled |-> FALSE] \in accounts
                /\ request'[q].kind = "callback" => request'[q].user \in bound
    <3>1. CASE q = r
      BY <3>1, <2>1, <2>2, <2>5, <2>7
    <3>2. CASE q # r
      BY <3>2, <2>3, <2>11
    <3> QED
      BY <3>1, <3>2
  <2>12. ReadsHold'
    BY <2>1, <2>5, <2>9, <2>10, <2>11
  <2> QED
    BY <2>8, <2>12
<1>3. ASSUME NEW r \in Request, NEW t \in Token, IssueSession(r, t) PROVE Goal
  BY <1>3 DEF IssueSession, Advance, Released
<1>4. ASSUME NEW r \in Request, NEW account \in accounts, RewritePassword(r, account) PROVE Goal
  BY <1>4, IamAssumption DEF RewritePassword, Advance
<1>5. ASSUME NEW r \in Request, DeleteSessions(r) PROVE Goal
  BY <1>5 DEF DeleteSessions, Advance
<1>6. ASSUME NEW r \in Request, CommitPassword(r) PROVE Goal
  <2> DEFINE changed(x) == IF x.user = request[r].user
                           THEN [x EXCEPT !.password = request[r].password] ELSE x
  <2>1. accounts' = {changed(x) : x \in accounts}
    BY <1>6 DEF CommitPassword
  <2>2. \A x \in accounts : changed(x).user = x.user
    BY DEF Account
  <2>3. OneAccount'
    <3>1. SUFFICES ASSUME NEW x \in accounts', NEW y \in accounts', x.user = y.user
                   PROVE  x = y
      BY DEF OneAccount
    <3>2. PICK a \in accounts, b \in accounts : x = changed(a) /\ y = changed(b)
      BY <2>1
    <3> HIDE DEF changed
    <3>3. a = b
      BY <2>2, <3>1, <3>2
    <3> QED
      BY <3>2, <3>3
  <2>4. userLock[request[r].user] = r
    BY <1>6 DEF CommitPassword
  <2>5. ASSUME NEW q \in Request, stage'[q] = "locked"
        PROVE  /\ q # r /\ stage[q] = "locked" /\ request'[q] = request[q]
               /\ request[q].user # request[r].user
    BY <1>6, <2>4, <2>5 DEF CommitPassword, Finish, Advance
  <2>6. \A x \in accounts : x.user # request[r].user => x \in accounts'
    BY <2>1
  <2>7. ReadsHold'
    BY <1>6, <2>5, <2>6 DEF CommitPassword, Finish, Released
  <2> QED
    BY <2>3, <2>7
<1>7. ASSUME NEW account \in accounts, NEW disabled \in BOOLEAN, SetDisabled(account, disabled)
      PROVE Goal
  BY <1>7, IamAssumption DEF SetDisabled, Account
<1>8. ASSUME NEW account \in accounts, DeleteUser(account) PROVE Goal
  BY <1>8, IamAssumption DEF DeleteUser
<1>9. ASSUME NEW account \in accounts, Bind(account) PROVE Goal
  BY <1>9 DEF Bind
<1>10. ASSUME NEW u \in User, Unbind(u) PROVE Goal
  BY <1>10, IamAssumption DEF Unbind
<1> HIDE DEF Goal, Consistent, OneAccount, ReadsHold, ChangeHolds, IamTypeOK, tables, locks
<1>11. Goal
  BY <1>1, <1>2, <1>3, <1>4, <1>5, <1>6, <1>7, <1>8, <1>9, <1>10 DEF Disturbing
<1> QED
  BY <1>11 DEF Goal

\* Sessions are issued and deleted under the lock of their user.
LEMMA SessionsStep ==
  ASSUME Consistent, Disturbing PROVE ChangeHolds' /\ IssuedUnderCurrentPassword'
<1> USE DEF Consistent, ReadsHold, ChangeHolds, IssuedUnderCurrentPassword, IamTypeOK,
     tables, locks
<1> DEFINE Goal == ChangeHolds' /\ IssuedUnderCurrentPassword'
<1>1. ASSUME NEW r \in Request, LockForLogin(r) PROVE Goal
  BY <1>1, IamAssumption DEF LockForLogin, Advance, SelectForUpdate
<1>2. ASSUME NEW r \in Request, LockForCallback(r) PROVE Goal
  BY <1>2, IamAssumption DEF LockForCallback, Advance, SelectForUpdate, LockBinding
<1>3. ASSUME NEW r \in Request, NEW t \in Token, IssueSession(r, t) PROVE Goal
  <2>1. /\ userLock[request[r].user] = r
        /\ [user |-> request[r].user, password |-> request[r].password,
            disabled |-> FALSE] \in accounts
    BY <1>3 DEF IssueSession
  <2>2. IssuedUnderCurrentPassword'
    BY <1>3, <2>1 DEF IssueSession
  <2>3. \A q \in Request : stage[q] \in {"rewritten", "deleted"} =>
          q # r /\ request[q].user # request[r].user
    BY <1>3, <2>1 DEF IssueSession
  <2>4. ChangeHolds'
    BY <1>3, <2>3 DEF IssueSession, Advance, Released
  <2> QED
    BY <2>2, <2>4
<1>4. ASSUME NEW r \in Request, NEW account \in accounts, RewritePassword(r, account) PROVE Goal
  <2>1. account.user \in User
    BY DEF Account
  <2>2. request'[r].user = account.user
    BY <1>4 DEF RewritePassword, Nothing
  <2> QED
    BY <1>4, <2>1, <2>2, IamAssumption DEF RewritePassword, Advance
<1>5. ASSUME NEW r \in Request, DeleteSessions(r) PROVE Goal
  <2>1. /\ request'[r].user = request[r].user
        /\ request'[r].rows = {row \in sessions : row.user = request[r].user}
    BY <1>5 DEF DeleteSessions, Carried
  <2> QED
    BY <1>5, <2>1 DEF DeleteSessions, Advance
<1>6. ASSUME NEW r \in Request, CommitPassword(r) PROVE Goal
  <2>1. ChangeHolds'
    BY <1>6 DEF CommitPassword, Finish, Advance, Released
  <2>2. \A row \in sessions' : row \in sessions /\ row.user # request[r].user
    BY <1>6 DEF CommitPassword
  <2>3. \A x \in accounts : x.user # request[r].user => x \in accounts'
    BY <1>6 DEF CommitPassword
  <2> QED
    BY <2>1, <2>2, <2>3
<1>7. ASSUME NEW account \in accounts, NEW disabled \in BOOLEAN, SetDisabled(account, disabled)
      PROVE Goal
  <2>1. ChangeHolds'
    BY <1>7 DEF SetDisabled
  <2> DEFINE changed == [account EXCEPT !.disabled = disabled]
  <2>2. changed.user = account.user /\ changed.password = account.password
    BY DEF Account
  <2>3. accounts' = (accounts \ {account}) \cup {changed} /\ sessions' = sessions
    BY <1>7 DEF SetDisabled
  <2> HIDE DEF changed
  <2>4. IssuedUnderCurrentPassword'
    BY <2>2, <2>3
  <2> QED
    BY <2>1, <2>4
<1>8. ASSUME NEW account \in accounts, DeleteUser(account) PROVE Goal
  BY <1>8 DEF DeleteUser
<1>9. ASSUME NEW account \in accounts, Bind(account) PROVE Goal
  BY <1>9 DEF Bind
<1>10. ASSUME NEW u \in User, Unbind(u) PROVE Goal
  BY <1>10 DEF Unbind
<1> HIDE DEF Goal, Consistent, ReadsHold, ChangeHolds, IssuedUnderCurrentPassword, IamTypeOK,
             tables, locks
<1>11. Goal
  BY <1>1, <1>2, <1>3, <1>4, <1>5, <1>6, <1>7, <1>8, <1>9, <1>10 DEF Disturbing
<1> QED
  BY <1>11 DEF Goal

LEMMA ConsistentAlways == IamSpec => []Consistent
<1>1. Consistent /\ [IamNext]_iamVars => Consistent'
  BY TypeStep, QuietOrDisturbing, QuietKeeps, RowsStep, SessionsStep DEF Consistent
<1> QED
  BY ConsistentInit, <1>1, PTL DEF IamSpec

\* The tables, locks and requests have their types.
THEOREM IamTypeCorrect == IamSpec => []IamTypeOK
BY ConsistentAlways, PTL DEF Consistent

\* A changed password leaves no session behind, whatever logins it overtakes.
THEOREM IssuedUnderCurrentPasswordCorrect == IamSpec => []IssuedUnderCurrentPassword
BY ConsistentAlways, PTL DEF Consistent

-----------------------------------------------------------------------------
\* A row of the cookie table is one that was there, under its ID, or has an ID
\* that was never drawn before.
KnownOrNew(row) == Live(row.id) \/ row.id \notin spent

LEMMA CookiesStep ==
  ASSUME [IamNext]_iamVars, NEW row \in cookies'
  PROVE  KnownOrNew(row)
<1>1. CASE cookies' \subseteq cookies
  BY <1>1 DEF KnownOrNew, Live
<1>2. ASSUME NEW c \in Cookie, Visit(c) PROVE KnownOrNew(row)
  BY <1>2 DEF KnownOrNew, Visit, Live
<1>3. ASSUME NEW r \in Request, NEW c \in Cookie, CreateCookie(r, c) PROVE KnownOrNew(row)
  BY <1>3 DEF KnownOrNew, CreateCookie, Live
<1>4. ASSUME NEW r \in Request, SaveCookie(r) PROVE KnownOrNew(row)
  BY <1>4 DEF KnownOrNew, SaveCookie, Updated, Live, WithoutCookie
<1>5. ASSUME NEW c \in Cookie, EndCookie(c) \/ \E s \in State : StartOidc(c, s) PROVE KnownOrNew(row)
  BY <1>5, <1>1 DEF KnownOrNew, EndCookie, StartOidc, DeleteCookie, WithoutCookie
<1>6. ASSUME NEW r \in Request, NEW old \in cookies,
             LoadLogin(r, old) \/ LoadCallback(r, old) \/ LoadLogout(r, old) \/ LoadCsrf(r, old)
      PROVE  KnownOrNew(row)
  <2>1. ASSUME NEW carried, Load(r, old, carried) PROVE KnownOrNew(row)
    BY <2>1, <1>1 DEF KnownOrNew, Load, tables
  <2> QED
    BY <1>6, <2>1 DEF LoadLogin, LoadCallback, LoadLogout, LoadCsrf
<1>7. ASSUME NEW r \in Request,
             \/ ConsumePending(r) \/ LockForLogin(r) \/ LockForCallback(r)
             \/ \E t \in Token : IssueSession(r, t)
             \/ RevokePrevious(r) \/ RevokeIssued(r) \/ LogoutRevoke(r) \/ Abandon(r)
             \/ \E account \in accounts : RewritePassword(r, account)
             \/ DeleteSessions(r) \/ CommitPassword(r)
      PROVE  KnownOrNew(row)
  BY <1>7, <1>1 DEF KnownOrNew, ConsumePending, LockForLogin, LockForCallback, IssueSession,
       RevokePrevious,
       RevokeIssued, LogoutRevoke, Abandon, RewritePassword, DeleteSessions, CommitPassword,
       tables
<1>8. ASSUME NEW r \in Request, Establish(r) \/ LogoutFlush(r) PROVE KnownOrNew(row)
  BY <1>8, <1>1 DEF KnownOrNew, Establish, LogoutFlush, DeleteCookie, WithoutCookie
<1>9. ASSUME NEW account \in accounts,
             \/ \E disabled \in BOOLEAN : SetDisabled(account, disabled)
             \/ DeleteUser(account) \/ Bind(account)
      PROVE  KnownOrNew(row)
  BY <1>9, <1>1 DEF KnownOrNew, SetDisabled, DeleteUser, Bind
<1>10. ASSUME NEW u \in User, Unbind(u) PROVE KnownOrNew(row)
  BY <1>10, <1>1 DEF KnownOrNew, Unbind
<1>11. ASSUME NEW t \in Token, EndSession(t) PROVE KnownOrNew(row)
  BY <1>11, <1>1 DEF KnownOrNew, EndSession
<1>12. CASE UNCHANGED iamVars
  BY <1>12, <1>1 DEF KnownOrNew, iamVars
<1>13. ASSUME NEW c \in Cookie, Visit(c) \/ EndCookie(c) \/ \E s \in State : StartOidc(c, s)
       PROVE  KnownOrNew(row)
  BY <1>13, <1>2, <1>5
<1>14. ASSUME NEW r \in Request,
              \/ \E old \in cookies : LoadLogin(r, old) \/ LoadCallback(r, old)
                                      \/ LoadLogout(r, old) \/ LoadCsrf(r, old)
              \/ ConsumePending(r) \/ LockForLogin(r) \/ LockForCallback(r)
              \/ \E t \in Token : IssueSession(r, t)
              \/ RevokePrevious(r) \/ RevokeIssued(r) \/ Establish(r)
              \/ \E c \in Cookie : CreateCookie(r, c)
              \/ SaveCookie(r) \/ LogoutRevoke(r) \/ LogoutFlush(r) \/ Abandon(r)
              \/ \E account \in accounts : RewritePassword(r, account)
              \/ DeleteSessions(r) \/ CommitPassword(r)
       PROVE  KnownOrNew(row)
  BY <1>14, <1>3, <1>4, <1>6, <1>7, <1>8
<1> QED
  BY <1>9, <1>10, <1>11, <1>12, <1>13, <1>14 DEF IamNext

\* A session that a step issues is issued by a transaction that holds what it read.
LEMMA IssueStep ==
  ASSUME Consistent, [IamNext]_iamVars, NEW row \in sessions' \ sessions
  PROVE  \E r \in Request, t \in Token :
           IssueSession(r, t) /\ row.token = t /\ row.user = request[r].user
<1>1. Disturbing
  BY QuietOrDisturbing DEF Consistent, Quiet
<1>2. ASSUME NEW r \in Request,
             \/ LockForLogin(r) \/ LockForCallback(r)
             \/ \E account \in accounts : RewritePassword(r, account)
             \/ DeleteSessions(r) \/ CommitPassword(r)
      PROVE  FALSE
  BY <1>2 DEF LockForLogin, LockForCallback, RewritePassword, DeleteSessions, CommitPassword,
       tables
<1>3. ASSUME NEW account \in accounts,
             \/ \E disabled \in BOOLEAN : SetDisabled(account, disabled)
             \/ DeleteUser(account) \/ Bind(account)
      PROVE  FALSE
  BY <1>3 DEF SetDisabled, DeleteUser, Bind
<1>4. ASSUME NEW u \in User, Unbind(u) PROVE FALSE
  BY <1>4 DEF Unbind
<1>5. PICK r \in Request, t \in Token : IssueSession(r, t)
  BY <1>1, <1>2, <1>3, <1>4 DEF Disturbing
<1>6. row = [token |-> t, user |-> request[r].user, password |-> request[r].password]
  BY <1>5 DEF IssueSession
<1> QED
  BY <1>5, <1>6

\* A cookie that was deleted never comes back with a late save.
THEOREM CookieNeverReturnsCorrect == IamSpec => CookieNeverReturns
<1>1. [IamNext]_iamVars =>
        \A c \in Cookie \cap spent : (\E row \in cookies' : row.id = c) => Live(c)
  BY CookiesStep DEF KnownOrNew
<1> QED
  BY <1>1, PTL DEF IamSpec, CookieNeverReturns

\* No session is issued to a user, or through an identity, that is barred by then.
THEOREM NoIssueWhileBarredCorrect == IamSpec => NoIssueWhileBarred
<1> DEFINE AllowedIssue ==
      \A row \in sessions' \ sessions :
        /\ \E account \in accounts : account.user = row.user /\ ~account.disabled
        /\ \A r \in Request :
             request[r].kind = "callback" /\ request'[r].token # request[r].token
               /\ request'[r].token = row.token => row.user \in bound
<1>1. Consistent /\ [IamNext]_iamVars => AllowedIssue
  <2>1. SUFFICES ASSUME Consistent, [IamNext]_iamVars, NEW row \in sessions' \ sessions
        PROVE  /\ \E account \in accounts : account.user = row.user /\ ~account.disabled
               /\ \A r \in Request :
                    request[r].kind = "callback" /\ request'[r].token # request[r].token
                      /\ request'[r].token = row.token => row.user \in bound
    OBVIOUS
  <2>2. PICK r \in Request, t \in Token :
          IssueSession(r, t) /\ row.token = t /\ row.user = request[r].user
    BY <2>1, IssueStep
  <2>3. /\ [user |-> request[r].user, password |-> request[r].password,
            disabled |-> FALSE] \in accounts
        /\ request[r].kind = "callback" => request[r].user \in bound
    BY <2>1, <2>2 DEF IssueSession, Consistent, ReadsHold
  <2>4. \A q \in Request : q # r => request'[q] = request[q]
    BY <2>1, <2>2 DEF IssueSession, Consistent, IamTypeOK
  <2> QED
    BY <2>2, <2>3, <2>4
<1> QED
  BY ConsistentAlways, <1>1, PTL DEF IamSpec, NoIssueWhileBarred

-----------------------------------------------------------------------------
(***************************************************************************)
(* BillingWebhooks: effects are not repeated on their own (NeverRepeated), *)
(* and no resolution is applied under a callback that has its lock         *)
(* (ActiveIsUnresolved).                                                   *)
(***************************************************************************)
Working == {"apply", "applying", "complete"}

\* A delivery under way carries its event, and its attempt once committed.
Carries ==
  \A d \in Delivery :
    /\ phase[d] # "idle" => event[d] \in Event
    /\ phase[d] \in Working => attempt[d] \in Attempt

\* Before its intent a delivery has the lock, unless that broke, and while it
\* has, there is no receipt.
Guarded ==
  \A d \in Delivery : phase[d] = "intent" =>
    /\ lock[event[d]] = d \/ event[d] \in severed
    /\ lock[event[d]] = d => event[d] \notin completed

\* The attempts whose effects have begun, or still can, and that no operator
\* has released.
Effective(e) ==
  {a \in Attempt \ allowed[e] :
     \/ a \in started[e]
     \/ \E d \in Delivery : phase[d] \in Working /\ event[d] = e /\ attempt[d] = a}

\* There is one at most, and it is on record until there is a receipt.
OneEffective ==
  \A e \in Event \ severed : \A a \in Effective(e) :
    /\ attempts[e] = a \/ e \in completed
    /\ \A b \in Effective(e) : a = b

Safe == BillingTypeOK /\ Carries /\ Guarded /\ ActiveIsUnresolved /\ OneEffective

LEMMA SafeInit == ASSUME BillingInit PROVE Safe
BY BillingAssumption
   DEF BillingInit, Safe, BillingTypeOK, Phase, Carries, Guarded, ActiveIsUnresolved,
       OneEffective, Effective, Working

LEMMA ReceiptTypeStep == ASSUME BillingTypeOK, Carries, [BillingNext]_billingVars PROVE BillingTypeOK'
<1> USE BillingAssumption DEF BillingTypeOK, Phase
<1>1. ASSUME NEW d \in Delivery, NEW e \in Event, Take(d, e) PROVE BillingTypeOK'
  BY <1>1 DEF Take, Reach
<1>2. ASSUME NEW d \in Delivery, NEW a \in Attempt, CommitIntent(d, a) PROVE BillingTypeOK'
  BY <1>2 DEF CommitIntent, Return, Unlocked, Reach, Carries
<1>3. ASSUME NEW d \in Delivery, RefusedIntent(d) PROVE BillingTypeOK'
  BY <1>3 DEF RefusedIntent, Return, Unlocked, Reach
<1>4. ASSUME NEW d \in Delivery, StartEffects(d) PROVE BillingTypeOK'
  BY <1>4 DEF StartEffects, Reach, Carries, Working
<1>5. ASSUME NEW d \in Delivery, EndEffects(d) PROVE BillingTypeOK'
  BY <1>5 DEF EndEffects, Return, Unlocked, Reach
<1>6. ASSUME NEW d \in Delivery, Complete(d) PROVE BillingTypeOK'
  BY <1>6 DEF Complete, Return, Unlocked, Reach, Carries
<1>7. ASSUME NEW d \in Delivery, Die(d) PROVE BillingTypeOK'
  BY <1>7 DEF Die, Broken, Return, Unlocked, Reach
<1>8. ASSUME NEW d \in Delivery, LoseConnection(d) PROVE BillingTypeOK'
  BY <1>8 DEF LoseConnection, Broken, Unlocked, Carries
<1>9. ASSUME NEW e \in Event, InspectReceipt(e) PROVE BillingTypeOK'
  BY <1>9 DEF InspectReceipt
<1>10. ASSUME NEW e \in Event, NEW a \in Attempt, Resolve(e, a) PROVE BillingTypeOK'
  BY <1>10 DEF Resolve
<1>11. CASE UNCHANGED billingVars
  BY <1>11 DEF billingVars
<1> QED
  BY <1>1, <1>2, <1>3, <1>4, <1>5, <1>6, <1>7, <1>8, <1>9, <1>10, <1>11 DEF BillingNext

\* The locks and what they protect.
LEMMA LockStep ==
  ASSUME Safe, BillingTypeOK', [BillingNext]_billingVars
  PROVE Carries' /\ Guarded' /\ ActiveIsUnresolved'
<1> USE BillingAssumption DEF Safe, BillingTypeOK, Carries, Guarded, ActiveIsUnresolved, Working
<1> DEFINE Goal == Carries' /\ Guarded' /\ ActiveIsUnresolved'
<1>1. ASSUME NEW d \in Delivery, NEW e \in Event, Take(d, e) PROVE Goal
  BY <1>1 DEF Take, Reach
<1>2. ASSUME NEW d \in Delivery, NEW a \in Attempt, CommitIntent(d, a) PROVE Goal
  BY <1>2 DEF CommitIntent, Return, Unlocked, Reach
<1>3. ASSUME NEW d \in Delivery, RefusedIntent(d) PROVE Goal
  BY <1>3 DEF RefusedIntent, Return, Unlocked, Reach
<1>4. ASSUME NEW d \in Delivery, StartEffects(d) PROVE Goal
  BY <1>4 DEF StartEffects, Reach
<1>5. ASSUME NEW d \in Delivery, EndEffects(d) PROVE Goal
  BY <1>5 DEF EndEffects, Return, Unlocked, Reach
<1>6. ASSUME NEW d \in Delivery, Complete(d) PROVE Goal
  BY <1>6 DEF Complete, Return, Unlocked, Reach
<1>7. ASSUME NEW d \in Delivery, Die(d) PROVE Goal
  BY <1>7 DEF Die, Broken, Return, Unlocked, Reach
<1>8. ASSUME NEW d \in Delivery, LoseConnection(d) PROVE Goal
  BY <1>8 DEF LoseConnection, Broken, Unlocked
<1>9. ASSUME NEW e \in Event, InspectReceipt(e) PROVE Goal
  BY <1>9 DEF InspectReceipt
<1>10. ASSUME NEW e \in Event, NEW a \in Attempt, Resolve(e, a) PROVE Goal
  BY <1>10 DEF Resolve, Unheld
<1>11. CASE UNCHANGED billingVars
  BY <1>11 DEF billingVars
<1> QED
  BY <1>1, <1>2, <1>3, <1>4, <1>5, <1>6, <1>7, <1>8, <1>9, <1>10, <1>11 DEF BillingNext

\* Only a committed intent makes an attempt effective, and then no other is.
LEMMA EffectiveStep ==
  ASSUME Safe, [BillingNext]_billingVars PROVE OneEffective'
<1> USE BillingAssumption
    DEF Safe, BillingTypeOK, Carries, Guarded, ActiveIsUnresolved, OneEffective, Effective, Working
<1>1. ASSUME NEW d \in Delivery, NEW e \in Event, Take(d, e) PROVE OneEffective'
  BY <1>1 DEF Take, Reach
<1>2. ASSUME NEW d \in Delivery, NEW a \in Attempt, CommitIntent(d, a) PROVE OneEffective'
  BY <1>2 DEF CommitIntent, Return, Reach
<1>3. ASSUME NEW d \in Delivery, RefusedIntent(d) PROVE OneEffective'
  BY <1>3 DEF RefusedIntent, Return, Reach
<1>4. ASSUME NEW d \in Delivery, StartEffects(d) PROVE OneEffective'
  BY <1>4 DEF StartEffects, Reach
<1>5. ASSUME NEW d \in Delivery, EndEffects(d) PROVE OneEffective'
  BY <1>5 DEF EndEffects, Return, Reach
<1>6. ASSUME NEW d \in Delivery, Complete(d) PROVE OneEffective'
  BY <1>6 DEF Complete, Return, Reach
<1>7. ASSUME NEW d \in Delivery, Die(d) PROVE OneEffective'
  BY <1>7 DEF Die, Broken, Return, Reach
<1>8. ASSUME NEW d \in Delivery, LoseConnection(d) PROVE OneEffective'
  BY <1>8 DEF LoseConnection, Broken
<1>9. ASSUME NEW e \in Event, InspectReceipt(e) PROVE OneEffective'
  BY <1>9 DEF InspectReceipt
<1>10. ASSUME NEW e \in Event, NEW a \in Attempt, Resolve(e, a) PROVE OneEffective'
  BY <1>10 DEF Resolve, IsCurrent
<1>11. CASE UNCHANGED billingVars
  BY <1>11 DEF billingVars
<1> QED
  BY <1>1, <1>2, <1>3, <1>4, <1>5, <1>6, <1>7, <1>8, <1>9, <1>10, <1>11 DEF BillingNext

LEMMA SafeAlways == BillingSpec => []Safe
<1>1. Safe /\ [BillingNext]_billingVars => Safe'
  BY ReceiptTypeStep, LockStep, EffectiveStep DEF Safe
<1> QED
  BY SafeInit, <1>1, PTL DEF BillingSpec

\* The state of the webhook tables, locks and deliveries has its types.
THEOREM BillingTypeCorrect == BillingSpec => []BillingTypeOK
BY SafeAlways, PTL DEF Safe

\* No resolution is applied under a delivery that has its lock.
THEOREM ActiveIsUnresolvedCorrect == BillingSpec => []ActiveIsUnresolved
BY SafeAlways, PTL DEF Safe

\* Without an operator no second attempt at an event has effects, whatever
\* crashes or breaks once the intent is committed.
THEOREM NeverRepeatedCorrect == BillingSpec => []NeverRepeated
<1>1. Safe => NeverRepeated
  BY DEF Safe, BillingTypeOK, OneEffective, Effective, NeverRepeated
<1> QED
  BY <1>1, SafeAlways, PTL

-----------------------------------------------------------------------------
(***************************************************************************)
(* OrderInventory: the stock accounts for every order.                     *)
(*                                                                         *)
(* The sums of StockAccountsForOrders are over finite sets, and an event   *)
(* that is enqueued was not there before, because every transition takes   *)
(* the order to a status of a higher rank (EventsPast).  A transition      *)
(* moves the order's quantities from one sum to the other, an event that   *)
(* is applied takes its own from the sum to the stock.                     *)
(***************************************************************************)
\* Each status is reached from statuses of a lower rank only.
OrderRank == [s \in Status |->
  CASE s = "pending" -> 0 [] s = "paid" -> 1 [] s = "fulfilled" -> 2
    [] s = "shipped" -> 3 [] s = "delivered" -> 4 [] s = "cancelled" -> 5]

\* Sums are of finite sets, and an event was not enqueued before.
Counted == IsFiniteSet(Holding) /\ IsFiniteSet(jobs) /\ IsFiniteSet(dead)
EventsPast ==
  \A e \in jobs \cup dead \cup receipts : OrderRank[e.to] <= OrderRank[order[e.order]]
OrderInv == OrderTypeOK /\ Counted /\ EventsPast /\ StockAccountsForOrders

LEMMA OrderRankFacts ==
  /\ OrderRank["pending"] = 0 /\ OrderRank["paid"] = 1 /\ OrderRank["fulfilled"] = 2
  /\ OrderRank["shipped"] = 3 /\ OrderRank["delivered"] = 4 /\ OrderRank["cancelled"] = 5
  BY DEF OrderRank, Status

LEMMA OrderRankRises ==
  ASSUME NEW from, NEW to, CanTransition(from, to)
  PROVE  from \in Status /\ to \in Status /\ OrderRank[from] < OrderRank[to]
  BY OrderRankFacts DEF CanTransition, Status

LEMMA SummandsTyped ==
  ASSUME NEW v \in Variant
  PROVE  /\ \A o \in Order : Wanted(v)[o] = Items[o][v] /\ Wanted(v)[o] \in Int
         /\ \A e \in OrderEvent :
              /\ Deltas(v)[e] = Delta(e, v) /\ Deltas(v)[e] \in Int
              /\ e.order \in Order /\ Items[e.order][v] \in Nat
  <1>1. \A o \in Order : Items[o][v] \in Nat
    BY OrderAssumption
  <1>2. \A e \in OrderEvent : e.order \in Order
    BY DEF OrderEvent
  <1> QED BY <1>1, <1>2 DEF Wanted, Deltas, Delta

\* What leaves a sum takes its term along.
LEMMA SumLeaves ==
  ASSUME NEW S, IsFiniteSet(S), NEW f, NEW e \in S, \A x \in S : f[x] \in Int
  PROVE  SumFunctionOnSet(f, S \ {e}) = SumFunctionOnSet(f, S) - f[e]
  <1> DEFINE R == S \ {e}
  <1>1. IsFiniteSet(R) /\ e \notin R /\ R \cup {e} = S /\ \A x \in R \cup {e} : f[x] \in Int
    BY FS_Subset
  <1> HIDE DEF R
  <1>2. SumFunctionOnSet(f, R \cup {e}) = f[e] + SumFunctionOnSet(f, R)
    BY <1>1, SumJoins
  <1>3. SumFunctionOnSet(f, R) \in Int /\ f[e] \in Int
    BY <1>1, SumTyped
  <1>4. SumFunctionOnSet(f, S) = f[e] + SumFunctionOnSet(f, R)
    BY <1>1, <1>2
  <1>5. SumFunctionOnSet(f, R) = SumFunctionOnSet(f, S) - f[e]
    BY <1>3, <1>4
  <1> QED BY <1>5 DEF R

LEMMA SumsOfState ==
  ASSUME OrderTypeOK, Counted, NEW v \in Variant
  PROVE  /\ IsFiniteSet(Outstanding) /\ Outstanding \subseteq OrderEvent
         /\ Holding \subseteq Order
         /\ SumFunctionOnSet(Wanted(v), Holding) \in Int
         /\ SumFunctionOnSet(Deltas(v), Outstanding) \in Int
         /\ stock[v] \in Nat /\ supplied[v] \in Nat
  <1>1. IsFiniteSet(Outstanding)
    <2>1. IsFiniteSet(jobs \cup dead)
      BY FS_Union DEF Counted
    <2> QED BY <2>1, FS_Subset DEF Outstanding
  <1>2. Outstanding \subseteq OrderEvent /\ Holding \subseteq Order
    BY DEF OrderTypeOK, Outstanding, Holding
  <1>3. SumFunctionOnSet(Wanted(v), Holding) \in Int
    BY <1>2, SummandsTyped, SumTyped DEF Counted
  <1>4. SumFunctionOnSet(Deltas(v), Outstanding) \in Int
    BY <1>1, <1>2, SummandsTyped, SumTyped
  <1> QED BY <1>1, <1>2, <1>3, <1>4 DEF OrderTypeOK

LEMMA OrderInitOK == OrderInit => OrderInv
  <1> SUFFICES ASSUME OrderInit PROVE OrderInv
    OBVIOUS
  <1>1. OrderTypeOK
    <2>1. supplied \in [Variant -> Nat]
      BY OrderAssumption DEF OrderInit
    <2> QED BY <2>1 DEF OrderInit, OrderTypeOK, Status
  <1>2. Holding = {} /\ Outstanding = {}
    BY DEF OrderInit, Holding, Outstanding
  <1>3. Counted
    BY <1>2, FS_EmptySet DEF Counted, OrderInit
  <1>4. EventsPast
    BY DEF EventsPast, OrderInit
  <1>5. StockAccountsForOrders
    <2> SUFFICES ASSUME NEW v \in Variant
                 PROVE  stock[v] = supplied[v] - SumFunctionOnSet(Wanted(v), Holding)
                                               - SumFunctionOnSet(Deltas(v), Outstanding)
      BY DEF StockAccountsForOrders
    <2>1. SumFunctionOnSet(Wanted(v), Holding) = 0 /\ SumFunctionOnSet(Deltas(v), Outstanding) = 0
      BY <1>2, SumOfNone
    <2>2. stock[v] = supplied[v] /\ supplied[v] \in Nat
      BY <1>1 DEF OrderInit, OrderTypeOK
    <2> QED BY <2>1, <2>2
  <1> QED BY <1>1, <1>3, <1>4, <1>5 DEF OrderInv

\* A transition moves the order's quantities between the two sums.
LEMMA TransitionKeeps ==
  ASSUME OrderInv, NEW o \in Order, NEW to \in Target, TransitionWithEvent(o, to)
  PROVE  OrderInv'
  <1> DEFINE e == [order |-> o, from |-> order[o], to |-> to]
  <1> USE DEF OrderInv
  <1>1. /\ CanTransition(order[o], to) /\ order' = [order EXCEPT ![o] = to]
        /\ jobs' = jobs \cup {e}
        /\ stock' = stock /\ dead' = dead /\ receipts' = receipts /\ supplied' = supplied
    BY DEF TransitionWithEvent
  <1>2. /\ order[o] \in Status /\ to \in Status /\ OrderRank[order[o]] < OrderRank[to]
        /\ e \in OrderEvent /\ e.order = o /\ e.from = order[o] /\ e.to = to
    BY <1>1, OrderRankRises DEF OrderEvent
  <1>3. e \notin jobs \cup dead \cup receipts
    <2>1. OrderRank[order[o]] \in Int /\ OrderRank[to] \in Int
      BY <1>2, OrderRankFacts DEF Status
    <2> QED BY <1>2, <2>1 DEF EventsPast
  <1> HIDE DEF e
  <1>4. OrderTypeOK'
    BY <1>1, <1>2 DEF OrderTypeOK
  <1>5. Holding' = IF to = "paid" THEN Holding \cup {o}
                   ELSE IF to = "cancelled" THEN Holding \ {o}
                   ELSE Holding
    <2>1. \A p \in Order : order'[p] = IF p = o THEN to ELSE order[p]
      BY <1>1 DEF OrderTypeOK
    <2>2. Holding' = {p \in Order : order'[p] \in {"paid", "fulfilled", "shipped", "delivered"}}
      BY DEF Holding
    <2>3. to = "paid" => Holding' = Holding \cup {o}
      BY <2>1, <2>2 DEF Holding
    <2>4. to = "cancelled" => Holding' = Holding \ {o}
      BY <2>1, <2>2 DEF Holding
    <2>5. to \notin {"paid", "cancelled"} => Holding' = Holding
      BY <1>1, <2>1, <2>2 DEF Holding, CanTransition
    <2> QED BY <2>3, <2>4, <2>5
  <1>6. Counted'
    <2>1. IsFiniteSet(Holding')
      BY <1>5, FS_AddElement, FS_Subset DEF Counted
    <2>2. IsFiniteSet(jobs')
      BY <1>1, FS_AddElement DEF Counted
    <2> QED BY <1>1, <2>1, <2>2 DEF Counted
  <1>7. EventsPast'
    <2> SUFFICES ASSUME NEW d \in (jobs \cup dead \cup receipts)'
                 PROVE  OrderRank[d.to] <= OrderRank[order'[d.order]]
      BY DEF EventsPast
    <2>1. /\ OrderRank[order[o]] \in Int /\ OrderRank[to] \in Int
          /\ \A s \in Status : OrderRank[s] \in Int
      BY <1>2, OrderRankFacts DEF Status
    <2>2. CASE d = e
      <3>1. d.to = to /\ order'[d.order] = to
        BY <1>1, <1>2, <2>2 DEF OrderTypeOK
      <3> QED BY <2>1, <3>1
    <2>3. CASE d # e
      <3>1. d \in jobs \cup dead \cup receipts
        BY <1>1, <2>3
      <3>2. OrderRank[d.to] <= OrderRank[order[d.order]] /\ d.order \in Order /\ d.to \in Status
        BY <3>1 DEF EventsPast, OrderTypeOK, OrderEvent
      <3>3. order'[d.order] = IF d.order = o THEN to ELSE order[d.order]
        BY <1>1, <3>2 DEF OrderTypeOK
      <3>4. order[d.order] \in Status
        BY <3>2 DEF OrderTypeOK
      <3> QED BY <1>2, <2>1, <3>2, <3>3, <3>4
    <2> QED BY <2>2, <2>3
  <1>8. StockAccountsForOrders'
    <2> SUFFICES ASSUME NEW v \in Variant
                 PROVE  stock'[v] = supplied'[v] - SumFunctionOnSet(Wanted(v), Holding')
                                                 - SumFunctionOnSet(Deltas(v), Outstanding')
      BY DEF StockAccountsForOrders, Wanted, Deltas, Delta
    <2> DEFINE held == SumFunctionOnSet(Wanted(v), Holding)
               owed == SumFunctionOnSet(Deltas(v), Outstanding)
    <2>1. /\ stock[v] = supplied[v] - held - owed
          /\ held \in Int /\ owed \in Int /\ stock[v] \in Nat /\ supplied[v] \in Nat
      BY SumsOfState DEF StockAccountsForOrders
    <2>2. SumFunctionOnSet(Deltas(v), Outstanding') = Delta(e, v) + owed
      <3>1. Outstanding' = Outstanding \cup {e} /\ e \notin Outstanding
        BY <1>1, <1>3 DEF Outstanding
      <3>2. \A x \in Outstanding \cup {e} : Deltas(v)[x] \in Int
        BY <1>2, SumsOfState, SummandsTyped
      <3>3. SumFunctionOnSet(Deltas(v), Outstanding \cup {e}) = Deltas(v)[e] + owed
        BY <3>1, <3>2, SumsOfState, SumJoins
      <3>4. Deltas(v)[e] = Delta(e, v)
        BY <1>2, SummandsTyped
      <3> QED BY <3>1, <3>3, <3>4
    <2>3. SumFunctionOnSet(Wanted(v), Holding') = held - Delta(e, v)
      <3>1. /\ Wanted(v)[o] = Items[o][v] /\ Items[o][v] \in Nat
            /\ \A x \in Holding \cup {o} : Wanted(v)[x] \in Int
        BY <1>2, SumsOfState, SummandsTyped
      <3>2. Delta(e, v) = IF to = "paid" THEN -Items[o][v]
                          ELSE IF to = "cancelled" /\ order[o] \in {"paid", "fulfilled"} THEN Items[o][v]
                          ELSE 0
        BY <1>2 DEF Delta
      <3>3. CASE to = "paid"
        <4>1. o \notin Holding
          BY <1>1, <3>3 DEF CanTransition, Holding
        <4>2. SumFunctionOnSet(Wanted(v), Holding \cup {o}) = Wanted(v)[o] + held
          BY <3>1, <4>1, SumJoins DEF Counted
        <4> HIDE DEF held
        <4> QED BY <1>5, <2>1, <3>1, <3>2, <3>3, <4>2
      <3>4. CASE to = "cancelled" /\ order[o] \in {"paid", "fulfilled"}
        <4>1. o \in Holding
          BY <3>4 DEF Holding
        <4>2. SumFunctionOnSet(Wanted(v), Holding \ {o}) = held - Wanted(v)[o]
          BY <3>1, <4>1, SumLeaves DEF Counted
        <4> HIDE DEF held
        <4> QED BY <1>5, <2>1, <3>1, <3>2, <3>4, <4>2
      <3>5. CASE to # "paid" /\ ~(to = "cancelled" /\ order[o] \in {"paid", "fulfilled"})
        <4>1. to = "cancelled" => o \notin Holding
          BY <1>1, <3>5 DEF CanTransition, Holding
        <4>2. Holding' = Holding
          BY <1>5, <3>5, <4>1
        <4> HIDE DEF held
        <4>3. Delta(e, v) = 0
          BY <3>2, <3>5
        <4>4. SumFunctionOnSet(Wanted(v), Holding') = held
          BY <4>2 DEF held
        <4> QED BY <2>1, <4>3, <4>4
      <3> QED BY <3>3, <3>4, <3>5
    <2>4. Delta(e, v) \in Int
      BY <1>2, SummandsTyped
    <2> HIDE DEF held, owed
    <2> QED BY <1>1, <2>1, <2>2, <2>3, <2>4
  <1> QED BY <1>4, <1>6, <1>7, <1>8

\* An event that is applied leaves the sum of those outstanding.
LEMMA ApplyKeeps ==
  ASSUME OrderInv, NEW e \in jobs \cup dead, ApplyOrderEvent(e)
  PROVE  OrderInv'
  <1> USE DEF OrderInv
  <1>1. /\ e \in Outstanding /\ \A v \in Variant : stock[v] + Delta(e, v) >= 0
        /\ stock' = [v \in Variant |-> stock[v] + Delta(e, v)]
        /\ receipts' = receipts \cup {e}
        /\ order' = order /\ jobs' = jobs /\ dead' = dead /\ supplied' = supplied
    BY DEF ApplyOrderEvent, Outstanding
  <1>2. e \in OrderEvent
    BY DEF OrderTypeOK
  <1>3. OrderTypeOK'
    <2>1. \A v \in Variant : stock[v] \in Nat /\ Delta(e, v) \in Int
      BY <1>2, SummandsTyped DEF OrderTypeOK
    <2>2. stock' \in [Variant -> Nat]
      BY <1>1, <2>1
    <2> QED BY <1>1, <1>2, <2>2 DEF OrderTypeOK
  <1>4. Holding' = Holding /\ Outstanding' = Outstanding \ {e}
    BY <1>1 DEF Holding, Outstanding
  <1>5. Counted'
    BY <1>1, <1>4 DEF Counted
  <1>6. EventsPast'
    BY <1>1 DEF EventsPast
  <1>7. StockAccountsForOrders'
    <2> SUFFICES ASSUME NEW v \in Variant
                 PROVE  stock'[v] = supplied'[v] - SumFunctionOnSet(Wanted(v), Holding')
                                                 - SumFunctionOnSet(Deltas(v), Outstanding')
      BY DEF StockAccountsForOrders, Wanted, Deltas, Delta
    <2> DEFINE held == SumFunctionOnSet(Wanted(v), Holding)
               owed == SumFunctionOnSet(Deltas(v), Outstanding)
    <2>1. /\ stock[v] = supplied[v] - held - owed
          /\ held \in Int /\ owed \in Int /\ stock[v] \in Nat /\ supplied[v] \in Nat
      BY SumsOfState DEF StockAccountsForOrders
    <2>2. SumFunctionOnSet(Deltas(v), Outstanding') = owed - Delta(e, v)
      <3>1. \A x \in Outstanding : Deltas(v)[x] \in Int
        BY SumsOfState, SummandsTyped
      <3>2. SumFunctionOnSet(Deltas(v), Outstanding \ {e}) = owed - Deltas(v)[e]
        BY <1>1, <3>1, SumsOfState, SumLeaves
      <3> QED BY <1>2, <1>4, <3>2, SummandsTyped
    <2>3. stock'[v] = stock[v] + Delta(e, v) /\ Delta(e, v) \in Int
      BY <1>1, <1>2, SummandsTyped
    <2>4. SumFunctionOnSet(Wanted(v), Holding') = held
      BY <1>4
    <2> HIDE DEF held, owed
    <2> QED BY <1>1, <2>1, <2>2, <2>3, <2>4
  <1> QED BY <1>3, <1>5, <1>6, <1>7

\* The queue may acknowledge, dead-letter and retry: what is outstanding stays.
LEMMA QueueKeeps ==
  ASSUME OrderInv, NEW e \in jobs \cup dead,
         AcknowledgeJob(e) \/ DeadLetterJob(e) \/ RetryDeadLetter(e)
  PROVE  OrderInv'
  <1> USE DEF OrderInv
  <1>1. /\ order' = order /\ stock' = stock /\ receipts' = receipts /\ supplied' = supplied
        /\ jobs' \cup dead' \subseteq jobs \cup dead
        /\ jobs' \in {jobs \cup {e}, jobs \ {e}} /\ dead' \in {dead, dead \cup {e}, dead \ {e}}
        /\ (jobs' \cup dead') \ receipts = (jobs \cup dead) \ receipts
    BY DEF AcknowledgeJob, DeadLetterJob, RetryDeadLetter
  <1>2. OrderTypeOK'
    BY <1>1 DEF OrderTypeOK
  <1>3. Holding' = Holding /\ Outstanding' = Outstanding
    BY <1>1 DEF Holding, Outstanding
  <1>4. Counted'
    BY <1>1, <1>3, FS_AddElement, FS_Subset DEF Counted
  <1>5. EventsPast'
    BY <1>1 DEF EventsPast
  <1>6. StockAccountsForOrders'
    BY <1>1, <1>3 DEF StockAccountsForOrders, Wanted, Deltas, Delta
  <1> QED BY <1>2, <1>4, <1>5, <1>6

LEMMA AdjustKeeps ==
  ASSUME OrderInv, NEW w \in Variant, NEW delta \in {-1, 1}, AdjustStock(w, delta)
  PROVE  OrderInv'
  <1> USE DEF OrderInv
  <1>1. /\ stock[w] + delta >= 0 /\ supplied[w] + delta \in 0 .. MaxSupply
        /\ stock' = [stock EXCEPT ![w] = @ + delta]
        /\ supplied' = [supplied EXCEPT ![w] = @ + delta]
        /\ order' = order /\ jobs' = jobs /\ dead' = dead /\ receipts' = receipts
    BY DEF AdjustStock, Adjustable
  <1>2. OrderTypeOK'
    <2>1. stock[w] + delta \in Nat /\ supplied[w] + delta \in Nat
      BY <1>1, OrderAssumption DEF OrderTypeOK
    <2> QED BY <1>1, <2>1 DEF OrderTypeOK
  <1>3. Holding' = Holding /\ Outstanding' = Outstanding
    BY <1>1 DEF Holding, Outstanding
  <1>4. Counted'
    BY <1>1, <1>3 DEF Counted
  <1>5. EventsPast'
    BY <1>1 DEF EventsPast
  <1>6. StockAccountsForOrders'
    <2> SUFFICES ASSUME NEW v \in Variant
                 PROVE  stock'[v] = supplied'[v] - SumFunctionOnSet(Wanted(v), Holding)
                                                 - SumFunctionOnSet(Deltas(v), Outstanding)
      BY <1>3 DEF StockAccountsForOrders, Wanted, Deltas, Delta
    <2> DEFINE held == SumFunctionOnSet(Wanted(v), Holding)
               owed == SumFunctionOnSet(Deltas(v), Outstanding)
    <2>1. /\ stock[v] = supplied[v] - held - owed
          /\ held \in Int /\ owed \in Int /\ stock[v] \in Nat /\ supplied[v] \in Nat
      BY SumsOfState DEF StockAccountsForOrders
    <2>2. \/ stock'[v] = stock[v] + delta /\ supplied'[v] = supplied[v] + delta
          \/ stock'[v] = stock[v] /\ supplied'[v] = supplied[v]
      BY <1>1 DEF OrderTypeOK
    <2> HIDE DEF held, owed
    <2>3. delta \in Int /\ stock'[v] = supplied'[v] - held - owed
      BY <2>1, <2>2
    <2> QED BY <2>3 DEF held, owed
  <1> QED BY <1>2, <1>4, <1>5, <1>6

LEMMA OrderNextKeeps == OrderInv /\ [OrderNext]_orderVars => OrderInv'
  <1> SUFFICES ASSUME OrderInv, [OrderNext]_orderVars PROVE OrderInv'
    OBVIOUS
  <1>1. CASE TransitionOrder
    BY <1>1, TransitionKeeps DEF TransitionOrder
  <1>2. CASE \E e \in jobs \cup dead :
               ApplyOrderEvent(e) \/ AcknowledgeJob(e) \/ DeadLetterJob(e) \/ RetryDeadLetter(e)
    BY <1>2, ApplyKeeps, QueueKeeps
  <1>3. CASE \E v \in Variant, delta \in {-1, 1} : AdjustStock(v, delta)
    BY <1>3, AdjustKeeps
  <1>4. CASE UNCHANGED orderVars
    BY <1>4 DEF orderVars, OrderInv, OrderTypeOK, Counted, EventsPast, StockAccountsForOrders,
                Holding, Outstanding, Wanted, Deltas, Delta
  <1> QED BY <1>1, <1>2, <1>3, <1>4 DEF OrderNext

\* The stock is what was supplied, less what the paid orders hold, less what the
\* events still on their way will add, whatever the orders, the quantities and the
\* order in which the events come: postgres.rs transition_order_with_event and
\* apply_order_event.
THEOREM StockAccountsForOrdersCorrect == OrderSpec => []StockAccountsForOrders
  <1>1. OrderInv => StockAccountsForOrders
    BY DEF OrderInv
  <1> QED BY <1>1, OrderInitOK, OrderNextKeeps, PTL DEF OrderSpec

-----------------------------------------------------------------------------
(***************************************************************************)
(* EcommercePayments: what the run checks on two handlers, for any number  *)
(* of orders, payments, handlers and faults.                               *)
(***************************************************************************)
\* A handler at work serves an event the provider has sent.
AtWork == \A h \in Handler : pc[h] # "idle" => serving[h] \in WebhookEvent \cap sent

\* The types of the payments' state, in three parts: what the store keeps, where
\* the handlers are, and what is outside the service.
StoreTypes ==
  /\ status \in [Payment -> {"none", "pending", "succeeded", "failed"}]
  /\ inspected \in [payment : Payment, current : BOOLEAN] \cup {Nobody}
  /\ captureAudit \subseteq Payment
  /\ cancelAudit \subseteq Payment
  /\ processed \subseteq WebhookEvent
HandlerTypes ==
  /\ eventLock \in [WebhookEvent -> Handler \cup {Nobody}]
  /\ paymentLock \in [Payment -> Handler \cup {Nobody}]
  /\ pc \in [Handler -> Step]
  /\ serving \in [Handler -> WebhookEvent \cup {NoDelivery}]
OutsideTypes ==
  /\ charge \in [Payment -> {"none", "created", "approved", "denied", "captured", "voided"}]
  /\ sent \subseteq WebhookEvent
  /\ faults \in 0 .. MaxFaults
  /\ interrupted \subseteq Payment
PaymentTypes == StoreTypes /\ HandlerTypes /\ OutsideTypes

-----------------------------------------------------------------------------
LEMMA WrittenTypes ==
  ASSUME StoreTypes, NEW p, NEW new \in {"pending", "succeeded", "failed"}, Written(p, new)
  PROVE  /\ status' \in [Payment -> {"none", "pending", "succeeded", "failed"}]
         /\ inspected' \in [payment : Payment, current : BOOLEAN] \cup {Nobody}
<1>1. ASSUME inspected # Nobody
      PROVE  [inspected EXCEPT !.current = FALSE] \in [payment : Payment, current : BOOLEAN]
  BY <1>1 DEF StoreTypes
<1> QED
  BY <1>1 DEF StoreTypes, Written

LEMMA MoveTypes ==
  ASSUME HandlerTypes, NEW h \in Handler,
         Leave(h) \/ Processed(h) \/ \E step \in Step : Continue(h, step)
  PROVE  HandlerTypes'
<1>1. /\ Without(eventLock, h) \in [WebhookEvent -> Handler \cup {Nobody}]
      /\ Without(paymentLock, h) \in [Payment -> Handler \cup {Nobody}]
  BY DEF HandlerTypes, Without
<1>2. \A step \in Step : [pc EXCEPT ![h] = step] \in [Handler -> Step]
  BY DEF HandlerTypes
<1>3. "idle" \in Step /\ "mark" \in Step
  BY DEF Step
<1>4. CASE Leave(h)
  BY <1>1, <1>2, <1>3, <1>4 DEF Leave, Goto, HandlerTypes
<1>5. CASE Processed(h)
  BY <1>1, <1>2, <1>3, <1>5 DEF Processed, Goto, HandlerTypes
<1>6. CASE \E step \in Step : Continue(h, step)
  BY <1>2, <1>6 DEF Continue, Goto, HandlerTypes
<1> QED
  BY <1>4, <1>5, <1>6

LEMMA WithoutTypes ==
  ASSUME HandlerTypes, NEW h \in Handler
  PROVE  /\ Without(eventLock, h) \in [WebhookEvent -> Handler \cup {Nobody}]
         /\ Without(paymentLock, h) \in [Payment -> Handler \cup {Nobody}]
BY DEF HandlerTypes, Without

LEMMA Steps ==
  {"idle", "begun", "guarded", "capture", "release", "confirm", "read", "paid", "mark"} \subseteq Step
BY DEF Step

\* The actions keep the types.
LEMMA PaymentTypesStep ==
  ASSUME PaymentTypes, AtWork, [Next]_vars PROVE PaymentTypes'
<1> USE DEF PaymentTypes, StoreTypes, HandlerTypes, OutsideTypes
<1>1. ASSUME TransitionOrder, UNCHANGED paymentVars PROVE PaymentTypes'
  BY <1>1 DEF TransitionOrder, TransitionWithEvent, paymentVars
<1>2. ASSUME NEW p \in Payment, CreatePayment(p) PROVE PaymentTypes'
  BY <1>2 DEF CreatePayment, orderVars, elsewhere
<1>3. ASSUME NEW p \in Payment, Inspect(p) PROVE PaymentTypes'
  BY <1>3 DEF Inspect, orderVars, atHandlers, atProvider
<1>4. ASSUME NEW p \in Payment, ProviderStep(p) PROVE PaymentTypes'
  <2>1. ASSUME NEW from, NEW to \in {"approved", "captured", "denied", "voided"},
               NEW kind, kind \subseteq {"confirm", "fail"}, Charge(p, from, to, kind)
        PROVE  PaymentTypes'
    <3>1. \A k \in kind : [payment |-> p, kind |-> k] \in WebhookEvent
      BY <2>1 DEF WebhookEvent
    <3> QED
      BY <2>1, <3>1 DEF Charge, orderVars, atHandlers
  <2> HIDE DEF PaymentTypes, StoreTypes, HandlerTypes, OutsideTypes
  <2>2. ASSUME NEW from, Charge(p, from, "approved", {"confirm"}) PROVE PaymentTypes'
    BY <2>2, <2>1
  <2>3. ASSUME NEW from, Charge(p, from, "captured", {"confirm"}) PROVE PaymentTypes'
    BY <2>3, <2>1
  <2>4. ASSUME NEW from, Charge(p, from, "denied", {"fail"}) PROVE PaymentTypes'
    BY <2>4, <2>1
  <2>5. ASSUME NEW from, Charge(p, from, "voided", {}) PROVE PaymentTypes'
    BY <2>5, <2>1
  <2> QED
    BY <1>4, <2>2, <2>3, <2>4, <2>5 DEF ProviderStep
<1>5. ASSUME RecordVerifiedCapture PROVE PaymentTypes'
  BY <1>5 DEF RecordVerifiedCapture, orderVars, atHandlers, atProvider
<1>6. ASSUME RecordVerifiedCancellation PROVE PaymentTypes'
  BY <1>6 DEF RecordVerifiedCancellation, StatusFailed, orderVars, atHandlers, atProvider
<1>7. ASSUME NEW h \in Handler, NEW e \in sent, Begin(h, e) PROVE PaymentTypes'
  BY <1>7, Steps DEF Begin, Goto, orderVars, elsewhere, atProvider
<1>8. ASSUME NEW h \in Handler, Guard(h) PROVE PaymentTypes'
  BY <1>8, Steps DEF Guard, Goto, Subject, orderVars, elsewhere, atProvider
<1>9. ASSUME NEW h \in Handler, FailPayment(h) PROVE PaymentTypes'
  BY <1>9, MoveTypes, WrittenTypes DEF FailPayment, orderVars, elsewhere, atProvider
<1>10. ASSUME NEW h \in Handler, ClaimConfirmation(h) PROVE PaymentTypes'
  BY <1>10, MoveTypes, WrittenTypes, Steps
  DEF ClaimConfirmation, Claim, orderVars, elsewhere, atProvider
<1>11. ASSUME NEW h \in Handler, SkipClaim(h) PROVE PaymentTypes'
  BY <1>11, MoveTypes, Steps DEF SkipClaim, orderVars, elsewhere, atProvider
<1>12. ASSUME NEW h \in Handler, CaptureOrder(h) PROVE PaymentTypes'
  <2>1. Subject(h) \in Payment
    BY <1>12 DEF CaptureOrder, AtWork, Subject, WebhookEvent
  <2>2. HandlerTypes'
    BY <1>12, MoveTypes, Steps DEF CaptureOrder, CaptureFailed
  <2>3. OutsideTypes'
    BY <1>12, <2>1 DEF CaptureOrder, WebhookEvent, atProvider, elsewhere
  <2> QED
    BY <1>12, <2>2, <2>3 DEF CaptureOrder, elsewhere
<1>13. ASSUME NEW h \in Handler, ReleaseConfirmation(h) PROVE PaymentTypes'
  BY <1>13, MoveTypes, WrittenTypes DEF ReleaseConfirmation, orderVars, elsewhere, atProvider
<1>14. ASSUME NEW h \in Handler, ConfirmPayment(h) PROVE PaymentTypes'
  BY <1>14, MoveTypes, WrittenTypes, Steps DEF ConfirmPayment, orderVars, elsewhere, atProvider
<1>15. ASSUME NEW h \in Handler, RefuseCanceled(h) PROVE PaymentTypes'
  BY <1>15, MoveTypes DEF RefuseCanceled, orderVars, elsewhere, atProvider
<1>16. ASSUME NEW h \in Handler, ReadOrder(h) PROVE PaymentTypes'
  BY <1>16, MoveTypes, Steps DEF ReadOrder, orderVars, elsewhere, atProvider
<1>17. ASSUME NEW h \in Handler, TransitionPaid(h) PROVE PaymentTypes'
  BY <1>17, MoveTypes DEF TransitionPaid, orderVars, elsewhere, atProvider
<1>18. ASSUME NEW h \in Handler, MarkProcessed(h) PROVE PaymentTypes'
  BY <1>18, MoveTypes DEF MarkProcessed, AtWork, orderVars, elsewhere, atProvider
<1>19. ASSUME NEW h \in Handler, Crash(h) PROVE PaymentTypes'
  <2>1. Subject(h) \in Payment
    BY <1>19 DEF Crash, Struck, AtWork, Subject, WebhookEvent
  <2>2. OutsideTypes' /\ StoreTypes'
    BY <1>19, <2>1, PaymentAssumption DEF Crash, Struck, atProvider
  <2> QED
    BY <1>19, <2>2, MoveTypes DEF Crash
<1>20. ASSUME NEW h \in Handler, LoseLock(h) PROVE PaymentTypes'
  <2>1. Subject(h) \in Payment
    BY <1>20 DEF LoseLock, Struck, AtWork, Subject, WebhookEvent
  <2>2. OutsideTypes' /\ StoreTypes'
    BY <1>20, <2>1, PaymentAssumption DEF LoseLock, Struck, atProvider
  <2> QED
    BY <1>20, <2>2, WithoutTypes DEF LoseLock
<1>21. CASE UNCHANGED vars
  BY <1>21 DEF vars, orderVars, paymentVars
<1> HIDE DEF PaymentTypes, StoreTypes, HandlerTypes, OutsideTypes
<1> QED
  BY <1>1, <1>2, <1>3, <1>4, <1>5, <1>6, <1>7, <1>8, <1>9, <1>10, <1>11, <1>12, <1>13,
     <1>14, <1>15, <1>16, <1>17, <1>18, <1>19, <1>20, <1>21 DEF Next

\* A handler keeps its delivery until it is idle, and begins one that was sent.
Delivered ==
  /\ sent \subseteq sent'
  /\ \A g \in Handler :
       \/ pc'[g] = "idle"
       \/ pc[g] = "idle" /\ pc'[g] = "begun" /\ serving'[g] \in sent
       \/ pc[g] # "idle" /\ serving'[g] = serving[g]

LEMMA DeliveredStep ==
  ASSUME HandlerTypes, [Next]_vars PROVE Delivered \/ UNCHANGED vars
<1> USE DEF HandlerTypes, Delivered
<1>1. ASSUME TransitionOrder, UNCHANGED paymentVars PROVE Delivered
  BY <1>1 DEF paymentVars
<1>2. ASSUME NEW p \in Payment, CreatePayment(p) PROVE Delivered
  BY <1>2 DEF CreatePayment, elsewhere
<1>3. ASSUME NEW p \in Payment, Inspect(p) PROVE Delivered
  BY <1>3 DEF Inspect, atHandlers, atProvider
<1>4. ASSUME NEW p \in Payment, ProviderStep(p) PROVE Delivered
  BY <1>4 DEF ProviderStep, Charge, atHandlers
<1>5. ASSUME RecordVerifiedCapture PROVE Delivered
  BY <1>5 DEF RecordVerifiedCapture, atHandlers, atProvider
<1>6. ASSUME RecordVerifiedCancellation PROVE Delivered
  BY <1>6 DEF RecordVerifiedCancellation, atHandlers, atProvider
<1>7. ASSUME NEW h \in Handler, NEW e \in sent, Begin(h, e) PROVE Delivered
  BY <1>7 DEF Begin, Goto, elsewhere, atProvider
<1>8. ASSUME NEW h \in Handler, Guard(h) PROVE Delivered
  BY <1>8 DEF Guard, Goto, elsewhere, atProvider
<1>9. ASSUME NEW h \in Handler, FailPayment(h) PROVE Delivered
  BY <1>9 DEF FailPayment, Processed, Goto, elsewhere, atProvider
<1>10. ASSUME NEW h \in Handler, ClaimConfirmation(h) PROVE Delivered
  BY <1>10 DEF ClaimConfirmation, Continue, Goto, elsewhere, atProvider
<1>11. ASSUME NEW h \in Handler, SkipClaim(h) PROVE Delivered
  BY <1>11 DEF SkipClaim, Continue, Goto, elsewhere, atProvider
<1>12. ASSUME NEW h \in Handler, CaptureOrder(h) PROVE Delivered
  BY <1>12 DEF CaptureOrder, CaptureFailed, Continue, Goto, atProvider
<1>13. ASSUME NEW h \in Handler, ReleaseConfirmation(h) PROVE Delivered
  BY <1>13 DEF ReleaseConfirmation, Leave, Goto, elsewhere, atProvider
<1>14. ASSUME NEW h \in Handler, ConfirmPayment(h) PROVE Delivered
  BY <1>14 DEF ConfirmPayment, Processed, Continue, Goto, elsewhere, atProvider
<1>15. ASSUME NEW h \in Handler, RefuseCanceled(h) PROVE Delivered
  BY <1>15 DEF RefuseCanceled, Leave, Goto, elsewhere, atProvider
<1>16. ASSUME NEW h \in Handler, ReadOrder(h) PROVE Delivered
  BY <1>16 DEF ReadOrder, Processed, Continue, Goto, elsewhere, atProvider
<1>17. ASSUME NEW h \in Handler, TransitionPaid(h) PROVE Delivered
  BY <1>17 DEF TransitionPaid, Processed, Leave, Goto, elsewhere, atProvider
<1>18. ASSUME NEW h \in Handler, MarkProcessed(h) PROVE Delivered
  BY <1>18 DEF MarkProcessed, Leave, Goto, elsewhere, atProvider
<1>19. ASSUME NEW h \in Handler, Crash(h) PROVE Delivered
  BY <1>19 DEF Crash, Struck, Leave, Goto, atProvider
<1>20. ASSUME NEW h \in Handler, LoseLock(h) PROVE Delivered
  BY <1>20 DEF LoseLock, Struck, atProvider
<1> HIDE DEF HandlerTypes, Delivered
<1> QED
  BY <1>1, <1>2, <1>3, <1>4, <1>5, <1>6, <1>7, <1>8, <1>9, <1>10, <1>11, <1>12, <1>13,
     <1>14, <1>15, <1>16, <1>17, <1>18, <1>19, <1>20 DEF Next

LEMMA AtWorkStep == ASSUME PaymentTypes, AtWork, [Next]_vars PROVE AtWork'
<1>1. CASE Delivered
  BY <1>1 DEF Delivered, AtWork, PaymentTypes, OutsideTypes
<1>2. CASE UNCHANGED vars
  BY <1>2 DEF AtWork, vars, paymentVars
<1> QED
  BY <1>1, <1>2, DeliveredStep DEF PaymentTypes

-----------------------------------------------------------------------------
\* Only two actions write an order, and both as OrderInventory has it.
LEMMA OrdersStep ==
  ASSUME AtWork, [Next]_vars
  PROVE  (\E o \in Order, to \in Target : TransitionWithEvent(o, to)) \/ UNCHANGED orderVars
<1>1. ASSUME TransitionOrder PROVE \E o \in Order, to \in Target : TransitionWithEvent(o, to)
  BY <1>1 DEF TransitionOrder
<1>2. ASSUME NEW p \in Payment, CreatePayment(p) \/ Inspect(p) \/ ProviderStep(p)
      PROVE  UNCHANGED orderVars
  BY <1>2 DEF CreatePayment, Inspect, ProviderStep, Charge
<1>3. ASSUME RecordVerifiedCapture \/ RecordVerifiedCancellation PROVE UNCHANGED orderVars
  BY <1>3 DEF RecordVerifiedCapture, RecordVerifiedCancellation
<1>4. ASSUME NEW h \in Handler, TransitionPaid(h)
      PROVE  (\E o \in Order, to \in Target : TransitionWithEvent(o, to)) \/ UNCHANGED orderVars
  <2>1. OrderOf[Subject(h)] \in Order /\ "paid" \in Target
    BY <1>4, PaymentAssumption DEF TransitionPaid, AtWork, Subject, WebhookEvent
  <2> QED
    BY <1>4, <2>1 DEF TransitionPaid, Pay
<1>5. ASSUME NEW h \in Handler,
             \/ \E e \in sent : Begin(h, e)
             \/ Guard(h) \/ FailPayment(h) \/ ClaimConfirmation(h) \/ SkipClaim(h)
             \/ CaptureOrder(h) \/ ReleaseConfirmation(h) \/ ConfirmPayment(h)
             \/ RefuseCanceled(h) \/ ReadOrder(h) \/ MarkProcessed(h)
             \/ Crash(h) \/ LoseLock(h)
      PROVE  UNCHANGED orderVars
  BY <1>5 DEF Begin, Guard, FailPayment, ClaimConfirmation, SkipClaim, CaptureOrder,
       ReleaseConfirmation, ConfirmPayment, RefuseCanceled, ReadOrder, MarkProcessed,
       Crash, LoseLock, Struck
<1>6. CASE UNCHANGED vars
  BY <1>6 DEF vars
<1> QED
  BY <1>1, <1>2, <1>3, <1>4, <1>5, <1>6 DEF Next

LEMMA OrderTypesStep == ASSUME OrderTypeOK, AtWork, [Next]_vars PROVE OrderTypeOK'
<1>1. ASSUME NEW o \in Order, NEW to \in Target, TransitionWithEvent(o, to) PROVE OrderTypeOK'
  <2>1. to \in Status
    BY OrderAssumption
  <2>2. [order |-> o, from |-> order[o], to |-> to] \in OrderEvent
    BY <2>1 DEF OrderTypeOK, OrderEvent
  <2> QED
    BY <1>1, <2>1, <2>2 DEF TransitionWithEvent, OrderTypeOK
<1>2. CASE UNCHANGED orderVars
  BY <1>2 DEF orderVars, OrderTypeOK
<1> QED
  BY <1>1, <1>2, OrdersStep

\* An order that has left "pending" stays out of it.
LEMMA NeverPendingAgain ==
  ASSUME OrderTypeOK, AtWork, [Next]_vars, NEW o \in Order, order[o] # "pending"
  PROVE  order'[o] # "pending"
<1>1. ASSUME NEW x \in Order, NEW to \in Target, TransitionWithEvent(x, to)
      PROVE  order'[o] # "pending"
  BY <1>1 DEF TransitionWithEvent, CanTransition, OrderTypeOK
<1>2. CASE UNCHANGED orderVars
  BY <1>2 DEF orderVars
<1> QED
  BY <1>1, <1>2, OrdersStep

LEMMA TypesAlways == Spec => [](TypeOK /\ AtWork)
<1>1. Init => TypeOK /\ AtWork
  <2>1. ASSUME Init PROVE OrderTypeOK
    BY <2>1, OrderAssumption DEF Init, OrderInit, OrderTypeOK, Status
  <2>2. ASSUME Init PROVE PaymentTypes
    BY <2>2, PaymentAssumption DEF Init, PaymentTypes, StoreTypes, HandlerTypes,
         OutsideTypes, Step
  <2> QED
    BY <2>1, <2>2
    DEF Init, TypeOK, AtWork, PaymentTypes, StoreTypes, HandlerTypes, OutsideTypes
<1>2. TypeOK /\ AtWork /\ [Next]_vars => TypeOK' /\ AtWork'
  <2>1. TypeOK <=> OrderTypeOK /\ PaymentTypes
    BY DEF TypeOK, PaymentTypes, StoreTypes, HandlerTypes, OutsideTypes
  <2>2. TypeOK' <=> OrderTypeOK' /\ PaymentTypes'
    BY DEF TypeOK, PaymentTypes, StoreTypes, HandlerTypes, OutsideTypes
  <2> QED
    BY <2>1, <2>2, OrderTypesStep, PaymentTypesStep, AtWorkStep
<1> QED
  BY <1>1, <1>2, PTL DEF Spec

\* Orders, payments, locks, handlers and the provider's side have their types.
THEOREM PaymentsTypeCorrect == Spec => []TypeOK
BY TypesAlways, PTL

\* Whatever the handlers do to an order is a legal transition that enqueues its
\* event in the same step, as OrderInventory has it.
THEOREM OrdersImplemented == Spec => ImplementsOrders
<1>1. Init => OrderInit
  BY DEF Init
<1>2. AtWork /\ [Next]_vars => [OrderNext]_orderVars
  BY OrdersStep DEF OrderNext, TransitionOrder
<1> QED
  BY <1>1, <1>2, TypesAlways, PTL DEF Spec, OrderSpec, ImplementsOrders

-----------------------------------------------------------------------------
\* A payment that is captured or released is claimed, by one handler.
Claimed ==
  /\ \A h \in Handler : pc[h] \in {"capture", "release"} =>
       status[Subject(h)] \notin {"none", "pending"}
  /\ \A h, i \in Handler :
       pc[h] \in {"capture", "release"} /\ pc[i] \in {"capture", "release"}
         /\ Subject(h) = Subject(i) => h = i

LEMMA ClaimedStep ==
  ASSUME PaymentTypes, AtWork, Claimed, [Next]_vars PROVE Claimed'
<1> USE DEF Claimed, PaymentTypes, HandlerTypes, StoreTypes, AtWork, WebhookEvent, Subject
<1>1. ASSUME TransitionOrder, UNCHANGED paymentVars PROVE Claimed'
  BY <1>1 DEF paymentVars
<1>2. ASSUME NEW p \in Payment, CreatePayment(p) PROVE Claimed'
  BY <1>2 DEF CreatePayment, elsewhere
<1>3. ASSUME NEW p \in Payment, Inspect(p) PROVE Claimed'
  BY <1>3 DEF Inspect, atHandlers, atProvider
<1>4. ASSUME NEW p \in Payment, ProviderStep(p) PROVE Claimed'
  BY <1>4 DEF ProviderStep, Charge, atHandlers
<1>5. ASSUME RecordVerifiedCapture PROVE Claimed'
  BY <1>5 DEF RecordVerifiedCapture, atHandlers, atProvider
<1>6. ASSUME RecordVerifiedCancellation PROVE Claimed'
  BY <1>6 DEF RecordVerifiedCancellation, StatusFailed, atHandlers, atProvider
<1>7. ASSUME NEW h \in Handler, NEW e \in sent, Begin(h, e) PROVE Claimed'
  BY <1>7 DEF Begin, Goto, elsewhere, atProvider
<1>8. ASSUME NEW h \in Handler, Guard(h) PROVE Claimed'
  BY <1>8 DEF Guard, Goto, Subject, elsewhere, atProvider
<1>9. ASSUME NEW h \in Handler, FailPayment(h) PROVE Claimed'
  BY <1>9 DEF FailPayment, Written, Processed, Goto, Without, Subject, elsewhere, atProvider
<1>10. ASSUME NEW h \in Handler, ClaimConfirmation(h) PROVE Claimed'
  BY <1>10 DEF ClaimConfirmation, Claim, Written, Continue, Goto, Subject, elsewhere, atProvider
<1>11. ASSUME NEW h \in Handler, SkipClaim(h) PROVE Claimed'
  BY <1>11 DEF SkipClaim, Continue, Goto, Subject, elsewhere, atProvider
<1>12. ASSUME NEW h \in Handler, CaptureOrder(h) PROVE Claimed'
  BY <1>12 DEF CaptureOrder, CaptureFailed, Continue, Goto, Subject, elsewhere, atProvider
<1>13. ASSUME NEW h \in Handler, ReleaseConfirmation(h) PROVE Claimed'
  BY <1>13 DEF ReleaseConfirmation, Releasable, Written, Leave, Goto, Without, Subject,
       elsewhere, atProvider
<1>14. ASSUME NEW h \in Handler, ConfirmPayment(h) PROVE Claimed'
  BY <1>14 DEF ConfirmPayment, Written, Processed, Continue, Goto, Without, Subject,
       elsewhere, atProvider
<1>15. ASSUME NEW h \in Handler, RefuseCanceled(h) PROVE Claimed'
  BY <1>15 DEF RefuseCanceled, Leave, Goto, Without, Subject, elsewhere, atProvider
<1>16. ASSUME NEW h \in Handler, ReadOrder(h) PROVE Claimed'
  BY <1>16 DEF ReadOrder, Processed, Continue, Goto, Without, Subject, elsewhere, atProvider
<1>17. ASSUME NEW h \in Handler, TransitionPaid(h) PROVE Claimed'
  BY <1>17 DEF TransitionPaid, Pay, TransitionWithEvent, Processed, Leave, Goto, Without,
       Subject, elsewhere, atProvider
<1>18. ASSUME NEW h \in Handler, MarkProcessed(h) PROVE Claimed'
  BY <1>18 DEF MarkProcessed, Leave, Goto, Without, Subject, elsewhere, atProvider
<1>19. ASSUME NEW h \in Handler, Crash(h) PROVE Claimed'
  BY <1>19 DEF Crash, Struck, Leave, Goto, Without, Subject, atProvider
<1>20. ASSUME NEW h \in Handler, LoseLock(h) PROVE Claimed'
  BY <1>20 DEF LoseLock, Struck, Without, Subject, atProvider
<1>21. CASE UNCHANGED vars
  BY <1>21 DEF vars, orderVars, paymentVars
<1> HIDE DEF Claimed, PaymentTypes, HandlerTypes, StoreTypes, AtWork, WebhookEvent, Subject
<1> QED
  BY <1>1, <1>2, <1>3, <1>4, <1>5, <1>6, <1>7, <1>8, <1>9, <1>10, <1>11, <1>12, <1>13,
     <1>14, <1>15, <1>16, <1>17, <1>18, <1>19, <1>20, <1>21 DEF Next

LEMMA AuditsStep ==
  ASSUME PaymentTypes, AtWork, AuditsPrevail, [Next]_vars PROVE AuditsPrevail'
<1> USE DEF AuditsPrevail, PaymentTypes, StoreTypes
<1>1. ASSUME TransitionOrder, UNCHANGED paymentVars PROVE AuditsPrevail'
  BY <1>1 DEF paymentVars
<1>2. ASSUME NEW p \in Payment, CreatePayment(p) PROVE AuditsPrevail'
  BY <1>2 DEF CreatePayment, elsewhere
<1>3. ASSUME NEW p \in Payment, Inspect(p) PROVE AuditsPrevail'
  BY <1>3 DEF Inspect, atHandlers, atProvider
<1>4. ASSUME NEW p \in Payment, ProviderStep(p) PROVE AuditsPrevail'
  BY <1>4 DEF ProviderStep, Charge, atHandlers
<1>5. ASSUME RecordVerifiedCapture PROVE AuditsPrevail'
  BY <1>5 DEF RecordVerifiedCapture, atHandlers, atProvider
<1>6. ASSUME RecordVerifiedCancellation PROVE AuditsPrevail'
  BY <1>6 DEF RecordVerifiedCancellation, StatusFailed, atHandlers, atProvider
<1>7. ASSUME NEW h \in Handler, NEW e \in sent, Begin(h, e) PROVE AuditsPrevail'
  BY <1>7 DEF Begin, Goto, elsewhere, atProvider
<1>8. ASSUME NEW h \in Handler, Guard(h) PROVE AuditsPrevail'
  BY <1>8 DEF Guard, Goto, Subject, elsewhere, atProvider
<1>9. ASSUME NEW h \in Handler, FailPayment(h) PROVE AuditsPrevail'
  BY <1>9 DEF FailPayment, Written, Processed, Goto, Without, Subject, elsewhere, atProvider
<1>10. ASSUME NEW h \in Handler, ClaimConfirmation(h) PROVE AuditsPrevail'
  BY <1>10 DEF ClaimConfirmation, Claim, Written, Continue, Goto, Subject, elsewhere, atProvider
<1>11. ASSUME NEW h \in Handler, SkipClaim(h) PROVE AuditsPrevail'
  BY <1>11 DEF SkipClaim, Continue, Goto, Subject, elsewhere, atProvider
<1>12. ASSUME NEW h \in Handler, CaptureOrder(h) PROVE AuditsPrevail'
  BY <1>12 DEF CaptureOrder, CaptureFailed, Continue, Goto, Subject, elsewhere, atProvider
<1>13. ASSUME NEW h \in Handler, ReleaseConfirmation(h) PROVE AuditsPrevail'
  BY <1>13 DEF ReleaseConfirmation, Releasable, Written, Leave, Goto, Without, Subject,
       elsewhere, atProvider
<1>14. ASSUME NEW h \in Handler, ConfirmPayment(h) PROVE AuditsPrevail'
  BY <1>14 DEF ConfirmPayment, Written, Processed, Continue, Goto, Without, Subject,
       elsewhere, atProvider
<1>15. ASSUME NEW h \in Handler, RefuseCanceled(h) PROVE AuditsPrevail'
  BY <1>15 DEF RefuseCanceled, Leave, Goto, Without, Subject, elsewhere, atProvider
<1>16. ASSUME NEW h \in Handler, ReadOrder(h) PROVE AuditsPrevail'
  BY <1>16 DEF ReadOrder, Processed, Continue, Goto, Without, Subject, elsewhere, atProvider
<1>17. ASSUME NEW h \in Handler, TransitionPaid(h) PROVE AuditsPrevail'
  BY <1>17 DEF TransitionPaid, Pay, TransitionWithEvent, Processed, Leave, Goto, Without,
       Subject, elsewhere, atProvider
<1>18. ASSUME NEW h \in Handler, MarkProcessed(h) PROVE AuditsPrevail'
  BY <1>18 DEF MarkProcessed, Leave, Goto, Without, Subject, elsewhere, atProvider
<1>19. ASSUME NEW h \in Handler, Crash(h) PROVE AuditsPrevail'
  BY <1>19 DEF Crash, Struck, Leave, Goto, Without, Subject, atProvider
<1>20. ASSUME NEW h \in Handler, LoseLock(h) PROVE AuditsPrevail'
  BY <1>20 DEF LoseLock, Struck, Without, Subject, atProvider
<1>21. CASE UNCHANGED vars
  BY <1>21 DEF vars, orderVars, paymentVars
<1> HIDE DEF AuditsPrevail, PaymentTypes, StoreTypes
<1> QED
  BY <1>1, <1>2, <1>3, <1>4, <1>5, <1>6, <1>7, <1>8, <1>9, <1>10, <1>11, <1>12, <1>13,
     <1>14, <1>15, <1>16, <1>17, <1>18, <1>19, <1>20, <1>21 DEF Next

-----------------------------------------------------------------------------
\* A delivery to be marked has its order out of "pending", and so has a marked one.
Settled ==
  /\ MarkedIsSettled
  /\ \A h \in Handler :
       pc[h] = "mark" /\ serving[h].kind = "confirm" /\ Subject(h) \notin Mismatched
         => order[OrderOf[Subject(h)]] # "pending"

LEMMA SettledStep ==
  ASSUME OrderTypeOK, PaymentTypes, AtWork, Settled, [Next]_vars PROVE Settled'
<1>1. \A e \in WebhookEvent :
        order[OrderOf[e.payment]] # "pending" => order'[OrderOf[e.payment]] # "pending"
  BY NeverPendingAgain, PaymentAssumption DEF WebhookEvent
<1> USE DEF Settled, MarkedIsSettled, PaymentTypes, StoreTypes, HandlerTypes, AtWork,
     WebhookEvent, Subject
<1>2. ASSUME TransitionOrder, UNCHANGED paymentVars PROVE Settled'
  BY <1>2, <1>1 DEF paymentVars
<1>3. ASSUME NEW p \in Payment, CreatePayment(p) PROVE Settled'
  BY <1>3, <1>1 DEF CreatePayment, elsewhere
<1>4. ASSUME NEW p \in Payment, Inspect(p) PROVE Settled'
  BY <1>4, <1>1 DEF Inspect, atHandlers, atProvider
<1>5. ASSUME NEW p \in Payment, ProviderStep(p) PROVE Settled'
  BY <1>5, <1>1 DEF ProviderStep, Charge, atHandlers
<1>6. ASSUME RecordVerifiedCapture PROVE Settled'
  BY <1>6, <1>1 DEF RecordVerifiedCapture, atHandlers, atProvider
<1>7. ASSUME RecordVerifiedCancellation PROVE Settled'
  BY <1>7, <1>1 DEF RecordVerifiedCancellation, StatusFailed, atHandlers, atProvider
<1>8. ASSUME NEW h \in Handler, NEW e \in sent, Begin(h, e) PROVE Settled'
  BY <1>8, <1>1 DEF Begin, Goto, elsewhere, atProvider
<1>9. ASSUME NEW h \in Handler, Guard(h) PROVE Settled'
  BY <1>9, <1>1 DEF Guard, Goto, Subject, elsewhere, atProvider
<1>10. ASSUME NEW h \in Handler, FailPayment(h) PROVE Settled'
  BY <1>10, <1>1 DEF FailPayment, Written, Processed, Goto, Without, Subject, elsewhere,
       atProvider
<1>11. ASSUME NEW h \in Handler, ClaimConfirmation(h) PROVE Settled'
  BY <1>11, <1>1 DEF ClaimConfirmation, Claim, Written, Continue, Goto, Subject, elsewhere,
       atProvider
<1>12. ASSUME NEW h \in Handler, SkipClaim(h) PROVE Settled'
  BY <1>12, <1>1 DEF SkipClaim, Continue, Goto, Subject, elsewhere, atProvider
<1>13. ASSUME NEW h \in Handler, CaptureOrder(h) PROVE Settled'
  BY <1>13, <1>1 DEF CaptureOrder, CaptureFailed, Continue, Goto, Subject, elsewhere, atProvider
<1>14. ASSUME NEW h \in Handler, ReleaseConfirmation(h) PROVE Settled'
  BY <1>14, <1>1 DEF ReleaseConfirmation, Releasable, Written, Leave, Goto, Without, Subject,
       elsewhere, atProvider
<1>15. ASSUME NEW h \in Handler, ConfirmPayment(h) PROVE Settled'
  BY <1>15, <1>1 DEF ConfirmPayment, Written, Processed, Continue, Goto, Without, Subject,
       elsewhere, atProvider
<1>16. ASSUME NEW h \in Handler, RefuseCanceled(h) PROVE Settled'
  BY <1>16, <1>1 DEF RefuseCanceled, Leave, Goto, Without, Subject, elsewhere, atProvider
<1>17. ASSUME NEW h \in Handler, ReadOrder(h) PROVE Settled'
  BY <1>17, <1>1 DEF ReadOrder, Processed, Continue, Goto, Without, Subject, elsewhere,
       atProvider
<1>18. ASSUME NEW h \in Handler, TransitionPaid(h) PROVE Settled'
  <2>1. CASE Pay(OrderOf[Subject(h)]) /\ Processed(h)
    <3>1. Subject(h) \in Payment /\ OrderOf[Subject(h)] \in Order
      BY <1>18, PaymentAssumption DEF TransitionPaid
    <3>2. order'[OrderOf[Subject(h)]] = "paid"
      BY <2>1, <3>1 DEF Pay, TransitionWithEvent, OrderTypeOK
    <3> QED
      BY <1>18, <1>1, <2>1, <3>2 DEF TransitionPaid, Processed, Goto, elsewhere
  <2>2. CASE Leave(h) /\ UNCHANGED orderVars
    BY <1>18, <1>1, <2>2 DEF TransitionPaid, Leave, Goto, orderVars
  <2> QED
    BY <1>18, <2>1, <2>2 DEF TransitionPaid
<1>19. ASSUME NEW h \in Handler, MarkProcessed(h) PROVE Settled'
  BY <1>19, <1>1 DEF MarkProcessed, Leave, Goto, Without, Subject, elsewhere, atProvider
<1>20. ASSUME NEW h \in Handler, Crash(h) PROVE Settled'
  BY <1>20, <1>1 DEF Crash, Struck, Leave, Goto, Without, Subject, atProvider
<1>21. ASSUME NEW h \in Handler, LoseLock(h) PROVE Settled'
  BY <1>21, <1>1 DEF LoseLock, Struck, Without, Subject, atProvider
<1>22. CASE UNCHANGED vars
  BY <1>22, <1>1 DEF vars, orderVars, paymentVars
<1> HIDE DEF Settled, MarkedIsSettled, PaymentTypes, StoreTypes, HandlerTypes, AtWork,
     WebhookEvent, Subject
<1> QED
  BY <1>2, <1>3, <1>4, <1>5, <1>6, <1>7, <1>8, <1>9, <1>10, <1>11, <1>12, <1>13, <1>14,
     <1>15, <1>16, <1>17, <1>18, <1>19, <1>20, <1>21, <1>22 DEF Next

-----------------------------------------------------------------------------
\* What an order may be paid with.
Evidence(p) ==
  charge[p] = "captured" \/ p \in interrupted \/ [payment |-> p, kind |-> "fail"] \in sent

\* The provider sends nothing about a payment it does not know, and a
\* confirmation of Stripe's only of what it captured.
Happened ==
  /\ \A p \in Payment : status[p] = "none" => charge[p] = "none"
  /\ \A e \in sent : charge[e.payment] # "none"
  /\ \A e \in sent : e.kind = "confirm" /\ e.payment \notin Paypal => charge[e.payment] = "captured"

\* What a payment's record says happened, or a handler is about to make happen.
Recorded ==
  /\ \A p \in captureAudit : charge[p] = "captured"
  /\ \A p \in Payment : status[p] = "failed" =>
       p \in cancelAudit \/ [payment |-> p, kind |-> "fail"] \in sent
  /\ \A p \in Payment : status[p] = "succeeded" =>
       \/ Evidence(p)
       \/ \E h \in Handler : pc[h] \in {"capture", "release"} /\ Subject(h) = p

\* A handler works on a payment under its lock until the payment is confirmed,
\* and on its order with evidence.
Backed ==
  /\ \A h \in Handler : pc[h] \in {"guarded", "capture", "release"} =>
       paymentLock[Subject(h)] = h \/ Subject(h) \in interrupted
  /\ \A h \in Handler : pc[h] \in {"confirm", "read", "paid"} => Evidence(Subject(h))

LEMMA EvidenceStays ==
  ASSUME PaymentTypes, Happened, [Next]_vars, NEW p \in Payment, Evidence(p) PROVE Evidence(p)'
<1> USE DEF Evidence, Happened, PaymentTypes, OutsideTypes
<1>1. ASSUME TransitionOrder, UNCHANGED paymentVars PROVE Evidence(p)'
  BY <1>1 DEF paymentVars
<1>2. ASSUME NEW q \in Payment, CreatePayment(q) PROVE Evidence(p)'
  BY <1>2 DEF CreatePayment, elsewhere
<1>3. ASSUME NEW q \in Payment, Inspect(q) PROVE Evidence(p)'
  BY <1>3 DEF Inspect, atHandlers, atProvider
<1>4. ASSUME NEW q \in Payment, ProviderStep(q) PROVE Evidence(p)'
  BY <1>4 DEF ProviderStep, Charge, atHandlers
<1>5. ASSUME RecordVerifiedCapture PROVE Evidence(p)'
  BY <1>5 DEF RecordVerifiedCapture, atHandlers, atProvider
<1>6. ASSUME RecordVerifiedCancellation PROVE Evidence(p)'
  BY <1>6 DEF RecordVerifiedCancellation, StatusFailed, atHandlers, atProvider
<1>7. ASSUME NEW h \in Handler, NEW e \in sent, Begin(h, e) PROVE Evidence(p)'
  BY <1>7 DEF Begin, Goto, elsewhere, atProvider
<1>8. ASSUME NEW h \in Handler, Guard(h) PROVE Evidence(p)'
  BY <1>8 DEF Guard, Goto, Subject, elsewhere, atProvider
<1>9. ASSUME NEW h \in Handler, FailPayment(h) PROVE Evidence(p)'
  BY <1>9 DEF FailPayment, Written, Processed, Goto, Without, Subject, elsewhere, atProvider
<1>10. ASSUME NEW h \in Handler, ClaimConfirmation(h) PROVE Evidence(p)'
  BY <1>10 DEF ClaimConfirmation, Claim, Written, Continue, Goto, Subject, elsewhere, atProvider
<1>11. ASSUME NEW h \in Handler, SkipClaim(h) PROVE Evidence(p)'
  BY <1>11 DEF SkipClaim, Continue, Goto, Subject, elsewhere, atProvider
<1>12. ASSUME NEW h \in Handler, CaptureOrder(h) PROVE Evidence(p)'
  BY <1>12 DEF CaptureOrder, CaptureFailed, Continue, Goto, Subject, elsewhere, atProvider
<1>13. ASSUME NEW h \in Handler, ReleaseConfirmation(h) PROVE Evidence(p)'
  BY <1>13 DEF ReleaseConfirmation, Releasable, Written, Leave, Goto, Without, Subject,
       elsewhere, atProvider
<1>14. ASSUME NEW h \in Handler, ConfirmPayment(h) PROVE Evidence(p)'
  BY <1>14 DEF ConfirmPayment, Written, Processed, Continue, Goto, Without, Subject,
       elsewhere, atProvider
<1>15. ASSUME NEW h \in Handler, RefuseCanceled(h) PROVE Evidence(p)'
  BY <1>15 DEF RefuseCanceled, Leave, Goto, Without, Subject, elsewhere, atProvider
<1>16. ASSUME NEW h \in Handler, ReadOrder(h) PROVE Evidence(p)'
  BY <1>16 DEF ReadOrder, Processed, Continue, Goto, Without, Subject, elsewhere, atProvider
<1>17. ASSUME NEW h \in Handler, TransitionPaid(h) PROVE Evidence(p)'
  BY <1>17 DEF TransitionPaid, Pay, TransitionWithEvent, Processed, Leave, Goto, Without,
       Subject, elsewhere, atProvider
<1>18. ASSUME NEW h \in Handler, MarkProcessed(h) PROVE Evidence(p)'
  BY <1>18 DEF MarkProcessed, Leave, Goto, Without, Subject, elsewhere, atProvider
<1>19. ASSUME NEW h \in Handler, Crash(h) PROVE Evidence(p)'
  BY <1>19 DEF Crash, Struck, Leave, Goto, Without, Subject, atProvider
<1>20. ASSUME NEW h \in Handler, LoseLock(h) PROVE Evidence(p)'
  BY <1>20 DEF LoseLock, Struck, Without, Subject, atProvider
<1>21. CASE UNCHANGED vars
  BY <1>21 DEF vars, orderVars, paymentVars
<1> HIDE DEF Evidence, Happened, PaymentTypes, OutsideTypes
<1> QED
  BY <1>1, <1>2, <1>3, <1>4, <1>5, <1>6, <1>7, <1>8, <1>9, <1>10, <1>11, <1>12, <1>13,
     <1>14, <1>15, <1>16, <1>17, <1>18, <1>19, <1>20, <1>21 DEF Next

LEMMA HappenedStep ==
  ASSUME PaymentTypes, AtWork, Happened, [Next]_vars PROVE Happened'
<1> USE DEF Happened, PaymentTypes, StoreTypes, OutsideTypes, WebhookEvent
<1>1. ASSUME TransitionOrder, UNCHANGED paymentVars PROVE Happened'
  BY <1>1 DEF paymentVars
<1>2. ASSUME NEW p \in Payment, CreatePayment(p) PROVE Happened'
  BY <1>2 DEF CreatePayment, elsewhere
<1>3. ASSUME NEW p \in Payment, Inspect(p) PROVE Happened'
  BY <1>3 DEF Inspect, atHandlers, atProvider
<1>4. ASSUME NEW p \in Payment, ProviderStep(p) PROVE Happened'
  BY <1>4 DEF ProviderStep, Charge, atHandlers
<1>5. ASSUME RecordVerifiedCapture PROVE Happened'
  BY <1>5 DEF RecordVerifiedCapture, atHandlers, atProvider
<1>6. ASSUME RecordVerifiedCancellation PROVE Happened'
  BY <1>6 DEF RecordVerifiedCancellation, StatusFailed, atHandlers, atProvider
<1>7. ASSUME NEW h \in Handler, NEW e \in sent, Begin(h, e) PROVE Happened'
  BY <1>7 DEF Begin, Goto, elsewhere, atProvider
<1>8. ASSUME NEW h \in Handler, Guard(h) PROVE Happened'
  BY <1>8 DEF Guard, Goto, Subject, elsewhere, atProvider
<1>9. ASSUME NEW h \in Handler, FailPayment(h) PROVE Happened'
  BY <1>9 DEF FailPayment, Written, Processed, Goto, Without, Subject, elsewhere, atProvider
<1>10. ASSUME NEW h \in Handler, ClaimConfirmation(h) PROVE Happened'
  BY <1>10 DEF ClaimConfirmation, Claim, Written, Continue, Goto, Subject, elsewhere, atProvider
<1>11. ASSUME NEW h \in Handler, SkipClaim(h) PROVE Happened'
  BY <1>11 DEF SkipClaim, Continue, Goto, Subject, elsewhere, atProvider
<1>12. ASSUME NEW h \in Handler, CaptureOrder(h) PROVE Happened'
  BY <1>12 DEF CaptureOrder, CaptureFailed, Continue, Goto, Subject, elsewhere, atProvider
<1>13. ASSUME NEW h \in Handler, ReleaseConfirmation(h) PROVE Happened'
  BY <1>13 DEF ReleaseConfirmation, Releasable, Written, Leave, Goto, Without, Subject,
       elsewhere, atProvider
<1>14. ASSUME NEW h \in Handler, ConfirmPayment(h) PROVE Happened'
  BY <1>14 DEF ConfirmPayment, Written, Processed, Continue, Goto, Without, Subject,
       elsewhere, atProvider
<1>15. ASSUME NEW h \in Handler, RefuseCanceled(h) PROVE Happened'
  BY <1>15 DEF RefuseCanceled, Leave, Goto, Without, Subject, elsewhere, atProvider
<1>16. ASSUME NEW h \in Handler, ReadOrder(h) PROVE Happened'
  BY <1>16 DEF ReadOrder, Processed, Continue, Goto, Without, Subject, elsewhere, atProvider
<1>17. ASSUME NEW h \in Handler, TransitionPaid(h) PROVE Happened'
  BY <1>17 DEF TransitionPaid, Pay, TransitionWithEvent, Processed, Leave, Goto, Without,
       Subject, elsewhere, atProvider
<1>18. ASSUME NEW h \in Handler, MarkProcessed(h) PROVE Happened'
  BY <1>18 DEF MarkProcessed, Leave, Goto, Without, Subject, elsewhere, atProvider
<1>19. ASSUME NEW h \in Handler, Crash(h) PROVE Happened'
  BY <1>19 DEF Crash, Struck, Leave, Goto, Without, Subject, atProvider
<1>20. ASSUME NEW h \in Handler, LoseLock(h) PROVE Happened'
  BY <1>20 DEF LoseLock, Struck, Without, Subject, atProvider
<1>21. CASE UNCHANGED vars
  BY <1>21 DEF vars, orderVars, paymentVars
<1> HIDE DEF Happened, PaymentTypes, StoreTypes, OutsideTypes, WebhookEvent
<1> QED
  BY <1>1, <1>2, <1>3, <1>4, <1>5, <1>6, <1>7, <1>8, <1>9, <1>10, <1>11, <1>12, <1>13,
     <1>14, <1>15, <1>16, <1>17, <1>18, <1>19, <1>20, <1>21 DEF Next

LEMMA RecordedStep ==
  ASSUME PaymentTypes, AtWork, AuditsPrevail, Happened, Recorded, Backed,
         [Next]_vars PROVE Recorded'
<1> USE DEF Recorded, PaymentTypes, StoreTypes, OutsideTypes, HandlerTypes, AtWork,
     WebhookEvent, Evidence, Subject
<1>1. ASSUME TransitionOrder, UNCHANGED paymentVars PROVE Recorded'
  BY <1>1 DEF paymentVars
<1>2. ASSUME NEW p \in Payment, CreatePayment(p) PROVE Recorded'
  BY <1>2 DEF CreatePayment, elsewhere, Happened, AuditsPrevail
<1>3. ASSUME NEW p \in Payment, Inspect(p) PROVE Recorded'
  BY <1>3 DEF Inspect, atHandlers, atProvider
<1>4. ASSUME NEW p \in Payment, ProviderStep(p) PROVE Recorded'
  BY <1>4 DEF ProviderStep, Charge, atHandlers
<1>5. ASSUME RecordVerifiedCapture PROVE Recorded'
  BY <1>5 DEF RecordVerifiedCapture, atHandlers, atProvider, Happened, AuditsPrevail
<1>6. ASSUME RecordVerifiedCancellation PROVE Recorded'
  BY <1>6 DEF RecordVerifiedCancellation, StatusFailed, atHandlers, atProvider, Happened,
       AuditsPrevail
<1>7. ASSUME NEW h \in Handler, NEW e \in sent, Begin(h, e) PROVE Recorded'
  BY <1>7 DEF Begin, Goto, elsewhere, atProvider
<1>8. ASSUME NEW h \in Handler, Guard(h) PROVE Recorded'
  BY <1>8 DEF Guard, Goto, Subject, elsewhere, atProvider
<1>9. ASSUME NEW h \in Handler, FailPayment(h) PROVE Recorded'
  BY <1>9 DEF FailPayment, Written, Processed, Goto, Without, Subject, elsewhere, atProvider,
       Happened, AuditsPrevail
<1>10. ASSUME NEW h \in Handler, ClaimConfirmation(h) PROVE Recorded'
  BY <1>10 DEF ClaimConfirmation, Claim, Written, Continue, Goto, Subject, elsewhere, atProvider
<1>11. ASSUME NEW h \in Handler, SkipClaim(h) PROVE Recorded'
  BY <1>11 DEF SkipClaim, Continue, Goto, Subject, elsewhere, atProvider
<1>12. ASSUME NEW h \in Handler, CaptureOrder(h) PROVE Recorded'
  BY <1>12 DEF CaptureOrder, CaptureFailed, Continue, Goto, Subject, elsewhere, atProvider
<1>13. ASSUME NEW h \in Handler, ReleaseConfirmation(h) PROVE Recorded'
  BY <1>13 DEF ReleaseConfirmation, Releasable, Written, Leave, Goto, Without, Subject,
       elsewhere, atProvider
<1>14. ASSUME NEW h \in Handler, ConfirmPayment(h) PROVE Recorded'
  BY <1>14 DEF ConfirmPayment, Written, Processed, Continue, Goto, Without, Subject,
       elsewhere, atProvider, Happened, AuditsPrevail, Backed
<1>15. ASSUME NEW h \in Handler, RefuseCanceled(h) PROVE Recorded'
  BY <1>15 DEF RefuseCanceled, Leave, Goto, Without, Subject, elsewhere, atProvider
<1>16. ASSUME NEW h \in Handler, ReadOrder(h) PROVE Recorded'
  BY <1>16 DEF ReadOrder, Processed, Continue, Goto, Without, Subject, elsewhere, atProvider
<1>17. ASSUME NEW h \in Handler, TransitionPaid(h) PROVE Recorded'
  BY <1>17 DEF TransitionPaid, Pay, TransitionWithEvent, Processed, Leave, Goto, Without,
       Subject, elsewhere, atProvider
<1>18. ASSUME NEW h \in Handler, MarkProcessed(h) PROVE Recorded'
  BY <1>18 DEF MarkProcessed, Leave, Goto, Without, Subject, elsewhere, atProvider
<1>19. ASSUME NEW h \in Handler, Crash(h) PROVE Recorded'
  BY <1>19 DEF Crash, Struck, Leave, Goto, Without, Subject, atProvider
<1>20. ASSUME NEW h \in Handler, LoseLock(h) PROVE Recorded'
  BY <1>20 DEF LoseLock, Struck, Without, Subject, atProvider
<1>21. CASE UNCHANGED vars
  BY <1>21 DEF vars, orderVars, paymentVars
<1> HIDE DEF Recorded, PaymentTypes, StoreTypes, OutsideTypes, HandlerTypes, AtWork,
     WebhookEvent, Evidence, Subject
<1> QED
  BY <1>1, <1>2, <1>3, <1>4, <1>5, <1>6, <1>7, <1>8, <1>9, <1>10, <1>11, <1>12, <1>13,
     <1>14, <1>15, <1>16, <1>17, <1>18, <1>19, <1>20, <1>21 DEF Next

LEMMA BackedStep ==
  ASSUME PaymentTypes, AtWork, Happened, Recorded, Backed, [Next]_vars PROVE Backed'
<1> USE DEF Backed, PaymentTypes, StoreTypes, OutsideTypes, HandlerTypes, AtWork,
     WebhookEvent, Evidence, Subject
<1>1. ASSUME TransitionOrder, UNCHANGED paymentVars PROVE Backed'
  BY <1>1 DEF paymentVars
<1>2. ASSUME NEW p \in Payment, CreatePayment(p) PROVE Backed'
  BY <1>2 DEF CreatePayment, elsewhere, Happened
<1>3. ASSUME NEW p \in Payment, Inspect(p) PROVE Backed'
  BY <1>3 DEF Inspect, atHandlers, atProvider
<1>4. ASSUME NEW p \in Payment, ProviderStep(p) PROVE Backed'
  BY <1>4 DEF ProviderStep, Charge, atHandlers
<1>5. ASSUME RecordVerifiedCapture PROVE Backed'
  BY <1>5 DEF RecordVerifiedCapture, atHandlers, atProvider
<1>6. ASSUME RecordVerifiedCancellation PROVE Backed'
  BY <1>6 DEF RecordVerifiedCancellation, StatusFailed, atHandlers, atProvider
<1>7. ASSUME NEW h \in Handler, NEW e \in sent, Begin(h, e) PROVE Backed'
  BY <1>7 DEF Begin, Goto, elsewhere, atProvider
<1>8. ASSUME NEW h \in Handler, Guard(h) PROVE Backed'
  BY <1>8, PaymentAssumption DEF Guard, Goto, Subject, elsewhere, atProvider
<1>9. ASSUME NEW h \in Handler, FailPayment(h) PROVE Backed'
  BY <1>9 DEF FailPayment, Written, Processed, Goto, Without, Subject, elsewhere, atProvider
<1>10. ASSUME NEW h \in Handler, ClaimConfirmation(h) PROVE Backed'
  BY <1>10 DEF ClaimConfirmation, Claim, Written, Continue, Goto, Subject, elsewhere,
       atProvider, Happened, Recorded
<1>11. ASSUME NEW h \in Handler, SkipClaim(h) PROVE Backed'
  BY <1>11 DEF SkipClaim, Continue, Goto, Subject, elsewhere, atProvider, Happened, Recorded
<1>12. ASSUME NEW h \in Handler, CaptureOrder(h) PROVE Backed'
  BY <1>12 DEF CaptureOrder, CaptureFailed, Continue, Goto, Subject, elsewhere, atProvider
<1>13. ASSUME NEW h \in Handler, ReleaseConfirmation(h) PROVE Backed'
  BY <1>13 DEF ReleaseConfirmation, Releasable, Written, Leave, Goto, Without, Subject,
       elsewhere, atProvider
<1>14. ASSUME NEW h \in Handler, ConfirmPayment(h) PROVE Backed'
  BY <1>14 DEF ConfirmPayment, Written, Processed, Continue, Goto, Without, Subject,
       elsewhere, atProvider
<1>15. ASSUME NEW h \in Handler, RefuseCanceled(h) PROVE Backed'
  BY <1>15 DEF RefuseCanceled, Leave, Goto, Without, Subject, elsewhere, atProvider
<1>16. ASSUME NEW h \in Handler, ReadOrder(h) PROVE Backed'
  BY <1>16 DEF ReadOrder, Processed, Continue, Goto, Without, Subject, elsewhere, atProvider
<1>17. ASSUME NEW h \in Handler, TransitionPaid(h) PROVE Backed'
  BY <1>17 DEF TransitionPaid, Pay, TransitionWithEvent, Processed, Leave, Goto, Without,
       Subject, elsewhere, atProvider
<1>18. ASSUME NEW h \in Handler, MarkProcessed(h) PROVE Backed'
  BY <1>18 DEF MarkProcessed, Leave, Goto, Without, Subject, elsewhere, atProvider
<1>19. ASSUME NEW h \in Handler, Crash(h) PROVE Backed'
  BY <1>19 DEF Crash, Struck, Leave, Goto, Without, Subject, atProvider
<1>20. ASSUME NEW h \in Handler, LoseLock(h) PROVE Backed'
  BY <1>20 DEF LoseLock, Struck, Without, Subject, atProvider
<1>21. CASE UNCHANGED vars
  BY <1>21 DEF vars, orderVars, paymentVars
<1> HIDE DEF Backed, PaymentTypes, StoreTypes, OutsideTypes, HandlerTypes, AtWork,
     WebhookEvent, Evidence, Subject
<1> QED
  BY <1>1, <1>2, <1>3, <1>4, <1>5, <1>6, <1>7, <1>8, <1>9, <1>10, <1>11, <1>12, <1>13,
     <1>14, <1>15, <1>16, <1>17, <1>18, <1>19, <1>20, <1>21 DEF Next

-----------------------------------------------------------------------------
Invariant ==
  TypeOK /\ AtWork /\ Claimed /\ AuditsPrevail /\ Settled /\ Happened /\ Recorded /\ Backed

LEMMA InvariantAlways == Spec => []Invariant
<1>1. TypeOK <=> OrderTypeOK /\ PaymentTypes
  BY DEF TypeOK, PaymentTypes, StoreTypes, HandlerTypes, OutsideTypes
<1>2. Init => Claimed /\ AuditsPrevail /\ Settled /\ Happened /\ Recorded /\ Backed
  BY DEF Init, Claimed, AuditsPrevail, Settled, MarkedIsSettled, Happened, Recorded, Backed
<1>3. Invariant /\ [Next]_vars =>
        Claimed' /\ AuditsPrevail' /\ Settled' /\ Happened' /\ Recorded' /\ Backed'
  BY <1>1, ClaimedStep, AuditsStep, SettledStep, HappenedStep, RecordedStep, BackedStep
  DEF Invariant
<1> QED
  BY <1>2, <1>3, TypesAlways, PTL DEF Invariant, Spec

\* No payment is ever captured by two handlers at a time, with or without locks.
THEOREM OneCapturerCorrect == Spec => []OneCapturer
<1>1. Claimed => OneCapturer
  BY DEF Claimed, OneCapturer
<1> QED
  BY <1>1, InvariantAlways, PTL DEF Invariant

\* The audits never contradict each other or the record they speak of.
THEOREM AuditsPrevailCorrect == Spec => []AuditsPrevail
BY InvariantAlways, PTL DEF Invariant

\* A confirmation that is marked processed has its order out of "pending".
THEOREM MarkedIsSettledCorrect == Spec => []MarkedIsSettled
BY InvariantAlways, PTL DEF Invariant, Settled

\* The webhook pays with captured money, but for the faults it names.
THEOREM PaidIsCapturedCorrect == Spec => []PaidIsCaptured
<1>1. Backed => PaidIsCaptured
  BY DEF Backed, Evidence, PaidIsCaptured
<1> QED
  BY <1>1, InvariantAlways, PTL DEF Invariant
=============================================================================
