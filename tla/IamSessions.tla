----------------------------- MODULE IamSessions -----------------------------
(***************************************************************************)
(* Accounts, revocable sessions and browser logins of the IAM service      *)
(* (iam-base/src/postgres.rs, postgres/provider_identities.rs,             *)
(* browser_sessions.rs, browser_sessions/oidc.rs, http/browser.rs,         *)
(* http/browser/oidc.rs and framework-rs axum/src/cookie_session.rs).      *)
(*                                                                         *)
(* A table is the set of its committed rows.  Transactions are READ        *)
(* COMMITTED: a statement waits for the row locks it needs, and a          *)
(* transaction of one statement is one action.  Those of several are       *)
(* requests that pass from stage to stage, and any of them may fail        *)
(* between two stages (Abandon), which rolls its open transaction back.    *)
(*                                                                         *)
(* The session layer around the handlers is external: it deletes a cookie  *)
(* whose ID is cycled or flushed at once, and saves a request's record     *)
(* when its handler has answered, under a new ID if it has none.           *)
(***************************************************************************)
EXTENDS Naturals

CONSTANTS
  User, Token, Cookie, State, Request, None,
  MaxPasswords  \* bound on the passwords a user ever has

ASSUME IamAssumption ==
  /\ None \notin User \cup Token \cup Cookie \cup State \cup Request
  /\ MaxPasswords \in Nat

VARIABLES
  accounts,  \* fl_iam_users: the password's number stands for its hash
  bound,     \* users with a row in fl_iam_provider_identities
  sessions,  \* fl_iam_sessions, with the password they were issued under (history)
  cookies,   \* fl_iam_browser_sessions: the identity each record carries
  pending,   \* fl_iam_oidc_pending
  userLock, bindingLock,  \* row locks of open transactions
  stage, request,         \* where each request is, and what it carries
  spent      \* identifiers drawn so far: tokens, cookie IDs and OIDC states

iamVars == <<accounts, bound, sessions, cookies, pending, userLock, bindingLock,
             stage, request, spent>>

Account == [user : User, password : 0 .. MaxPasswords, disabled : BOOLEAN]
SessionRow == [token : Token, user : User, password : 0 .. MaxPasswords]
CookieRow == [id : Cookie, subject : Token \cup {None}]
PendingRow == [cookie : Cookie, state : State]

Carried == [kind : {"none", "login", "callback", "logout", "csrf", "password"},
            cookie : Cookie \cup {None}, previous : Token \cup {None},
            user : User \cup {None}, password : 0 .. MaxPasswords,
            state : State \cup {None}, token : Token \cup {None},
            rows : SUBSET SessionRow]
Nothing == [kind |-> "none", cookie |-> None, previous |-> None, user |-> None,
            password |-> 0, state |-> None, token |-> None, rows |-> {}]

Stage == {"idle", "loaded", "exchange", "locked", "issued", "establish", "save",
          "flush", "rewritten", "deleted"}

IamTypeOK ==
  /\ accounts \subseteq Account
  /\ bound \subseteq User
  /\ sessions \subseteq SessionRow
  /\ cookies \subseteq CookieRow
  /\ pending \subseteq PendingRow
  /\ userLock \in [User -> Request \cup {None}]
  /\ bindingLock \in [User -> Request \cup {None}]
  /\ stage \in [Request -> Stage]
  /\ request \in [Request -> Carried]
  /\ spent \subseteq Token \cup Cookie \cup State

IamInit ==
  /\ accounts = {[user |-> u, password |-> 0, disabled |-> FALSE] : u \in User}
  /\ bound = User
  /\ sessions = {} /\ cookies = {} /\ pending = {} /\ spent = {}
  /\ userLock = [u \in User |-> None]
  /\ bindingLock = [u \in User |-> None]
  /\ stage = [r \in Request |-> "idle"]
  /\ request = [r \in Request |-> Nothing]

-----------------------------------------------------------------------------
tables == <<accounts, bound, sessions, cookies, pending, spent>>
locks == <<userLock, bindingLock>>

Live(c) == \E row \in cookies : row.id = c
WithoutCookie(c) == {row \in cookies : row.id # c}
\* Deleting a cookie's row cascades to its pending authorization.
DeleteCookie(c) ==
  /\ cookies' = WithoutCookie(c)
  /\ pending' = {row \in pending : row.cookie # c}

WithoutToken(t) == {row \in sessions : row.token # t}

Advance(r, to) == stage' = [stage EXCEPT ![r] = to]
Released(lock, r) == [u \in User |-> IF lock[u] = r THEN None ELSE lock[u]]

\* The request ends; an open transaction of its own goes with it.
Finish(r) ==
  /\ Advance(r, "idle")
  /\ request' = [request EXCEPT ![r] = Nothing]
  /\ userLock' = Released(userLock, r)
  /\ bindingLock' = Released(bindingLock, r)

-----------------------------------------------------------------------------
\* A first visit: GET /csrf without a live cookie saves a record under a new ID.
Visit(c) ==
  /\ c \notin spent
  /\ cookies' = cookies \cup {[id |-> c, subject |-> None]}
  /\ spent' = spent \cup {c}
  /\ UNCHANGED <<accounts, bound, sessions, pending, locks, stage, request>>

\* A request with a live cookie: the layer loads its record.  Unsafe methods
\* have proved the record's CSRF token by then.
Load(r, row, carried) ==
  /\ stage[r] = "idle"
  /\ row \in cookies
  /\ Advance(r, "loaded")
  /\ request' = [request EXCEPT ![r] = [carried EXCEPT !.cookie = row.id, !.previous = row.subject]]
  /\ UNCHANGED <<tables, locks>>

LoadLogin(r, row) ==
  \E u \in User, p \in 0 .. MaxPasswords :
    Load(r, row, [Nothing EXCEPT !.kind = "login", !.user = u, !.password = p])
LoadCallback(r, row) ==
  \E u \in User, s \in State \cap spent :
    Load(r, row, [Nothing EXCEPT !.kind = "callback", !.user = u, !.state = s])
LoadLogout(r, row) == Load(r, row, [Nothing EXCEPT !.kind = "logout"])
LoadCsrf(r, row) == Load(r, row, [Nothing EXCEPT !.kind = "csrf"])

\* save_oidc_pending: one per live cookie, a newer start supersedes the older.
StartOidc(c, s) ==
  /\ Live(c)
  /\ s \notin spent
  /\ pending' = {row \in pending : row.cookie # c} \cup {[cookie |-> c, state |-> s]}
  /\ spent' = spent \cup {s}
  /\ UNCHANGED <<accounts, bound, sessions, cookies, locks, stage, request>>

\* consume_oidc_pending: one DELETE ... RETURNING on the browser's own row.
ConsumePending(r) ==
  LET row == [cookie |-> request[r].cookie, state |-> request[r].state] IN
  /\ stage[r] = "loaded"
  /\ request[r].kind = "callback"
  /\ row \in pending
  /\ pending' = pending \ {row}
  /\ Advance(r, "exchange")
  /\ UNCHANGED <<accounts, bound, sessions, cookies, spent, locks, request>>

\* Mutant: a SELECT that neither waits nor locks.
SelectOnly(r, u) == UNCHANGED userLock
SelectForUpdate(r, u) == userLock[u] = None /\ userLock' = [userLock EXCEPT ![u] = r]

\* Mutant: FOR UPDATE OF u.
SelectBinding(r, u) == UNCHANGED bindingLock
LockBinding(r, u) == bindingLock[u] = None /\ bindingLock' = [bindingLock EXCEPT ![u] = r]

\* authenticate: SELECT ... FOR UPDATE, then the password is verified at leisure.
LockForLogin(r) ==
  LET u == request[r].user IN
  /\ stage[r] = "loaded"
  /\ request[r].kind = "login"
  /\ [user |-> u, password |-> request[r].password, disabled |-> FALSE] \in accounts
  /\ SelectForUpdate(r, u)
  /\ Advance(r, "locked")
  /\ UNCHANGED <<tables, bindingLock, request>>

\* session_for_provider_identity: FOR UPDATE OF p, u once the provider answered.
LockForCallback(r) ==
  LET u == request[r].user IN
  /\ stage[r] = "exchange"
  /\ u \in bound
  /\ \E p \in 0 .. MaxPasswords :
       /\ [user |-> u, password |-> p, disabled |-> FALSE] \in accounts
       /\ request' = [request EXCEPT ![r].password = p]
  /\ SelectForUpdate(r, u)
  /\ LockBinding(r, u)
  /\ Advance(r, "locked")
  /\ UNCHANGED tables

\* persist_session and commit.
IssueSession(r, t) ==
  /\ stage[r] = "locked"
  /\ t \notin spent
  /\ sessions' = sessions \cup
       {[token |-> t, user |-> request[r].user, password |-> request[r].password]}
  /\ spent' = spent \cup {t}
  /\ request' = [request EXCEPT ![r].token = t]
  /\ userLock' = Released(userLock, r)
  /\ bindingLock' = Released(bindingLock, r)
  /\ Advance(r, "issued")
  /\ UNCHANGED <<accounts, bound, cookies, pending>>

\* login and callback revoke the credential the browser came with ...
RevokePrevious(r) ==
  /\ stage[r] = "issued"
  /\ sessions' = WithoutToken(request[r].previous)
  /\ Advance(r, "establish")
  /\ UNCHANGED <<accounts, bound, cookies, pending, spent, locks, request>>

\* ... and if that fails, the new one.
RevokeIssued(r) ==
  /\ stage[r] \in {"issued", "establish"}
  /\ sessions' = WithoutToken(request[r].token)
  /\ Finish(r)
  /\ UNCHANGED <<accounts, bound, cookies, pending, spent>>

\* CookieSession::login: the resolver accepts the credential, the ID is cycled.
Establish(r) ==
  /\ stage[r] = "establish"
  /\ \E row \in sessions, account \in accounts :
       row.token = request[r].token /\ account.user = row.user /\ ~account.disabled
  /\ DeleteCookie(request[r].cookie)
  /\ Advance(r, "save")
  /\ UNCHANGED <<accounts, bound, sessions, spent, locks, request>>

\* The layer saves the record of a login: create under a new ID.
CreateCookie(r, c) ==
  /\ stage[r] = "save"
  /\ c \notin spent
  /\ cookies' = cookies \cup {[id |-> c, subject |-> request[r].token]}
  /\ spent' = spent \cup {c}
  /\ Finish(r)
  /\ UNCHANGED <<accounts, bound, sessions, pending>>

\* Mutant: INSERT ... ON CONFLICT DO UPDATE.
Upserted(row) == WithoutCookie(row.id) \cup {row}
Updated(row) == IF Live(row.id) THEN WithoutCookie(row.id) \cup {row} ELSE cookies

\* GET /csrf rotates nothing but saves the whole record it loaded: an UPDATE of
\* the row, which a deleted cookie no longer has.
SaveCookie(r) ==
  /\ stage[r] = "loaded"
  /\ request[r].kind = "csrf"
  /\ cookies' = Updated([id |-> request[r].cookie, subject |-> request[r].previous])
  /\ Finish(r)
  /\ UNCHANGED <<accounts, bound, sessions, pending, spent>>

\* logout: the credential first, then the cookie.
LogoutRevoke(r) ==
  /\ stage[r] = "loaded"
  /\ request[r].kind = "logout"
  /\ sessions' = WithoutToken(request[r].previous)
  /\ Advance(r, "flush")
  /\ UNCHANGED <<accounts, bound, cookies, pending, spent, locks, request>>

LogoutFlush(r) ==
  /\ stage[r] = "flush"
  /\ DeleteCookie(request[r].cookie)
  /\ Finish(r)
  /\ UNCHANGED <<accounts, bound, sessions, spent>>

\* A wrong password, a refusal, an error or the process's death.
Abandon(r) ==
  /\ stage[r] # "idle"
  /\ Finish(r)
  /\ UNCHANGED tables

-----------------------------------------------------------------------------
\* set_password: UPDATE the user's row ...
RewritePassword(r, account) ==
  LET u == account.user IN
  /\ stage[r] = "idle"
  /\ account.password < MaxPasswords
  /\ userLock[u] = None
  /\ userLock' = [userLock EXCEPT ![u] = r]
  /\ request' = [request EXCEPT ![r] = [Nothing EXCEPT !.kind = "password", !.user = u,
                                                       !.password = account.password + 1]]
  /\ Advance(r, "rewritten")
  /\ UNCHANGED <<tables, bindingLock>>

\* ... DELETE the sessions committed by now ...
DeleteSessions(r) ==
  /\ stage[r] = "rewritten"
  /\ request' = [request EXCEPT ![r].rows = {row \in sessions : row.user = request[r].user}]
  /\ Advance(r, "deleted")
  /\ UNCHANGED <<tables, locks>>

\* ... and commit both.
CommitPassword(r) ==
  /\ stage[r] = "deleted"
  /\ accounts' = {IF account.user = request[r].user
                  THEN [account EXCEPT !.password = request[r].password]
                  ELSE account : account \in accounts}
  /\ sessions' = sessions \ request[r].rows
  /\ Finish(r)
  /\ UNCHANGED <<bound, cookies, pending, spent>>

\* update_user; the row it replaces must not be locked.
SetDisabled(account, disabled) ==
  /\ account.disabled # disabled
  /\ userLock[account.user] = None
  /\ accounts' = (accounts \ {account}) \cup {[account EXCEPT !.disabled = disabled]}
  /\ UNCHANGED <<bound, sessions, cookies, pending, spent, locks, stage, request>>

\* delete_user cascades to the sessions and the provider identity.
DeleteUser(account) ==
  LET u == account.user IN
  /\ userLock[u] = None
  /\ bindingLock[u] = None
  /\ accounts' = accounts \ {account}
  /\ bound' = bound \ {u}
  /\ sessions' = {row \in sessions : row.user # u}
  /\ UNCHANGED <<cookies, pending, spent, locks, stage, request>>

\* bind_provider_identity.  Its foreign key waits for a login's FOR UPDATE, not
\* for a password's UPDATE.
Bind(account) ==
  /\ \A r \in Request : userLock[account.user] = r => stage[r] # "locked"
  /\ account.user \notin bound
  /\ bound' = bound \cup {account.user}
  /\ UNCHANGED <<accounts, sessions, cookies, pending, spent, locks, stage, request>>

Unbind(u) ==
  /\ u \in bound
  /\ bindingLock[u] = None
  /\ bound' = bound \ {u}
  /\ UNCHANGED <<accounts, sessions, cookies, pending, spent, locks, stage, request>>

\* revoke_session, or expiry and purge_expired_sessions.
EndSession(t) ==
  /\ sessions' = WithoutToken(t)
  /\ sessions' # sessions
  /\ UNCHANGED <<accounts, bound, cookies, pending, spent, locks, stage, request>>

\* Expiry and purge_expired.
EndCookie(c) ==
  /\ Live(c)
  /\ DeleteCookie(c)
  /\ UNCHANGED <<accounts, bound, sessions, spent, locks, stage, request>>

IamNext ==
  \/ \E c \in Cookie : Visit(c) \/ EndCookie(c) \/ \E s \in State : StartOidc(c, s)
  \/ \E r \in Request :
       \/ \E row \in cookies : LoadLogin(r, row) \/ LoadCallback(r, row)
                               \/ LoadLogout(r, row) \/ LoadCsrf(r, row)
       \/ ConsumePending(r) \/ LockForLogin(r) \/ LockForCallback(r)
       \/ \E t \in Token : IssueSession(r, t)
       \/ RevokePrevious(r) \/ RevokeIssued(r) \/ Establish(r)
       \/ \E c \in Cookie : CreateCookie(r, c)
       \/ SaveCookie(r) \/ LogoutRevoke(r) \/ LogoutFlush(r) \/ Abandon(r)
       \/ \E account \in accounts : RewritePassword(r, account)
       \/ DeleteSessions(r) \/ CommitPassword(r)
  \/ \E account \in accounts :
       \/ \E disabled \in BOOLEAN : SetDisabled(account, disabled)
       \/ DeleteUser(account) \/ Bind(account)
  \/ \E u \in User : Unbind(u)
  \/ \E t \in Token : EndSession(t)

IamSpec == IamInit /\ [][IamNext]_iamVars

-----------------------------------------------------------------------------
\* Changing a password ends every session issued under the one before, the
\* sessions of logins it overtakes included: a session on record was issued to
\* an account that exists, under the password it has now.
IssuedUnderCurrentPassword ==
  \A row \in sessions : \E account \in accounts :
    account.user = row.user /\ account.password = row.password

\* No session is issued to a user who is disabled or deleted when it is, nor
\* through a provider identity that is unbound by then.
NoIssueWhileBarred ==
  [][\A row \in sessions' \ sessions :
       /\ \E account \in accounts : account.user = row.user /\ ~account.disabled
       /\ \A r \in Request :
            request[r].kind = "callback" /\ request'[r].token # request[r].token
              /\ request'[r].token = row.token => row.user \in bound]_iamVars

\* A cookie that was deleted or expired never comes back, whatever request is
\* still on its way with the record it loaded.
CookieNeverReturns ==
  [][\A c \in Cookie \cap spent : (\E row \in cookies' : row.id = c) => Live(c)]_iamVars
=============================================================================
