------------------------------ MODULE Accounts ------------------------------
(***************************************************************************)
(* Accounts and sessions: the identity Service, the user moderation of     *)
(* ModerationService and the JWT middleware.  A user is a row of users;    *)
(* verification, reset and refresh tokens are keys of Redis; an access     *)
(* token is a signed claim nobody stores or revokes.                       *)
(*                                                                         *)
(* Each request runs statement by statement: every change of a user reads  *)
(* the row, modifies the copy and writes the whole row back, and what a    *)
(* token stands for is looked up in statements of their own.  Between two  *)
(* statements other requests run, and any of them may fail or be cut off.  *)
(***************************************************************************)
EXTENDS Naturals, FiniteSets

CONSTANTS Users,          \* accounts, known by their e-mail address
          ResetTokens,    \* random tokens for password resets
          RefreshTokens,  \* random refresh tokens
          Procs,          \* concurrent requests
          Root,           \* the administrator made by the seeder
          NoUser          \* no row

VARIABLES users,    \* users[u]: the row of u, or NoUser
          verify,   \* accounts whose verification token is in Redis
          reset,    \* reset[t]: the account a reset token stands for, or NoUser
          refresh,  \* refresh[t]: the account of a refresh token, or NoUser
          access,   \* access[u]: roles claimed by u's unexpired access tokens
          req,      \* req[p]: where request p is and what it holds
          excused   \* accounts that lost their way to verify (history)

vars == <<users, verify, reset, refresh, access, req, excused>>
tokenVars == <<verify, reset, refresh, access>>

Role == {"user", "admin"}
\* The columns that decide something.  Name and password hash are written back
\* with them; a login below is one with the password of the row.
Row == [role : Role, active : BOOLEAN, verified : BOOLEAN]
Fields == {"role", "active", "verified"}

\* No account is the seeder's, and having no row is neither an account nor a row.
ASSUME UsersAssumption == Root \notin Users /\ NoUser \notin Users \cup Row

Idle == [pc |-> "idle"]
Request ==
    {Idle} \cup
    [pc : {"storeVerify", "verify", "delVerify"}, user : Users] \cup
    [pc : {"reset", "delReset"}, user : Users, tok : ResetTokens] \cup
    [pc : {"write"}, user : Users, row : Row, then : {"answer", "delVerify"}] \cup
    [pc : {"write"}, user : Users, row : Row, then : {"delReset"}, tok : ResetTokens] \cup
    [pc : {"login"}, user : Users, role : Role] \cup
    [pc : {"refresh"}, user : Users, tok : RefreshTokens] \cup
    [pc : {"rotate"}, user : Users, tok : RefreshTokens, role : Role]

Init ==
    /\ users = [u \in Users |-> NoUser]
    /\ verify = {}
    /\ reset = [t \in ResetTokens |-> NoUser]
    /\ refresh = [t \in RefreshTokens |-> NoUser]
    /\ access = [u \in Users |-> {}]
    /\ req = [p \in Procs |-> Idle]
    /\ excused = {}

-----------------------------------------------------------------------------
(* Rows, tokens and claims. *)

FindUserUnverified(u) ==         \* mutant: toDomain leaves email_verified_at out
    IF users[u] = NoUser THEN NoUser ELSE [users[u] EXCEPT !.verified = FALSE]

\* GetUserByID and GetUserByEmail, with toDomain.
FindUser(u) == users[u]

Exists(u) == users[u] # NoUser

\* NewUser.
NewUser == [role |-> "user", active |-> TRUE, verified |-> FALSE]

\* INSERT INTO users, whose address is unique.
CreateUser(u, row) == ~Exists(u) /\ users' = [users EXCEPT ![u] = row]

\* UPDATE users: all the columns, whatever they hold by now.
UpdateUser(u, row) == users' = [users EXCEPT ![u] = row]

\* randomHex: a token nobody holds.
FreshReset(t) == reset[t] = NoUser /\ \A p \in Procs :
    req[p].pc \in {"reset", "delReset", "write"} /\ "tok" \in DOMAIN req[p] => req[p].tok # t

FreshRefresh(t) == refresh[t] = NoUser /\ \A p \in Procs :
    req[p].pc \in {"refresh", "rotate"} => req[p].tok # t

\* u is handed an access token that claims `role'.
GenerateAccessToken(u, role) == access' = [access EXCEPT ![u] = @ \cup {role}]

\* RequireAuth: u presents an access token that has not expired.
Authenticated(u) == access[u] # {}

\* RequireAuth and RequireRole("admin"): the role is the one the token claims.
Admins == {Root} \cup {a \in Users : "admin" \in access[a]}

Begin(p, r) == req[p] = Idle /\ req' = [req EXCEPT ![p] = r]
Step(p, r) == req' = [req EXCEPT ![p] = r]

\* A copy is changed in memory; the row will be written as `row'.
Modify(p, u, row, then) ==
    Begin(p, [pc |-> "write", user |-> u, row |-> row, then |-> then])

-----------------------------------------------------------------------------
(* Registration and verification. *)

\* POST /auth/register: the INSERT.
RegisterUser(p, u) ==
    /\ CreateUser(u, NewUser)
    /\ Begin(p, [pc |-> "storeVerify", user |-> u])
    /\ UNCHANGED <<tokenVars, excused>>

\* ... and the verification token; a failure to send it is ignored.
StoreVerificationToken(p) ==
    /\ req[p].pc = "storeVerify"
    /\ verify' = verify \cup {req[p].user}
    /\ Step(p, Idle)
    /\ UNCHANGED <<users, reset, refresh, access, excused>>

\* POST /auth/verify-email: the token is looked up, and is still there after.
VerifyEmail(p, u) ==
    /\ u \in verify
    /\ Begin(p, [pc |-> "verify", user |-> u])
    /\ UNCHANGED <<users, tokenVars, excused>>

VerifyReadSpends(p) ==           \* mutant: the token is spent before it is used
    LET u == req[p].user  row == FindUser(u) IN
    /\ req[p].pc = "verify"
    /\ Step(p, IF row.verified THEN [pc |-> "delVerify", user |-> u]
               ELSE [pc |-> "write", user |-> u, then |-> "answer",
                     row |-> [row EXCEPT !.verified = TRUE]])
    /\ verify' = verify \ {u}
    /\ UNCHANGED <<users, reset, refresh, access, excused>>

\* The row is read: nothing to write if it is verified already.
VerifyRead(p) ==
    LET u == req[p].user  row == FindUser(u) IN
    /\ req[p].pc = "verify"
    /\ Step(p, IF row.verified THEN [pc |-> "delVerify", user |-> u]
               ELSE [pc |-> "write", user |-> u, then |-> "delVerify",
                     row |-> [row EXCEPT !.verified = TRUE]])
    /\ UNCHANGED <<users, tokenVars, excused>>

DeleteVerificationToken(p) ==
    /\ req[p].pc = "delVerify"
    /\ verify' = verify \ {req[p].user}
    /\ Step(p, Idle)
    /\ UNCHANGED <<users, reset, refresh, access, excused>>

-----------------------------------------------------------------------------
(* Sessions. *)

LoginBanned(p, u) ==         \* mutant: is_active is not looked at
    LET row == FindUser(u) IN
    /\ Exists(u)
    /\ Begin(p, [pc |-> "login", user |-> u, role |-> row.role])
    /\ UNCHANGED <<users, tokenVars, excused>>

\* POST /auth/login: the checks are made on the row that was read.
LoginUser(p, u) ==
    LET row == FindUser(u) IN
    /\ Exists(u) /\ row.active
    /\ Begin(p, [pc |-> "login", user |-> u, role |-> row.role])
    /\ UNCHANGED <<users, tokenVars, excused>>

\* The refresh token is stored and the pair of tokens answered.
StoreRefreshToken(p) ==
    LET u == req[p].user IN
    /\ req[p].pc = "login"
    /\ \E t \in RefreshTokens : FreshRefresh(t) /\ refresh' = [refresh EXCEPT ![t] = u]
    /\ GenerateAccessToken(u, req[p].role)
    /\ Step(p, Idle)
    /\ UNCHANGED <<users, verify, reset, excused>>

\* POST /auth/refresh: the token is looked up.
RefreshToken(p, t) ==
    /\ refresh[t] # NoUser
    /\ Begin(p, [pc |-> "refresh", user |-> refresh[t], tok |-> t])
    /\ UNCHANGED <<users, tokenVars, excused>>

RefreshReadKeepsRole(p) ==       \* mutant: the role of the old claim is kept
    LET u == req[p].user IN
    /\ req[p].pc = "refresh"
    /\ \E role \in access[u] \cup {FindUser(u).role} :
          Step(p, [pc |-> "rotate", user |-> u, tok |-> req[p].tok, role |-> role])
    /\ UNCHANGED <<users, tokenVars, excused>>

\* The row is read for its role; is_active is not looked at.
RefreshRead(p) ==
    /\ req[p].pc = "refresh"
    /\ Step(p, [pc |-> "rotate", user |-> req[p].user, tok |-> req[p].tok,
                role |-> FindUser(req[p].user).role])
    /\ UNCHANGED <<users, tokenVars, excused>>

\* The new token is stored, the old one revoked (an error is ignored) and the
\* new pair answered.  Nobody knows the new token before the answer: that it
\* is in Redis one statement earlier changes nothing for anyone.
Rotate(p) ==
    LET r == req[p] IN
    /\ r.pc = "rotate"
    /\ \E t \in RefreshTokens, old \in {refresh[r.tok], NoUser} :
          FreshRefresh(t) /\ refresh' = [refresh EXCEPT ![t] = r.user, ![r.tok] = old]
    /\ GenerateAccessToken(r.user, r.role)
    /\ Step(p, Idle)
    /\ UNCHANGED <<users, verify, reset, excused>>

\* POST /auth/logout: one statement; an error of it is ignored.
LogoutUser(t) ==
    /\ refresh[t] # NoUser
    /\ refresh' = [refresh EXCEPT ![t] = NoUser]
    /\ UNCHANGED <<users, verify, reset, access, req, excused>>

-----------------------------------------------------------------------------
(* Passwords and profile. *)

ForgotUnknown(u) ==              \* mutant: the error of the lookup is not looked at
    /\ \E t \in ResetTokens : FreshReset(t) /\ reset' = [reset EXCEPT ![t] = u]
    /\ UNCHANGED <<users, verify, refresh, access, req, excused>>

\* POST /auth/forgot-password: an unknown address is answered alike.  That the
\* row exists, which never changes back, is all the lookup decides.
ForgotPassword(u) ==
    /\ Exists(u)
    /\ \E t \in ResetTokens : FreshReset(t) /\ reset' = [reset EXCEPT ![t] = u]
    /\ UNCHANGED <<users, verify, refresh, access, req, excused>>

\* POST /auth/reset-password: the token is looked up ...
ResetPassword(p, t) ==
    /\ reset[t] # NoUser
    /\ Begin(p, [pc |-> "reset", user |-> reset[t], tok |-> t])
    /\ UNCHANGED <<users, tokenVars, excused>>

\* ... the row read and the hash replaced in the copy.
ResetRead(p) ==
    /\ req[p].pc = "reset"
    /\ Step(p, [pc |-> "write", user |-> req[p].user, tok |-> req[p].tok,
                row |-> FindUser(req[p].user), then |-> "delReset"])
    /\ UNCHANGED <<users, tokenVars, excused>>

DeleteResetToken(p) ==
    /\ req[p].pc = "delReset"
    /\ reset' = [reset EXCEPT ![req[p].tok] = NoUser]
    /\ Step(p, Idle)
    /\ UNCHANGED <<users, verify, refresh, access, excused>>

\* PUT /auth/me: the name changes in the copy, the whole row will be written.
UpdateProfile(p, u) ==
    /\ Authenticated(u) /\ Exists(u)
    /\ Modify(p, u, FindUser(u), "answer")
    /\ UNCHANGED <<users, tokenVars, excused>>

\* PUT /auth/me/password: likewise the hash, if the copy's is that of the
\* password the caller gives.
ChangePassword(p, u) ==
    /\ Authenticated(u) /\ Exists(u)
    /\ Modify(p, u, FindUser(u), "answer")
    /\ UNCHANGED <<users, tokenVars, excused>>

-----------------------------------------------------------------------------
(* Moderation of users, by some administrator. *)

\* PATCH /admin/users/:id/ban: an admin, as read, is not banned.
BanUser(p, u) ==
    /\ Admins # {} /\ Exists(u) /\ FindUser(u).role # "admin"
    /\ Modify(p, u, [FindUser(u) EXCEPT !.active = FALSE], "answer")
    /\ UNCHANGED <<users, tokenVars, excused>>

\* PATCH /admin/users/:id/unban.
UnbanUser(p, u) ==
    /\ Admins # {} /\ Exists(u)
    /\ Modify(p, u, [FindUser(u) EXCEPT !.active = TRUE], "answer")
    /\ UNCHANGED <<users, tokenVars, excused>>

\* PATCH /admin/users/:id/role: not one's own.
ChangeUserRole(p, u, role) ==
    /\ Admins \ {u} # {} /\ Exists(u)
    /\ Modify(p, u, [FindUser(u) EXCEPT !.role = role], "answer")
    /\ UNCHANGED <<users, tokenVars, excused>>

\* The repository's Update: the copy replaces the row.  A stale one may undo a
\* verification whose token is gone.  What a moderation then adds to the audit
\* log nothing reads.
WriteUser(p) ==
    LET r == req[p]  u == r.user IN
    /\ r.pc = "write"
    /\ UpdateUser(u, r.row)
    /\ Step(p, CASE r.then = "answer" -> Idle
                 [] r.then = "delReset" -> [pc |-> "delReset", user |-> u, tok |-> r.tok]
                 [] r.then = "delVerify" -> [pc |-> "delVerify", user |-> u])
    /\ excused' = IF r.row.verified THEN excused \ {u}
                  ELSE IF users[u].verified THEN excused \cup {u} ELSE excused
    /\ UNCHANGED tokenVars

-----------------------------------------------------------------------------
(* Failures and time. *)

\* A statement fails or the process stops: what was written stays written.
Abort(p) ==
    /\ req[p] # Idle
    /\ Step(p, Idle)
    /\ excused' = IF req[p].pc = "storeVerify" THEN excused \cup {req[p].user} ELSE excused
    /\ UNCHANGED <<users, tokenVars>>

ExpireVerification(u) ==
    /\ u \in verify
    /\ verify' = verify \ {u}
    /\ excused' = IF users[u].verified THEN excused ELSE excused \cup {u}
    /\ UNCHANGED <<users, reset, refresh, access, req>>

ExpireReset(t) ==
    /\ reset[t] # NoUser
    /\ reset' = [reset EXCEPT ![t] = NoUser]
    /\ UNCHANGED <<users, verify, refresh, access, req, excused>>

ExpireRefresh(t) ==
    /\ refresh[t] # NoUser
    /\ refresh' = [refresh EXCEPT ![t] = NoUser]
    /\ UNCHANGED <<users, verify, reset, access, req, excused>>

\* Fifteen minutes pass for the access tokens of u that claim `role'.
ExpireAccess(u, role) ==
    /\ role \in access[u]
    /\ access' = [access EXCEPT ![u] = @ \ {role}]
    /\ UNCHANGED <<users, verify, reset, refresh, req, excused>>

-----------------------------------------------------------------------------
(* The handlers: any account, token and value the caller may name. *)

Register(p) == \E u \in Users : RegisterUser(p, u)
HandleVerifyEmail(p) == \E u \in Users : VerifyEmail(p, u)
Login(p) == \E u \in Users : LoginUser(p, u)
HandleRefreshToken(p) == \E t \in RefreshTokens : RefreshToken(p, t)
Logout == \E t \in RefreshTokens : LogoutUser(t)
HandleForgotPassword == \E u \in Users : ForgotPassword(u)
HandleResetPassword(p) == \E t \in ResetTokens : ResetPassword(p, t)
HandleUpdateProfile(p) == \E u \in Users : UpdateProfile(p, u)
HandleChangePassword(p) == \E u \in Users : ChangePassword(p, u)
HandleBanUser(p) == \E u \in Users : BanUser(p, u)
HandleUnbanUser(p) == \E u \in Users : UnbanUser(p, u)
HandleChangeUserRole(p) == \E u \in Users, role \in Role : ChangeUserRole(p, u, role)

\* The routes of /auth and of /admin/users that take more than one statement.
Start(p) ==
    \/ Register(p) \/ HandleVerifyEmail(p) \/ Login(p) \/ HandleRefreshToken(p)
    \/ HandleResetPassword(p) \/ HandleUpdateProfile(p) \/ HandleChangePassword(p)
    \/ HandleBanUser(p) \/ HandleUnbanUser(p) \/ HandleChangeUserRole(p)

\* The next statement of a request.
Continue(p) ==
    \/ StoreVerificationToken(p) \/ VerifyRead(p) \/ DeleteVerificationToken(p)
    \/ StoreRefreshToken(p) \/ RefreshRead(p) \/ Rotate(p)
    \/ ResetRead(p) \/ DeleteResetToken(p)
    \/ WriteUser(p)

Expire ==
    \/ \E u \in Users : ExpireVerification(u) \/ \E role \in Role : ExpireAccess(u, role)
    \/ \E t \in ResetTokens : ExpireReset(t)
    \/ \E t \in RefreshTokens : ExpireRefresh(t)

Next ==
    \/ \E p \in Procs : Start(p) \/ Continue(p) \/ Abort(p)
    \/ Logout \/ HandleForgotPassword \/ Expire

Spec == Init /\ [][Next]_vars

\* Requests come to an end and access tokens expire.
FairSpec ==
    /\ Spec
    /\ \A p \in Procs : WF_vars(Abort(p) \/ Continue(p))
    /\ \A u \in Users, role \in Role : WF_vars(ExpireAccess(u, role))

-----------------------------------------------------------------------------
(* Properties. *)

\* Every variable has its type, and whatever names an account, a token or a
\* request under way, names one that has a row: users are never deleted, so no
\* lookup after the first of a request comes back empty.
TypeOK ==
    /\ users \in [Users -> Row \cup {NoUser}]
    /\ verify \subseteq Users
    /\ reset \in [ResetTokens -> Users \cup {NoUser}]
    /\ refresh \in [RefreshTokens -> Users \cup {NoUser}]
    /\ access \in [Users -> SUBSET Role]
    /\ req \in [Procs -> Request]
    /\ excused \subseteq Users
    /\ \A u \in Users : ~Exists(u) =>
          /\ u \notin verify /\ access[u] = {}
          /\ \A t \in ResetTokens : reset[t] # u
          /\ \A t \in RefreshTokens : refresh[t] # u
          /\ \A p \in Procs : req[p] # Idle => req[p].user # u

\* An account that is not verified can still become so: its token is in Redis,
\* or its registration is about to put it there, unless the registration was
\* cut off, the token expired or a stale copy undid a verification (there is
\* no way to ask for another token).  In particular a verification that fails
\* half-way can be repeated.
Verifiable ==
    \A u \in Users : Exists(u) /\ ~users[u].verified =>
        \/ u \in verify \cup excused
        \/ \E p \in Procs : req[p].pc = "storeVerify" /\ req[p].user = u

\* The pending writes of u, all of them made from copies read earlier.
Writers(u) == {p \in Procs : req[p].pc = "write" /\ req[p].user = u}

\* No pending write would change field f of u.
Agrees(u, f) == Exists(u) /\ \A p \in Writers(u) : req[p].row[f] = users[u][f]

\* An operation whose purpose is to change f of u reads the row.
Means(u, f) ==
    \E p \in Procs :
        CASE f = "verified" -> req[p].pc = "verify" /\ req[p].user = u /\ VerifyRead(p)
          [] f = "active" -> BanUser(p, u) \/ UnbanUser(p, u)
          [] f = "role" -> \E role \in Role : ChangeUserRole(p, u, role)

\* Although every change writes the whole row, a field on which all pending
\* writes agree with the row changes, now or through a later write, only after
\* an operation meant to change that field begins: a profile update, a ban or
\* a reset loses nothing of the others unless they overlap.
NoCollateralChange ==
    [][\A u \in Users, f \in Fields : Agrees(u, f) =>
          (Agrees(u, f)' /\ users'[u][f] = users[u][f]) \/ Means(u, f)]_vars

\* A banned user without a session: no token, no request that will give one,
\* and no pending write that would lift the ban.
LockedOut(u) ==
    /\ Exists(u) /\ ~users[u].active /\ access[u] = {}
    /\ \A t \in RefreshTokens : refresh[t] # u
    /\ \A p \in Procs : req[p] # Idle /\ req[p].user = u =>
          /\ req[p].pc \notin {"login", "refresh", "rotate"}
          /\ req[p].pc = "write" => ~req[p].row.active

\* A banned user is out once the sessions that were open have ended: neither a
\* login, a password reset, a verification nor a role change lets the user in
\* again; only an unban does.  (While a session is open a ban does not end it,
\* RefreshToken does not look at is_active.)
BanHolds ==
    [][\A u \in Users : LockedOut(u) =>
          LockedOut(u)' \/ \E p \in Procs : UnbanUser(p, u)]_vars

\* A user who stays without the admin role eventually has no token that claims
\* it, however the sessions go on being refreshed: a refresh takes the role of
\* the row, not of the token.
DemotionSettles ==
    \A u \in Users : <>[](Exists(u) /\ users[u].role = "user") =>
                     <>[]("admin" \notin access[u])
=============================================================================
