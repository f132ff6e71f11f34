--------------------------- MODULE AccountsProofs ---------------------------
(***************************************************************************)
(* Proofs about Accounts, for any number of accounts, tokens and requests. *)
(***************************************************************************)
EXTENDS Accounts, TLAPS

\* What a request holds where it is.
LEMMA Holds ==
    ASSUME NEW r \in Request
    PROVE  /\ r # Idle <=> r.pc # "idle"
           /\ r # Idle => r.user \in Users
           /\ r.pc = "write" => r.row \in Row /\ r.then \in {"answer", "delVerify", "delReset"}
           /\ r.pc = "write" /\ r.then = "delReset" => r.tok \in ResetTokens
           /\ r.pc \in {"reset", "delReset"} => r.tok \in ResetTokens
           /\ r.pc \in {"refresh", "rotate"} => r.tok \in RefreshTokens
           /\ r.pc \in {"login", "rotate"} => r.role \in Role
BY DEF Request, Idle

\* The account of a request under way has a row.
LEMMA HasRow ==
    ASSUME TypeOK, NEW p \in Procs, req[p] # Idle
    PROVE  /\ req[p] \in Request /\ req[p].user \in Users
           /\ Exists(req[p].user) /\ users[req[p].user] \in Row
BY Holds DEF TypeOK, Exists

\* A request that only looks something up and goes on with what it found, for
\* an account that has a row, keeps everything well typed.
LEMMA ReadType ==
    ASSUME TypeOK, NEW p \in Procs, NEW r \in Request,
           r # Idle => Exists(r.user), Step(p, r),
           UNCHANGED <<users, tokenVars>>, excused' \subseteq Users
    PROVE  TypeOK'
<1>1. req' \in [Procs -> Request]
  BY DEF TypeOK, Step
<1>2. \A q \in Procs : req'[q] = IF q = p THEN r ELSE req[q]
  BY DEF TypeOK, Step
<1> QED
  BY <1>1, <1>2 DEF TypeOK, tokenVars, Exists

\* A request that copies the row of u, to write `row' back.
LEMMA ModifyType ==
    ASSUME TypeOK, NEW p \in Procs, NEW u \in Users, Exists(u), NEW row \in Row,
           Modify(p, u, row, "answer"), UNCHANGED <<users, tokenVars, excused>>
    PROVE  TypeOK'
<1> DEFINE r == [pc |-> "write", user |-> u, row |-> row, then |-> "answer"]
<1>1. r \in Request /\ r.user = u
  BY DEF Request
<1>2. Step(p, r)
  BY DEF Modify, Begin, Step
<1> HIDE DEF r
<1> QED
  BY <1>1, <1>2, ReadType DEF TypeOK

\* The row of u, while it exists.
LEMMA FoundRow ==
    ASSUME TypeOK, NEW u \in Users, Exists(u)
    PROVE  /\ FindUser(u) \in Row
           /\ FindUser(u).role \in Role
           /\ \A b \in BOOLEAN : /\ [FindUser(u) EXCEPT !.active = b] \in Row
                                 /\ [FindUser(u) EXCEPT !.verified = b] \in Row
           /\ \A o \in Role : [FindUser(u) EXCEPT !.role = o] \in Row
BY DEF TypeOK, Exists, FindUser, Row

\* Starting a request keeps everything well typed.
LEMMA StartType ==
    ASSUME TypeOK, NEW p \in Procs, Start(p)
    PROVE  TypeOK'
<1>1. ASSUME NEW u \in Users, RegisterUser(p, u) PROVE TypeOK'
  <2> DEFINE r == [pc |-> "storeVerify", user |-> u]
  <2>1. r \in Request /\ r.user = u /\ r # Idle
    BY DEF Request, Idle
  <2>2. req' = [req EXCEPT ![p] = r]
    BY <1>1 DEF RegisterUser, Begin
  <2> HIDE DEF r
  <2>3. req' \in [Procs -> Request] /\ \A q \in Procs : q # p => req'[q] = req[q]
    BY <2>1, <2>2 DEF TypeOK
  <2>4. NewUser \in Row
    BY DEF NewUser, Row, Role
  <2>5. users' = [users EXCEPT ![u] = NewUser]
    BY <1>1 DEF RegisterUser, CreateUser
  <2>6. users' \in [Users -> Row \cup {NoUser}] /\ users'[u] # NoUser
    BY <2>4, <2>5, UsersAssumption DEF TypeOK
  <2>7. \A v \in Users : v # u => users'[v] = users[v]
    BY <2>5 DEF TypeOK
  <2>8. req'[p].user = u
    BY <2>1, <2>2 DEF TypeOK
  <2> QED
    BY <1>1, <2>3, <2>6, <2>7, <2>8 DEF TypeOK, RegisterUser, tokenVars, Exists
<1>2. ASSUME NEW u \in Users, VerifyEmail(p, u) PROVE TypeOK'
  <2> DEFINE r == [pc |-> "verify", user |-> u]
  <2>1. r \in Request /\ r.user = u /\ Exists(u)
    BY <1>2 DEF Request, VerifyEmail, TypeOK
  <2>2. Step(p, r)
    BY <1>2 DEF VerifyEmail, Begin, Step
  <2> HIDE DEF r
  <2> QED
    BY <1>2, <2>1, <2>2, ReadType DEF VerifyEmail, TypeOK
<1>3. ASSUME NEW u \in Users, LoginUser(p, u) PROVE TypeOK'
  <2> DEFINE r == [pc |-> "login", user |-> u, role |-> FindUser(u).role]
  <2>1. r \in Request /\ r.user = u /\ Exists(u)
    BY <1>3, FoundRow DEF Request, LoginUser
  <2>2. Step(p, r)
    BY <1>3 DEF LoginUser, Begin, Step
  <2> HIDE DEF r
  <2> QED
    BY <1>3, <2>1, <2>2, ReadType DEF LoginUser, TypeOK
<1>4. ASSUME NEW t \in RefreshTokens, RefreshToken(p, t) PROVE TypeOK'
  <2> DEFINE r == [pc |-> "refresh", user |-> refresh[t], tok |-> t]
  <2>1. r \in Request /\ r.user = refresh[t] /\ Exists(refresh[t])
    BY <1>4 DEF Request, RefreshToken, TypeOK
  <2>2. Step(p, r)
    BY <1>4 DEF RefreshToken, Begin, Step
  <2> HIDE DEF r
  <2> QED
    BY <1>4, <2>1, <2>2, ReadType DEF RefreshToken, TypeOK
<1>5. ASSUME NEW t \in ResetTokens, ResetPassword(p, t) PROVE TypeOK'
  <2> DEFINE r == [pc |-> "reset", user |-> reset[t], tok |-> t]
  <2>1. r \in Request /\ r.user = reset[t] /\ Exists(reset[t])
    BY <1>5 DEF Request, ResetPassword, TypeOK
  <2>2. Step(p, r)
    BY <1>5 DEF ResetPassword, Begin, Step
  <2> HIDE DEF r
  <2> QED
    BY <1>5, <2>1, <2>2, ReadType DEF ResetPassword, TypeOK
<1>6. ASSUME NEW u \in Users, UpdateProfile(p, u) PROVE TypeOK'
  BY <1>6, ModifyType, FoundRow DEF UpdateProfile
<1>7. ASSUME NEW u \in Users, ChangePassword(p, u) PROVE TypeOK'
  BY <1>7, ModifyType, FoundRow DEF ChangePassword
<1>8. ASSUME NEW u \in Users, BanUser(p, u) PROVE TypeOK'
  BY <1>8, ModifyType, FoundRow DEF BanUser
<1>9. ASSUME NEW u \in Users, UnbanUser(p, u) PROVE TypeOK'
  BY <1>9, ModifyType, FoundRow DEF UnbanUser
<1>10. ASSUME NEW u \in Users, NEW role \in Role, ChangeUserRole(p, u, role) PROVE TypeOK'
  BY <1>10, ModifyType, FoundRow DEF ChangeUserRole
<1> QED
  BY <1>1, <1>2, <1>3, <1>4, <1>5, <1>6, <1>7, <1>8, <1>9, <1>10
  DEF Start, Register, HandleVerifyEmail, Login, HandleRefreshToken,
      HandleResetPassword, HandleUpdateProfile, HandleChangePassword,
      HandleBanUser, HandleUnbanUser, HandleChangeUserRole

\* The next statement of a request keeps everything well typed.
LEMMA ContinueType ==
    ASSUME TypeOK, NEW p \in Procs, Continue(p)
    PROVE  TypeOK'
<1> USE DEF Idle
<1>0. /\ req[p] # Idle /\ req[p] \in Request /\ req[p].user \in Users
      /\ Exists(req[p].user) /\ users[req[p].user] \in Row
  BY HasRow DEF Continue, StoreVerificationToken, VerifyRead, DeleteVerificationToken,
     StoreRefreshToken, RefreshRead, Rotate, ResetRead, DeleteResetToken, WriteUser
<1>1. ASSUME StoreVerificationToken(p) PROVE TypeOK'
  BY <1>0, <1>1 DEF TypeOK, StoreVerificationToken, Step, Request, Exists
<1>2. ASSUME VerifyRead(p) PROVE TypeOK'
  <2> DEFINE u == req[p].user
             row == FindUser(u)
             r == IF row.verified THEN [pc |-> "delVerify", user |-> u]
                  ELSE [pc |-> "write", user |-> u, then |-> "delVerify",
                        row |-> [row EXCEPT !.verified = TRUE]]
  <2>1. r \in Request /\ r.user = u
    BY <1>0, FoundRow DEF Request
  <2>2. Step(p, r)
    BY <1>2 DEF VerifyRead
  <2> HIDE DEF r
  <2> QED
    BY <1>0, <1>2, <2>1, <2>2, ReadType DEF VerifyRead, TypeOK
<1>3. ASSUME DeleteVerificationToken(p) PROVE TypeOK'
  BY <1>0, <1>3 DEF TypeOK, DeleteVerificationToken, Step, Request, Exists
<1>4. ASSUME StoreRefreshToken(p) PROVE TypeOK'
  <2>1. req[p].role \in Role
    BY <1>0, <1>4, Holds DEF StoreRefreshToken
  <2>2. PICK t \in RefreshTokens : refresh' = [refresh EXCEPT ![t] = req[p].user]
    BY <1>4 DEF StoreRefreshToken
  <2> QED
    BY <1>0, <1>4, <2>1, <2>2
    DEF TypeOK, StoreRefreshToken, GenerateAccessToken, Step, Request, Exists
<1>5. ASSUME RefreshRead(p) PROVE TypeOK'
  <2> DEFINE r == [pc |-> "rotate", user |-> req[p].user, tok |-> req[p].tok,
                   role |-> FindUser(req[p].user).role]
  <2>1. r \in Request /\ r.user = req[p].user
    BY <1>0, <1>5, Holds, FoundRow DEF Request, RefreshRead
  <2>2. Step(p, r)
    BY <1>5 DEF RefreshRead
  <2> HIDE DEF r
  <2> QED
    BY <1>0, <1>5, <2>1, <2>2, ReadType DEF RefreshRead, TypeOK
<1>6. ASSUME Rotate(p) PROVE TypeOK'
  <2>1. req[p].role \in Role /\ req[p].tok \in RefreshTokens
    BY <1>0, <1>6, Holds DEF Rotate
  <2>2. PICK t \in RefreshTokens, old \in {refresh[req[p].tok], NoUser} :
          refresh' = [refresh EXCEPT ![t] = req[p].user, ![req[p].tok] = old]
    BY <1>6 DEF Rotate
  <2>3. /\ refresh' \in [RefreshTokens -> Users \cup {NoUser}]
        /\ \A s \in RefreshTokens : refresh'[s] \in {refresh[s], NoUser, req[p].user}
    BY <1>0, <2>1, <2>2 DEF TypeOK
  <2> QED
    BY <1>0, <1>6, <2>1, <2>3, UsersAssumption
    DEF TypeOK, Rotate, GenerateAccessToken, Step, Request, Exists
<1>7. ASSUME ResetRead(p) PROVE TypeOK'
  <2> DEFINE r == [pc |-> "write", user |-> req[p].user, tok |-> req[p].tok,
                   row |-> FindUser(req[p].user), then |-> "delReset"]
  <2>1. r \in Request /\ r.user = req[p].user
    BY <1>0, <1>7, Holds, FoundRow DEF Request, ResetRead
  <2>2. Step(p, r)
    BY <1>7 DEF ResetRead
  <2> HIDE DEF r
  <2> QED
    BY <1>0, <1>7, <2>1, <2>2, ReadType DEF ResetRead, TypeOK
<1>8. ASSUME DeleteResetToken(p) PROVE TypeOK'
  <2>1. req[p].tok \in ResetTokens
    BY <1>0, <1>8, Holds DEF DeleteResetToken
  <2> QED
    BY <1>0, <1>8, <2>1, UsersAssumption DEF TypeOK, DeleteResetToken, Step, Request, Exists
<1>9. ASSUME WriteUser(p) PROVE TypeOK'
  <2> DEFINE u == req[p].user
             r == CASE req[p].then = "answer" -> Idle
                    [] req[p].then = "delReset" ->
                          [pc |-> "delReset", user |-> u, tok |-> req[p].tok]
                    [] req[p].then = "delVerify" -> [pc |-> "delVerify", user |-> u]
  <2>1. /\ req[p].row \in Row
        /\ req[p].then \in {"answer", "delVerify", "delReset"}
        /\ req[p].then = "delReset" => req[p].tok \in ResetTokens
    BY <1>0, <1>9, Holds DEF WriteUser
  <2>2. r \in Request /\ (r # Idle => r.user = u)
    BY <1>0, <2>1 DEF Request
  <2>3. req' = [req EXCEPT ![p] = r]
    BY <1>9 DEF WriteUser, Step
  <2> HIDE DEF r
  <2>4. req' \in [Procs -> Request] /\ \A q \in Procs : req'[q] = IF q = p THEN r ELSE req[q]
    BY <2>2, <2>3 DEF TypeOK
  <2>5. users' = [users EXCEPT ![u] = req[p].row]
    BY <1>9 DEF WriteUser, UpdateUser
  <2>6. /\ users' \in [Users -> Row \cup {NoUser}]
        /\ \A v \in Users : users[v] # NoUser => users'[v] # NoUser
    BY <1>0, <2>1, <2>5, UsersAssumption DEF TypeOK
  <2>7. excused' \subseteq Users
    BY <1>0, <1>9 DEF WriteUser, TypeOK
  <2>8. /\ UNCHANGED tokenVars
    BY <1>9 DEF WriteUser
  <2> QED
    BY <1>0, <2>2, <2>4, <2>6, <2>7, <2>8 DEF TypeOK, Exists, tokenVars
<1> QED
  BY <1>1, <1>2, <1>3, <1>4, <1>5, <1>6, <1>7, <1>8, <1>9 DEF Continue

\* Every step keeps everything well typed, and what is named has a row.
LEMMA TypeStep == TypeOK /\ [Next]_vars => TypeOK'
<1> SUFFICES ASSUME TypeOK, [Next]_vars PROVE TypeOK'
  OBVIOUS
<1>1. ASSUME NEW p \in Procs, Abort(p) PROVE TypeOK'
  <2>1. Idle \in Request
    BY DEF Request
  <2>2. excused' \subseteq Users
    BY <1>1, HasRow DEF Abort, TypeOK
  <2> QED
    BY <1>1, <2>1, <2>2, ReadType DEF Abort
<1>2. ASSUME NEW t \in RefreshTokens, LogoutUser(t) PROVE TypeOK'
  BY <1>2, UsersAssumption DEF TypeOK, LogoutUser, Exists
<1>3. ASSUME NEW u \in Users, ForgotPassword(u) PROVE TypeOK'
  BY <1>3 DEF TypeOK, ForgotPassword, Exists
<1>4. ASSUME NEW u \in Users, ExpireVerification(u) PROVE TypeOK'
  BY <1>4 DEF TypeOK, ExpireVerification, Exists
<1>5. ASSUME NEW u \in Users, NEW role \in Role, ExpireAccess(u, role) PROVE TypeOK'
  BY <1>5 DEF TypeOK, ExpireAccess, Exists
<1>6. ASSUME NEW t \in ResetTokens, ExpireReset(t) PROVE TypeOK'
  BY <1>6, UsersAssumption DEF TypeOK, ExpireReset, Exists
<1>7. ASSUME NEW t \in RefreshTokens, ExpireRefresh(t) PROVE TypeOK'
  BY <1>7, UsersAssumption DEF TypeOK, ExpireRefresh, Exists
<1>8. CASE UNCHANGED vars
  BY <1>8 DEF vars, TypeOK, Exists
<1> QED
  BY <1>1, <1>2, <1>3, <1>4, <1>5, <1>6, <1>7, <1>8, StartType, ContinueType
  DEF Next, Logout, HandleForgotPassword, Expire

\* Every variable keeps its type, and what a token, a claim or a request under
\* way names has a row: no lookup after the first of a request comes back empty.
THEOREM TypeCorrect == Spec => []TypeOK
<1>1. Init => TypeOK
  BY UsersAssumption DEF Init, TypeOK, Idle, Request, Exists
<1> QED
  BY <1>1, TypeStep, PTL DEF Spec

-----------------------------------------------------------------------------
(* Verification. *)

\* The half-way point of a verification: the token is about to be deleted only
\* for an account that is verified, or whose verification a stale copy undid.
SpentForSomething ==
    \A p \in Procs : req[p].pc = "delVerify" =>
        users[req[p].user].verified \/ req[p].user \in excused

\* A write that deletes the token next is one that verifies.
WritesVerified ==
    \A p \in Procs : req[p].pc = "write" /\ req[p].then = "delVerify" => req[p].row.verified

\* Verifiable is not inductive: whether a deletion may take the last token away
\* depends on what the requests that delete it did before.
VerifyInv == SpentForSomething /\ WritesVerified /\ Verifiable

\* A step of a request that leaves the rows and the verification tokens alone.
LEMMA ReadVerify ==
    ASSUME TypeOK, VerifyInv, NEW p \in Procs, req[p].pc # "storeVerify",
           NEW r \in Request, Step(p, r), UNCHANGED <<users, verify, excused>>,
           r.pc = "delVerify" => users[r.user].verified,
           r.pc = "write" /\ r.then = "delVerify" => r.row.verified
    PROVE  VerifyInv'
<1>1. \A q \in Procs : req'[q] = IF q = p THEN r ELSE req[q]
  BY DEF TypeOK, Step
<1>2. SpentForSomething'
  BY <1>1 DEF VerifyInv, SpentForSomething
<1>3. WritesVerified'
  BY <1>1 DEF VerifyInv, WritesVerified
<1>4. Verifiable'
  BY <1>1 DEF VerifyInv, Verifiable, Exists
<1> QED
  BY <1>2, <1>3, <1>4 DEF VerifyInv

\* Copying a row to answer after it is written back.
LEMMA ModifyVerify ==
    ASSUME TypeOK, VerifyInv, NEW p \in Procs, NEW u \in Users, NEW row \in Row,
           Modify(p, u, row, "answer"), UNCHANGED <<users, tokenVars, excused>>
    PROVE  VerifyInv'
<1> DEFINE r == [pc |-> "write", user |-> u, row |-> row, then |-> "answer"]
<1>1. r \in Request /\ r.pc = "write" /\ r.then = "answer"
  BY DEF Request
<1>2. Step(p, r) /\ req[p].pc = "idle"
  BY DEF Modify, Begin, Step, Idle
<1> HIDE DEF r
<1> QED
  BY <1>1, <1>2, ReadVerify DEF tokenVars

\* Starting a request keeps every account verifiable.
LEMMA StartVerify ==
    ASSUME TypeOK, VerifyInv, NEW p \in Procs, Start(p)
    PROVE  VerifyInv'
<1> USE DEF tokenVars
<1>1. ASSUME NEW u \in Users, RegisterUser(p, u) PROVE VerifyInv'
  <2> DEFINE r == [pc |-> "storeVerify", user |-> u]
  <2>1. req' = [req EXCEPT ![p] = r] /\ req[p].pc = "idle"
    BY <1>1 DEF RegisterUser, Begin, Idle
  <2>2. \A q \in Procs : req'[q] = IF q = p THEN r ELSE req[q]
    BY <2>1 DEF TypeOK
  <2>3. r.pc = "storeVerify" /\ r.user = u
    OBVIOUS
  <2> HIDE DEF r
  <2>4. \A v \in Users : v # u => users'[v] = users[v]
    BY <1>1 DEF RegisterUser, CreateUser, TypeOK
  <2>5. \A q \in Procs : req[q].pc = "delVerify" => req[q].user \in Users /\ req[q].user # u
    BY <1>1, HasRow DEF RegisterUser, CreateUser, Idle
  <2>6. SpentForSomething'
    BY <1>1, <2>2, <2>3, <2>4, <2>5 DEF VerifyInv, SpentForSomething, RegisterUser
  <2>7. WritesVerified'
    BY <2>2, <2>3 DEF VerifyInv, WritesVerified
  <2>8. Verifiable'
    BY <1>1, <2>1, <2>2, <2>3, <2>4 DEF VerifyInv, Verifiable, Exists, RegisterUser
  <2> QED
    BY <2>6, <2>7, <2>8 DEF VerifyInv
<1>2. ASSUME NEW u \in Users, VerifyEmail(p, u) PROVE VerifyInv'
  <2> DEFINE r == [pc |-> "verify", user |-> u]
  <2>1. r \in Request /\ r.pc = "verify"
    BY <1>2 DEF Request
  <2>2. Step(p, r) /\ req[p].pc = "idle"
    BY <1>2 DEF VerifyEmail, Begin, Step, Idle
  <2> HIDE DEF r
  <2> QED
    BY <1>2, <2>1, <2>2, ReadVerify DEF VerifyEmail
<1>3. ASSUME NEW u \in Users, LoginUser(p, u) PROVE VerifyInv'
  <2> DEFINE r == [pc |-> "login", user |-> u, role |-> FindUser(u).role]
  <2>1. r \in Request /\ r.pc = "login"
    BY <1>3, FoundRow DEF Request, LoginUser
  <2>2. Step(p, r) /\ req[p].pc = "idle"
    BY <1>3 DEF LoginUser, Begin, Step, Idle
  <2> HIDE DEF r
  <2> QED
    BY <1>3, <2>1, <2>2, ReadVerify DEF LoginUser
<1>4. ASSUME NEW t \in RefreshTokens, RefreshToken(p, t) PROVE VerifyInv'
  <2> DEFINE r == [pc |-> "refresh", user |-> refresh[t], tok |-> t]
  <2>1. r \in Request /\ r.pc = "refresh"
    BY <1>4 DEF Request, RefreshToken, TypeOK
  <2>2. Step(p, r) /\ req[p].pc = "idle"
    BY <1>4 DEF RefreshToken, Begin, Step, Idle
  <2> HIDE DEF r
  <2> QED
    BY <1>4, <2>1, <2>2, ReadVerify DEF RefreshToken
<1>5. ASSUME NEW t \in ResetTokens, ResetPassword(p, t) PROVE VerifyInv'
  <2> DEFINE r == [pc |-> "reset", user |-> reset[t], tok |-> t]
  <2>1. r \in Request /\ r.pc = "reset"
    BY <1>5 DEF Request, ResetPassword, TypeOK
  <2>2. Step(p, r) /\ req[p].pc = "idle"
    BY <1>5 DEF ResetPassword, Begin, Step, Idle
  <2> HIDE DEF r
  <2> QED
    BY <1>5, <2>1, <2>2, ReadVerify DEF ResetPassword
<1>6. ASSUME NEW u \in Users, UpdateProfile(p, u) PROVE VerifyInv'
  BY <1>6, ModifyVerify, FoundRow DEF UpdateProfile
<1>7. ASSUME NEW u \in Users, ChangePassword(p, u) PROVE VerifyInv'
  BY <1>7, ModifyVerify, FoundRow DEF ChangePassword
<1>8. ASSUME NEW u \in Users, BanUser(p, u) PROVE VerifyInv'
  BY <1>8, ModifyVerify, FoundRow DEF BanUser
<1>9. ASSUME NEW u \in Users, UnbanUser(p, u) PROVE VerifyInv'
  BY <1>9, ModifyVerify, FoundRow DEF UnbanUser
<1>10. ASSUME NEW u \in Users, NEW role \in Role, ChangeUserRole(p, u, role) PROVE VerifyInv'
  BY <1>10, ModifyVerify, FoundRow DEF ChangeUserRole
<1> QED
  BY <1>1, <1>2, <1>3, <1>4, <1>5, <1>6, <1>7, <1>8, <1>9, <1>10
  DEF Start, Register, HandleVerifyEmail, Login, HandleRefreshToken,
      HandleResetPassword, HandleUpdateProfile, HandleChangePassword,
      HandleBanUser, HandleUnbanUser, HandleChangeUserRole

\* The next statement of a request keeps every account verifiable.
LEMMA ContinueVerify ==
    ASSUME TypeOK, VerifyInv, NEW p \in Procs, Continue(p)
    PROVE  VerifyInv'
<1> USE DEF tokenVars
<1>0. /\ req[p] \in Request /\ req[p].user \in Users
      /\ Exists(req[p].user) /\ users[req[p].user] \in Row
  BY HasRow DEF Continue, StoreVerificationToken, VerifyRead, DeleteVerificationToken,
     StoreRefreshToken, RefreshRead, Rotate, ResetRead, DeleteResetToken, WriteUser, Idle
<1>a. Idle \in Request /\ Idle.pc = "idle"
  BY DEF Request, Idle
<1>1. ASSUME StoreVerificationToken(p) PROVE VerifyInv'
  <2>1. \A q \in Procs : req'[q] = IF q = p THEN Idle ELSE req[q]
    BY <1>1 DEF StoreVerificationToken, Step, TypeOK
  <2> QED
    BY <1>1, <1>a, <2>1 DEF StoreVerificationToken, VerifyInv, SpentForSomething,
       WritesVerified, Verifiable, Exists
<1>2. ASSUME VerifyRead(p) PROVE VerifyInv'
  <2> DEFINE u == req[p].user
             row == FindUser(u)
             r == IF row.verified THEN [pc |-> "delVerify", user |-> u]
                  ELSE [pc |-> "write", user |-> u, then |-> "delVerify",
                        row |-> [row EXCEPT !.verified = TRUE]]
  <2>1. /\ r \in Request
        /\ r.pc = "delVerify" => r.user = u /\ row.verified
        /\ r.pc = "write" => r.row.verified
    BY <1>0, FoundRow DEF Request, FindUser, Row
  <2>2. Step(p, r)
    BY <1>2 DEF VerifyRead
  <2> HIDE DEF r
  <2> QED
    BY <1>0, <1>2, <2>1, <2>2, ReadVerify DEF VerifyRead, FindUser
<1>3. ASSUME DeleteVerificationToken(p) PROVE VerifyInv'
  <2>1. \A q \in Procs : req'[q] = IF q = p THEN Idle ELSE req[q]
    BY <1>3 DEF DeleteVerificationToken, Step, TypeOK
  <2>2. users[req[p].user].verified \/ req[p].user \in excused
    BY <1>3 DEF DeleteVerificationToken, VerifyInv, SpentForSomething
  <2> QED
    BY <1>3, <1>a, <2>1, <2>2 DEF DeleteVerificationToken, VerifyInv, SpentForSomething,
       WritesVerified, Verifiable, Exists
<1>4. ASSUME StoreRefreshToken(p) PROVE VerifyInv'
  BY <1>4, <1>a, ReadVerify DEF StoreRefreshToken
<1>5. ASSUME RefreshRead(p) PROVE VerifyInv'
  <2> DEFINE r == [pc |-> "rotate", user |-> req[p].user, tok |-> req[p].tok,
                   role |-> FindUser(req[p].user).role]
  <2>1. r \in Request /\ r.pc = "rotate"
    BY <1>0, <1>5, Holds, FoundRow DEF Request, RefreshRead
  <2>2. Step(p, r)
    BY <1>5 DEF RefreshRead
  <2> HIDE DEF r
  <2> QED
    BY <1>5, <2>1, <2>2, ReadVerify DEF RefreshRead
<1>6. ASSUME Rotate(p) PROVE VerifyInv'
  BY <1>6, <1>a, ReadVerify DEF Rotate
<1>7. ASSUME ResetRead(p) PROVE VerifyInv'
  <2> DEFINE r == [pc |-> "write", user |-> req[p].user, tok |-> req[p].tok,
                   row |-> FindUser(req[p].user), then |-> "delReset"]
  <2>1. r \in Request /\ r.pc = "write" /\ r.then = "delReset"
    BY <1>0, <1>7, Holds, FoundRow DEF Request, ResetRead
  <2>2. Step(p, r)
    BY <1>7 DEF ResetRead
  <2> HIDE DEF r
  <2> QED
    BY <1>7, <2>1, <2>2, ReadVerify DEF ResetRead
<1>8. ASSUME DeleteResetToken(p) PROVE VerifyInv'
  BY <1>8, <1>a, ReadVerify DEF DeleteResetToken
<1>9. ASSUME WriteUser(p) PROVE VerifyInv'
  <2> DEFINE u == req[p].user
             row == req[p].row
             r == CASE req[p].then = "answer" -> Idle
                    [] req[p].then = "delReset" ->
                          [pc |-> "delReset", user |-> u, tok |-> req[p].tok]
                    [] req[p].then = "delVerify" -> [pc |-> "delVerify", user |-> u]
  <2>1. row \in Row /\ req[p].then \in {"answer", "delVerify", "delReset"}
    BY <1>0, <1>9, Holds DEF WriteUser
  <2>2. /\ r.pc \in {"idle", "delReset", "delVerify"}
        /\ r.pc = "delVerify" => r.user = u /\ row.verified
    <3>1. req[p].then = "delVerify" => row.verified
      BY <1>9 DEF WriteUser, VerifyInv, WritesVerified
    <3>2. CASE req[p].then = "answer"
      BY <3>2 DEF Idle
    <3>3. CASE req[p].then = "delReset"
      BY <3>3
    <3>4. CASE req[p].then = "delVerify"
      <4>1. r = [pc |-> "delVerify", user |-> u]
        BY <3>4
      <4> HIDE DEF r, row
      <4> QED
        BY <3>1, <3>4, <4>1
    <3> QED
      BY <2>1, <3>2, <3>3, <3>4
  <2>3. req' = [req EXCEPT ![p] = r]
    BY <1>9 DEF WriteUser, Step
  <2> HIDE DEF r
  <2>4. \A q \in Procs : req'[q] = IF q = p THEN r ELSE req[q]
    BY <2>3 DEF TypeOK
  <2>5. \A v \in Users : users'[v] = IF v = u THEN row ELSE users[v]
    BY <1>9 DEF WriteUser, UpdateUser, TypeOK
  <2>6. \A q \in Procs : req[q].pc = "delVerify" => req[q].user \in Users
    BY HasRow DEF Idle
  <2>7. /\ \A v \in Users : v # u => (v \in excused' <=> v \in excused)
        /\ ~row.verified /\ (users[u].verified \/ u \in excused) => u \in excused'
    BY <1>9 DEF WriteUser
  <2>8. SpentForSomething'
    <3> SUFFICES ASSUME NEW q \in Procs, req'[q].pc = "delVerify"
                 PROVE  users'[req'[q].user].verified \/ req'[q].user \in excused'
      BY DEF SpentForSomething
    <3>1. CASE q = p
      BY <1>0, <2>2, <2>4, <2>5, <3>1
    <3>2. CASE q # p
      BY <2>4, <2>5, <2>6, <2>7, <3>2 DEF VerifyInv, SpentForSomething
    <3> QED
      BY <3>1, <3>2
  <2>9. WritesVerified'
    BY <2>2, <2>4 DEF VerifyInv, WritesVerified
  <2>10. Verifiable'
    <3> SUFFICES ASSUME NEW v \in Users, Exists(v)', ~users'[v].verified
                 PROVE  \/ v \in verify' \cup excused'
                        \/ \E q \in Procs : req'[q].pc = "storeVerify" /\ req'[q].user = v
      BY DEF Verifiable
    <3>1. CASE users[v].verified
      BY <2>5, <2>7, <3>1
    <3>2. CASE ~users[v].verified
      <4>1. Exists(v)
        BY <1>0, <2>5 DEF Exists
      <4>2. CASE v \in verify \cup excused
        BY <1>9, <2>5, <2>7, <4>2 DEF WriteUser
      <4>3. ASSUME NEW q \in Procs, req[q].pc = "storeVerify" /\ req[q].user = v
            PROVE  \E s \in Procs : req'[s].pc = "storeVerify" /\ req'[s].user = v
        BY <1>9, <2>4, <4>3 DEF WriteUser
      <4> QED
        BY <3>2, <4>1, <4>2, <4>3 DEF VerifyInv, Verifiable
    <3> QED
      BY <3>1, <3>2
  <2> QED
    BY <2>8, <2>9, <2>10 DEF VerifyInv
<1> QED
  BY <1>1, <1>2, <1>3, <1>4, <1>5, <1>6, <1>7, <1>8, <1>9 DEF Continue

\* Every step keeps every account verifiable.
LEMMA VerifyStep == TypeOK /\ VerifyInv /\ [Next]_vars => VerifyInv'
<1> SUFFICES ASSUME TypeOK, VerifyInv, [Next]_vars PROVE VerifyInv'
  OBVIOUS
<1> USE DEF VerifyInv, SpentForSomething, WritesVerified, Verifiable, Exists, tokenVars
<1>1. ASSUME NEW p \in Procs, Abort(p) PROVE VerifyInv'
  <2>1. \A q \in Procs : req'[q] = IF q = p THEN Idle ELSE req[q]
    BY <1>1 DEF Abort, Step, TypeOK
  <2>2. /\ excused \subseteq excused'
        /\ req[p].pc = "storeVerify" => req[p].user \in excused'
    BY <1>1 DEF Abort
  <2> QED
    BY <1>1, <2>1, <2>2 DEF Abort, Idle
<1>2. ASSUME NEW t \in RefreshTokens, LogoutUser(t) PROVE VerifyInv'
  BY <1>2 DEF LogoutUser
<1>3. ASSUME NEW u \in Users, ForgotPassword(u) PROVE VerifyInv'
  BY <1>3 DEF ForgotPassword
<1>4. ASSUME NEW u \in Users, ExpireVerification(u) PROVE VerifyInv'
  BY <1>4 DEF ExpireVerification
<1>5. ASSUME NEW u \in Users, NEW role \in Role, ExpireAccess(u, role) PROVE VerifyInv'
  BY <1>5 DEF ExpireAccess
<1>6. ASSUME NEW t \in ResetTokens, ExpireReset(t) PROVE VerifyInv'
  BY <1>6 DEF ExpireReset
<1>7. ASSUME NEW t \in RefreshTokens, ExpireRefresh(t) PROVE VerifyInv'
  BY <1>7 DEF ExpireRefresh
<1>8. CASE UNCHANGED vars
  BY <1>8 DEF vars
<1> HIDE DEF VerifyInv
<1> QED
  BY <1>1, <1>2, <1>3, <1>4, <1>5, <1>6, <1>7, <1>8, StartVerify, ContinueVerify
  DEF Next, Logout, HandleForgotPassword, Expire

\* An account that is not verified can still become so, however registrations,
\* verifications and whole-row writes overlap and wherever they are cut off.
THEOREM VerificationRepeatable == Spec => []Verifiable
<1>1. Init => VerifyInv
  BY DEF Init, VerifyInv, SpentForSomething, WritesVerified, Verifiable, Idle, Exists
<1>2. VerifyInv => Verifiable
  BY DEF VerifyInv
<1> QED
  BY <1>1, <1>2, TypeCorrect, VerifyStep, PTL DEF Spec

-----------------------------------------------------------------------------
(* Whole-row writes. *)

\* A step of a request that writes no row keeps field f of u agreed on, if a
\* copy it makes of the row of u has that field as it is.
LEMMA ReadAgrees ==
    ASSUME TypeOK, NEW u \in Users, NEW f \in Fields, Agrees(u, f),
           NEW p \in Procs, NEW r \in Request, Step(p, r), users'[u] = users[u],
           r.pc = "write" /\ r.user = u => r.row[f] = users[u][f]
    PROVE  Agrees(u, f)' /\ users'[u][f] = users[u][f]
<1>1. \A q \in Procs : req'[q] = IF q = p THEN r ELSE req[q]
  BY DEF TypeOK, Step
<1> QED
  BY <1>1 DEF Agrees, Writers, Exists

\* The same for an operation that copies the row of v, to write `row' back.
LEMMA ModifyAgrees ==
    ASSUME TypeOK, NEW u \in Users, NEW f \in Fields, Agrees(u, f),
           NEW p \in Procs, NEW v \in Users, NEW row \in Row, Modify(p, v, row, "answer"),
           UNCHANGED users, v = u => row[f] = users[u][f]
    PROVE  Agrees(u, f)' /\ users'[u][f] = users[u][f]
<1> DEFINE r == [pc |-> "write", user |-> v, row |-> row, then |-> "answer"]
<1>1. r \in Request /\ r.user = v /\ r.row = row
  BY DEF Request
<1>2. Step(p, r)
  BY DEF Modify, Begin, Step
<1> HIDE DEF r
<1> QED
  BY <1>1, <1>2, ReadAgrees

\* Changing one field of a copy leaves the other two as they are.
LEMMA OtherFields ==
    ASSUME NEW row \in Row, NEW f \in Fields
    PROVE  /\ \A b \in BOOLEAN : /\ f # "active" => [row EXCEPT !.active = b][f] = row[f]
                                 /\ f # "verified" => [row EXCEPT !.verified = b][f] = row[f]
           /\ \A o \in Role : f # "role" => [row EXCEPT !.role = o][f] = row[f]
BY DEF Row, Fields

\* Starting a request changes no field of u, unless that is its purpose.
LEMMA StartAgrees ==
    ASSUME TypeOK, NEW u \in Users, NEW f \in Fields, Agrees(u, f),
           NEW p \in Procs, Start(p)
    PROVE  (Agrees(u, f)' /\ users'[u][f] = users[u][f]) \/ Means(u, f)
<1> DEFINE Kept == Agrees(u, f)' /\ users'[u][f] = users[u][f]
<1>0. Exists(u) /\ FindUser(u) = users[u] /\ users[u] \in Row
  BY DEF Agrees, FindUser, TypeOK, Exists
<1> HIDE DEF Kept
<1>1. ASSUME NEW v \in Users, RegisterUser(p, v) PROVE Kept
  <2> DEFINE r == [pc |-> "storeVerify", user |-> v]
  <2>1. r \in Request /\ r.pc = "storeVerify"
    BY DEF Request
  <2>2. Step(p, r) /\ users'[u] = users[u]
    BY <1>0, <1>1 DEF RegisterUser, Begin, Step, CreateUser, TypeOK
  <2> HIDE DEF r
  <2> QED
    BY <2>1, <2>2, ReadAgrees DEF Kept
<1>2. ASSUME NEW v \in Users, VerifyEmail(p, v) PROVE Kept
  <2> DEFINE r == [pc |-> "verify", user |-> v]
  <2>1. r \in Request /\ r.pc = "verify"
    BY DEF Request
  <2>2. Step(p, r)
    BY <1>2 DEF VerifyEmail, Begin, Step
  <2> HIDE DEF r
  <2> QED
    BY <1>2, <2>1, <2>2, ReadAgrees DEF Kept, VerifyEmail
<1>3. ASSUME NEW v \in Users, LoginUser(p, v) PROVE Kept
  <2> DEFINE r == [pc |-> "login", user |-> v, role |-> FindUser(v).role]
  <2>1. r \in Request /\ r.pc = "login"
    BY <1>3, FoundRow DEF Request, LoginUser
  <2>2. Step(p, r)
    BY <1>3 DEF LoginUser, Begin, Step
  <2> HIDE DEF r
  <2> QED
    BY <1>3, <2>1, <2>2, ReadAgrees DEF Kept, LoginUser
<1>4. ASSUME NEW t \in RefreshTokens, RefreshToken(p, t) PROVE Kept
  <2> DEFINE r == [pc |-> "refresh", user |-> refresh[t], tok |-> t]
  <2>1. r \in Request /\ r.pc = "refresh"
    BY <1>4 DEF Request, RefreshToken, TypeOK
  <2>2. Step(p, r)
    BY <1>4 DEF RefreshToken, Begin, Step
  <2> HIDE DEF r
  <2> QED
    BY <1>4, <2>1, <2>2, ReadAgrees DEF Kept, RefreshToken
<1>5. ASSUME NEW t \in ResetTokens, ResetPassword(p, t) PROVE Kept
  <2> DEFINE r == [pc |-> "reset", user |-> reset[t], tok |-> t]
  <2>1. r \in Request /\ r.pc = "reset"
    BY <1>5 DEF Request, ResetPassword, TypeOK
  <2>2. Step(p, r)
    BY <1>5 DEF ResetPassword, Begin, Step
  <2> HIDE DEF r
  <2> QED
    BY <1>5, <2>1, <2>2, ReadAgrees DEF Kept, ResetPassword
<1>6. ASSUME NEW v \in Users, UpdateProfile(p, v) PROVE Kept
  BY <1>0, <1>6, ModifyAgrees, FoundRow DEF UpdateProfile, Kept
<1>7. ASSUME NEW v \in Users, ChangePassword(p, v) PROVE Kept
  BY <1>0, <1>7, ModifyAgrees, FoundRow DEF ChangePassword, Kept
<1>8. ASSUME NEW v \in Users, BanUser(p, v) \/ UnbanUser(p, v) PROVE Kept \/ Means(u, f)
  <2>1. CASE v = u /\ f = "active"
    BY <1>8, <2>1 DEF Means
  <2>2. CASE ~(v = u /\ f = "active")
    <3>1. PICK b \in BOOLEAN : /\ Exists(v) /\ UNCHANGED users
                               /\ Modify(p, v, [FindUser(v) EXCEPT !.active = b], "answer")
      BY <1>8 DEF BanUser, UnbanUser
    <3> DEFINE row == [FindUser(v) EXCEPT !.active = b]
    <3>2. row \in Row /\ Modify(p, v, row, "answer")
      BY <3>1, FoundRow
    <3>3. v = u => row[f] = users[u][f]
      <4> SUFFICES ASSUME v = u
                   PROVE  [users[u] EXCEPT !.active = b][f] = users[u][f]
        BY <1>0
      <4> QED
        BY <1>0, <2>2, OtherFields
    <3> HIDE DEF row
    <3> QED
      BY <3>1, <3>2, <3>3, ModifyAgrees DEF Kept
  <2> QED
    BY <2>1, <2>2
<1>9. ASSUME NEW v \in Users, NEW role \in Role, ChangeUserRole(p, v, role)
      PROVE  Kept \/ Means(u, f)
  <2>1. CASE v = u /\ f = "role"
    BY <1>9, <2>1 DEF Means
  <2>2. CASE ~(v = u /\ f = "role")
    <3> DEFINE row == [FindUser(v) EXCEPT !.role = role]
    <3>1. Exists(v) /\ UNCHANGED users /\ Modify(p, v, row, "answer")
      BY <1>9 DEF ChangeUserRole
    <3>2. row \in Row
      BY <3>1, FoundRow
    <3>3. v = u => row[f] = users[u][f]
      BY <1>0, <2>2, OtherFields
    <3> HIDE DEF row
    <3> QED
      BY <3>1, <3>2, <3>3, ModifyAgrees DEF Kept
  <2> QED
    BY <2>1, <2>2
<1> QED
  BY <1>1, <1>2, <1>3, <1>4, <1>5, <1>6, <1>7, <1>8, <1>9
  DEF Kept, Start, Register, HandleVerifyEmail, Login, HandleRefreshToken,
      HandleResetPassword, HandleUpdateProfile, HandleChangePassword,
      HandleBanUser, HandleUnbanUser, HandleChangeUserRole

\* The next statement of a request changes no field of u, unless it reads the
\* row to verify it: a write in particular writes what all of them agree on.
LEMMA ContinueAgrees ==
    ASSUME TypeOK, NEW u \in Users, NEW f \in Fields, Agrees(u, f),
           NEW p \in Procs, Continue(p)
    PROVE  (Agrees(u, f)' /\ users'[u][f] = users[u][f]) \/ Means(u, f)
<1> DEFINE Kept == Agrees(u, f)' /\ users'[u][f] = users[u][f]
<1>0. /\ req[p] \in Request /\ req[p].user \in Users
      /\ Exists(req[p].user) /\ users[req[p].user] \in Row
  BY HasRow DEF Continue, StoreVerificationToken, VerifyRead, DeleteVerificationToken,
     StoreRefreshToken, RefreshRead, Rotate, ResetRead, DeleteResetToken, WriteUser, Idle
<1>a. Exists(u) /\ FindUser(u) = users[u] /\ users[u] \in Row
  BY DEF Agrees, FindUser, TypeOK, Exists
<1>b. Idle \in Request /\ Idle.pc = "idle"
  BY DEF Request, Idle
<1> HIDE DEF Kept
<1>1. ASSUME StoreVerificationToken(p) PROVE Kept
  BY <1>1, <1>b, ReadAgrees DEF StoreVerificationToken, Kept
<1>2. ASSUME VerifyRead(p) PROVE Kept \/ Means(u, f)
  <2>1. CASE req[p].user = u /\ f = "verified"
    BY <1>2, <2>1 DEF Means, VerifyRead
  <2>2. CASE ~(req[p].user = u /\ f = "verified")
    <3> DEFINE v == req[p].user
               row == [FindUser(v) EXCEPT !.verified = TRUE]
               r == IF FindUser(v).verified THEN [pc |-> "delVerify", user |-> v]
                    ELSE [pc |-> "write", user |-> v, then |-> "delVerify", row |-> row]
    <3>1. row \in Row
      BY <1>0, FoundRow
    <3>2. v = u => row[f] = users[u][f]
      <4> SUFFICES ASSUME v = u
                   PROVE  [users[u] EXCEPT !.verified = TRUE][f] = users[u][f]
        BY <1>a
      <4> QED
        BY <1>a, <2>2, OtherFields
    <3>3. Step(p, r)
      BY <1>2 DEF VerifyRead
    <3> HIDE DEF row
    <3>4. r \in Request /\ (r.pc = "write" => r.user = v /\ r.row = row)
      BY <1>0, <3>1 DEF Request
    <3> HIDE DEF r
    <3> QED
      BY <1>2, <3>2, <3>3, <3>4, ReadAgrees DEF Kept, VerifyRead
  <2> QED
    BY <2>1, <2>2
<1>3. ASSUME DeleteVerificationToken(p) PROVE Kept
  BY <1>3, <1>b, ReadAgrees DEF DeleteVerificationToken, Kept
<1>4. ASSUME StoreRefreshToken(p) PROVE Kept
  BY <1>4, <1>b, ReadAgrees DEF StoreRefreshToken, Kept
<1>5. ASSUME RefreshRead(p) PROVE Kept
  <2> DEFINE r == [pc |-> "rotate", user |-> req[p].user, tok |-> req[p].tok,
                   role |-> FindUser(req[p].user).role]
  <2>1. r \in Request /\ r.pc = "rotate"
    BY <1>0, <1>5, Holds, FoundRow DEF Request, RefreshRead
  <2>2. Step(p, r)
    BY <1>5 DEF RefreshRead
  <2> HIDE DEF r
  <2> QED
    BY <1>5, <2>1, <2>2, ReadAgrees DEF RefreshRead, Kept
<1>6. ASSUME Rotate(p) PROVE Kept
  BY <1>6, <1>b, ReadAgrees DEF Rotate, Kept
<1>7. ASSUME ResetRead(p) PROVE Kept
  <2> DEFINE r == [pc |-> "write", user |-> req[p].user, tok |-> req[p].tok,
                   row |-> FindUser(req[p].user), then |-> "delReset"]
  <2>1. r \in Request /\ r.user = req[p].user /\ r.row = FindUser(req[p].user)
    BY <1>0, <1>7, Holds, FoundRow DEF Request, ResetRead
  <2>2. Step(p, r)
    BY <1>7 DEF ResetRead
  <2> HIDE DEF r
  <2> QED
    BY <1>7, <1>a, <2>1, <2>2, ReadAgrees DEF ResetRead, Kept
<1>8. ASSUME DeleteResetToken(p) PROVE Kept
  BY <1>8, <1>b, ReadAgrees DEF DeleteResetToken, Kept
<1>9. ASSUME WriteUser(p) PROVE Kept
  <2> DEFINE v == req[p].user
             r == CASE req[p].then = "answer" -> Idle
                    [] req[p].then = "delReset" ->
                          [pc |-> "delReset", user |-> v, tok |-> req[p].tok]
                    [] req[p].then = "delVerify" -> [pc |-> "delVerify", user |-> v]
  <2>1. req[p].row \in Row /\ req[p].then \in {"answer", "delVerify", "delReset"}
    BY <1>0, <1>9, Holds DEF WriteUser
  <2>2. r.pc \in {"idle", "delReset", "delVerify"}
    BY <2>1 DEF Idle
  <2>3. req' = [req EXCEPT ![p] = r]
    BY <1>9 DEF WriteUser, Step
  <2> HIDE DEF r
  <2>4. \A q \in Procs : req'[q] = IF q = p THEN r ELSE req[q]
    BY <2>3 DEF TypeOK
  <2>5. \A w \in Users : users'[w] = IF w = v THEN req[p].row ELSE users[w]
    BY <1>9 DEF WriteUser, UpdateUser, TypeOK
  <2>6. v = u => req[p].row[f] = users[u][f]
    BY <1>9 DEF WriteUser, Agrees, Writers
  <2>7. users'[u][f] = users[u][f] /\ users'[u] # NoUser
    BY <1>a, <2>1, <2>5, <2>6, UsersAssumption
  <2> QED
    BY <2>2, <2>4, <2>7 DEF Kept, Agrees, Writers, Exists
<1> QED
  BY <1>1, <1>2, <1>3, <1>4, <1>5, <1>6, <1>7, <1>8, <1>9 DEF Continue, Kept

\* What a step does to a field all pending writes agree on.
LEMMA AgreesStep ==
    ASSUME TypeOK, Next, NEW u \in Users, NEW f \in Fields, Agrees(u, f)
    PROVE  (Agrees(u, f)' /\ users'[u][f] = users[u][f]) \/ Means(u, f)
<1> DEFINE Kept == Agrees(u, f)' /\ users'[u][f] = users[u][f]
<1>0. ASSUME UNCHANGED <<users, req>> PROVE Kept
  BY <1>0 DEF Agrees, Writers, Exists
<1>1. ASSUME NEW p \in Procs, Abort(p) PROVE Kept
  BY <1>1, ReadAgrees DEF Abort, Request, Idle
<1> HIDE DEF Kept
<1>2. ASSUME NEW t \in RefreshTokens, LogoutUser(t) PROVE Kept
  BY <1>0, <1>2 DEF LogoutUser
<1>3. ASSUME NEW v \in Users, ForgotPassword(v) PROVE Kept
  BY <1>0, <1>3 DEF ForgotPassword
<1>4. ASSUME NEW v \in Users, ExpireVerification(v) PROVE Kept
  BY <1>0, <1>4 DEF ExpireVerification
<1>5. ASSUME NEW v \in Users, NEW role \in Role, ExpireAccess(v, role) PROVE Kept
  BY <1>0, <1>5 DEF ExpireAccess
<1>6. ASSUME NEW t \in ResetTokens, ExpireReset(t) PROVE Kept
  BY <1>0, <1>6 DEF ExpireReset
<1>7. ASSUME NEW t \in RefreshTokens, ExpireRefresh(t) PROVE Kept
  BY <1>0, <1>7 DEF ExpireRefresh
<1> QED
  BY <1>1, <1>2, <1>3, <1>4, <1>5, <1>6, <1>7, StartAgrees, ContinueAgrees
  DEF Kept, Next, Logout, HandleForgotPassword, Expire

\* A field on which all pending writes agree with the row changes only after an
\* operation meant to change it begins, although every write is of all columns.
THEOREM NoLostUpdateWithoutOverlap == Spec => NoCollateralChange
<1>1. TypeOK /\ [Next]_vars =>
        [\A u \in Users, f \in Fields : Agrees(u, f) =>
            (Agrees(u, f)' /\ users'[u][f] = users[u][f]) \/ Means(u, f)]_vars
  BY AgreesStep
<1> QED
  BY <1>1, TypeCorrect, PTL DEF Spec, NoCollateralChange

-----------------------------------------------------------------------------
(* Bans. *)

\* A step of a request that leaves the row, the refresh tokens and the claims of
\* a banned user alone, and does not set out to let the user in.
LEMMA ReadLocked ==
    ASSUME TypeOK, NEW u \in Users, LockedOut(u), NEW p \in Procs, NEW r \in Request,
           Step(p, r), users'[u] = users[u], access'[u] = access[u],
           \A t \in RefreshTokens : refresh'[t] # u,
           r # Idle /\ r.user = u => /\ r.pc \notin {"login", "refresh", "rotate"}
                                     /\ r.pc = "write" => ~r.row.active
    PROVE  LockedOut(u)'
<1>1. \A q \in Procs : req'[q] = IF q = p THEN r ELSE req[q]
  BY DEF TypeOK, Step
<1> QED
  BY <1>1 DEF LockedOut, Exists

\* The same for an operation that copies the row of v, to write `row' back.
LEMMA ModifyLocked ==
    ASSUME TypeOK, NEW u \in Users, LockedOut(u), NEW p \in Procs, NEW v \in Users,
           NEW row \in Row, Modify(p, v, row, "answer"),
           UNCHANGED <<users, tokenVars, excused>>, v = u => ~row.active
    PROVE  LockedOut(u)'
<1> DEFINE r == [pc |-> "write", user |-> v, row |-> row, then |-> "answer"]
<1>1. r \in Request /\ r.user = v /\ r.row = row /\ r.pc = "write"
  BY DEF Request
<1>2. Step(p, r)
  BY DEF Modify, Begin, Step
<1> HIDE DEF r
<1> QED
  BY <1>1, <1>2, ReadLocked DEF tokenVars, LockedOut

\* No request that starts lets a banned user in, but an unban.
LEMMA StartLocked ==
    ASSUME TypeOK, NEW u \in Users, LockedOut(u), NEW p \in Procs, Start(p)
    PROVE  LockedOut(u)' \/ UnbanUser(p, u)
<1> USE DEF tokenVars
<1>0. /\ Exists(u) /\ FindUser(u) = users[u] /\ users[u] \in Row /\ ~FindUser(u).active
      /\ \A t \in RefreshTokens : refresh[t] # u
  BY DEF LockedOut, FindUser, TypeOK, Exists
<1>1. ASSUME NEW v \in Users, RegisterUser(p, v) PROVE LockedOut(u)'
  <2> DEFINE r == [pc |-> "storeVerify", user |-> v]
  <2>1. r \in Request /\ r.pc = "storeVerify"
    BY DEF Request
  <2>2. Step(p, r) /\ users'[u] = users[u]
    BY <1>0, <1>1 DEF RegisterUser, Begin, Step, CreateUser, TypeOK
  <2> HIDE DEF r
  <2> QED
    BY <1>0, <1>1, <2>1, <2>2, ReadLocked DEF RegisterUser
<1>2. ASSUME NEW v \in Users, VerifyEmail(p, v) PROVE LockedOut(u)'
  <2> DEFINE r == [pc |-> "verify", user |-> v]
  <2>1. r \in Request /\ r.pc = "verify"
    BY DEF Request
  <2>2. Step(p, r)
    BY <1>2 DEF VerifyEmail, Begin, Step
  <2> HIDE DEF r
  <2> QED
    BY <1>0, <1>2, <2>1, <2>2, ReadLocked DEF VerifyEmail
<1>3. ASSUME NEW v \in Users, LoginUser(p, v) PROVE LockedOut(u)'
  <2> DEFINE r == [pc |-> "login", user |-> v, role |-> FindUser(v).role]
  <2>1. r \in Request /\ r.user = v
    BY <1>3, FoundRow DEF Request, LoginUser
  <2>2. Step(p, r) /\ v # u
    BY <1>0, <1>3 DEF LoginUser, Begin, Step
  <2> HIDE DEF r
  <2> QED
    BY <1>0, <1>3, <2>1, <2>2, ReadLocked DEF LoginUser
<1>4. ASSUME NEW t \in RefreshTokens, RefreshToken(p, t) PROVE LockedOut(u)'
  <2> DEFINE r == [pc |-> "refresh", user |-> refresh[t], tok |-> t]
  <2>1. r \in Request /\ r.user = refresh[t]
    BY <1>4 DEF Request, RefreshToken, TypeOK
  <2>2. Step(p, r)
    BY <1>4 DEF RefreshToken, Begin, Step
  <2> HIDE DEF r
  <2> QED
    BY <1>0, <1>4, <2>1, <2>2, ReadLocked DEF RefreshToken
<1>5. ASSUME NEW t \in ResetTokens, ResetPassword(p, t) PROVE LockedOut(u)'
  <2> DEFINE r == [pc |-> "reset", user |-> reset[t], tok |-> t]
  <2>1. r \in Request /\ r.pc = "reset"
    BY <1>5 DEF Request, ResetPassword, TypeOK
  <2>2. Step(p, r)
    BY <1>5 DEF ResetPassword, Begin, Step
  <2> HIDE DEF r
  <2> QED
    BY <1>0, <1>5, <2>1, <2>2, ReadLocked DEF ResetPassword
<1>6. ASSUME NEW v \in Users, UpdateProfile(p, v) PROVE LockedOut(u)'
  BY <1>0, <1>6, ModifyLocked, FoundRow DEF UpdateProfile
<1>7. ASSUME NEW v \in Users, ChangePassword(p, v) PROVE LockedOut(u)'
  BY <1>0, <1>7, ModifyLocked, FoundRow DEF ChangePassword
<1>8. ASSUME NEW v \in Users, BanUser(p, v) PROVE LockedOut(u)'
  <2> DEFINE row == [FindUser(v) EXCEPT !.active = FALSE]
  <2>1. Modify(p, v, row, "answer") /\ row \in Row
    BY <1>8, FoundRow DEF BanUser
  <2>2. FindUser(v) \in Row
    BY <1>8, FoundRow DEF BanUser
  <2>3. row.active = FALSE
    BY <2>2 DEF Row
  <2> HIDE DEF row
  <2> QED
    BY <1>8, <2>1, <2>3, ModifyLocked DEF BanUser
<1>9. ASSUME NEW v \in Users, UnbanUser(p, v) PROVE LockedOut(u)' \/ UnbanUser(p, u)
  BY <1>9, ModifyLocked, FoundRow DEF UnbanUser
<1>10. ASSUME NEW v \in Users, NEW role \in Role, ChangeUserRole(p, v, role)
       PROVE  LockedOut(u)'
  <2> DEFINE row == [FindUser(v) EXCEPT !.role = role]
  <2>1. Modify(p, v, row, "answer") /\ row \in Row
    BY <1>10, FoundRow DEF ChangeUserRole
  <2>2. FindUser(v) \in Row
    BY <1>10, FoundRow DEF ChangeUserRole
  <2>3. row.active = FindUser(v).active
    BY <2>2 DEF Row
  <2> HIDE DEF row
  <2> QED
    BY <1>0, <1>10, <2>1, <2>3, ModifyLocked DEF ChangeUserRole
<1> QED
  BY <1>1, <1>2, <1>3, <1>4, <1>5, <1>6, <1>7, <1>8, <1>9, <1>10
  DEF Start, Register, HandleVerifyEmail, Login, HandleRefreshToken,
      HandleResetPassword, HandleUpdateProfile, HandleChangePassword,
      HandleBanUser, HandleUnbanUser, HandleChangeUserRole

\* No request under way lets a banned user in.
LEMMA ContinueLocked ==
    ASSUME TypeOK, NEW u \in Users, LockedOut(u), NEW p \in Procs, Continue(p)
    PROVE  LockedOut(u)'
<1> USE DEF tokenVars
<1>0. /\ req[p] \in Request /\ req[p] # Idle /\ req[p].user \in Users
      /\ Exists(req[p].user) /\ users[req[p].user] \in Row
  BY HasRow DEF Continue, StoreVerificationToken, VerifyRead, DeleteVerificationToken,
     StoreRefreshToken, RefreshRead, Rotate, ResetRead, DeleteResetToken, WriteUser, Idle
<1>a. /\ Exists(u) /\ FindUser(u) = users[u] /\ users[u] \in Row /\ ~FindUser(u).active
      /\ \A t \in RefreshTokens : refresh[t] # u
  BY DEF LockedOut, FindUser, TypeOK, Exists
<1>b. Idle \in Request
  BY DEF Request
<1>c. req[p].pc \in {"login", "refresh", "rotate"} => req[p].user # u
  BY <1>0 DEF LockedOut
<1>1. ASSUME StoreVerificationToken(p) PROVE LockedOut(u)'
  BY <1>1, <1>a, <1>b, ReadLocked DEF StoreVerificationToken
<1>2. ASSUME VerifyRead(p) PROVE LockedOut(u)'
  <2> DEFINE v == req[p].user
             row == [FindUser(v) EXCEPT !.verified = TRUE]
             r == IF FindUser(v).verified THEN [pc |-> "delVerify", user |-> v]
                  ELSE [pc |-> "write", user |-> v, then |-> "delVerify", row |-> row]
  <2>1. FindUser(v) \in Row /\ row \in Row
    BY <1>0, FoundRow
  <2>2. row.active = FindUser(v).active
    BY <2>1 DEF Row
  <2>3. Step(p, r)
    BY <1>2 DEF VerifyRead
  <2> HIDE DEF row
  <2>4. /\ r \in Request /\ r.user = v /\ r.pc \in {"delVerify", "write"}
        /\ r.pc = "write" => r.row = row
    BY <1>0, <2>1 DEF Request
  <2> HIDE DEF r
  <2> QED
    BY <1>2, <1>a, <2>2, <2>3, <2>4, ReadLocked DEF VerifyRead
<1>3. ASSUME DeleteVerificationToken(p) PROVE LockedOut(u)'
  BY <1>3, <1>a, <1>b, ReadLocked DEF DeleteVerificationToken
<1>4. ASSUME StoreRefreshToken(p) PROVE LockedOut(u)'
  <2>1. req[p].user # u
    BY <1>4, <1>c DEF StoreRefreshToken
  <2>2. access'[u] = access[u]
    BY <1>4, <2>1 DEF StoreRefreshToken, GenerateAccessToken, TypeOK
  <2>3. \A t \in RefreshTokens : refresh'[t] # u
    BY <1>4, <1>a, <2>1 DEF StoreRefreshToken, TypeOK
  <2> QED
    BY <1>4, <1>b, <2>2, <2>3, ReadLocked DEF StoreRefreshToken
<1>5. ASSUME RefreshRead(p) PROVE LockedOut(u)'
  <2> DEFINE r == [pc |-> "rotate", user |-> req[p].user, tok |-> req[p].tok,
                   role |-> FindUser(req[p].user).role]
  <2>1. r \in Request /\ r.user = req[p].user
    BY <1>0, <1>5, Holds, FoundRow DEF Request, RefreshRead
  <2>2. Step(p, r) /\ req[p].user # u
    BY <1>5, <1>c DEF RefreshRead
  <2> HIDE DEF r
  <2> QED
    BY <1>5, <1>a, <2>1, <2>2, ReadLocked DEF RefreshRead
<1>6. ASSUME Rotate(p) PROVE LockedOut(u)'
  <2>1. req[p].user # u /\ req[p].tok \in RefreshTokens
    BY <1>0, <1>6, <1>c, Holds DEF Rotate
  <2>2. access'[u] = access[u]
    BY <1>6, <2>1 DEF Rotate, GenerateAccessToken, TypeOK
  <2>3. \A t \in RefreshTokens : refresh'[t] # u
    BY <1>6, <1>a, <2>1, UsersAssumption DEF Rotate, TypeOK
  <2> QED
    BY <1>6, <1>b, <2>2, <2>3, ReadLocked DEF Rotate
<1>7. ASSUME ResetRead(p) PROVE LockedOut(u)'
  <2> DEFINE r == [pc |-> "write", user |-> req[p].user, tok |-> req[p].tok,
                   row |-> FindUser(req[p].user), then |-> "delReset"]
  <2>1. /\ r \in Request /\ r.pc = "write"
        /\ r.user = req[p].user /\ r.row = FindUser(req[p].user)
    BY <1>0, <1>7, Holds, FoundRow DEF Request, ResetRead
  <2>2. Step(p, r)
    BY <1>7 DEF ResetRead
  <2> HIDE DEF r
  <2> QED
    BY <1>7, <1>a, <2>1, <2>2, ReadLocked DEF ResetRead
<1>8. ASSUME DeleteResetToken(p) PROVE LockedOut(u)'
  BY <1>8, <1>a, <1>b, ReadLocked DEF DeleteResetToken
<1>9. ASSUME WriteUser(p) PROVE LockedOut(u)'
  <2> DEFINE v == req[p].user
             r == CASE req[p].then = "answer" -> Idle
                    [] req[p].then = "delReset" ->
                          [pc |-> "delReset", user |-> v, tok |-> req[p].tok]
                    [] req[p].then = "delVerify" -> [pc |-> "delVerify", user |-> v]
  <2>1. req[p].row \in Row /\ req[p].then \in {"answer", "delVerify", "delReset"}
    BY <1>0, <1>9, Holds DEF WriteUser
  <2>2. r.pc \in {"idle", "delReset", "delVerify"}
    BY <2>1 DEF Idle
  <2>3. req' = [req EXCEPT ![p] = r]
    BY <1>9 DEF WriteUser, Step
  <2> HIDE DEF r
  <2>4. \A q \in Procs : req'[q] = IF q = p THEN r ELSE req[q]
    BY <2>3 DEF TypeOK
  <2>5. users'[u] = IF u = v THEN req[p].row ELSE users[u]
    BY <1>9 DEF WriteUser, UpdateUser, TypeOK
  <2>6. v = u => ~req[p].row.active
    BY <1>0, <1>9 DEF WriteUser, LockedOut
  <2>7. users'[u] # NoUser /\ ~users'[u].active
    BY <1>a, <2>1, <2>5, <2>6, UsersAssumption
  <2> QED
    BY <1>9, <2>2, <2>4, <2>7 DEF WriteUser, LockedOut, Exists
<1> QED
  BY <1>1, <1>2, <1>3, <1>4, <1>5, <1>6, <1>7, <1>8, <1>9 DEF Continue

\* What a step does to a banned user without a session.
LEMMA LockedStep ==
    ASSUME TypeOK, Next, NEW u \in Users, LockedOut(u)
    PROVE  LockedOut(u)' \/ \E p \in Procs : UnbanUser(p, u)
<1>1. ASSUME NEW p \in Procs, Abort(p) PROVE LockedOut(u)'
  <2>1. Idle \in Request
    BY DEF Request
  <2> QED
    BY <1>1, <2>1, ReadLocked DEF Abort, LockedOut, tokenVars
<1>2. ASSUME NEW t \in RefreshTokens, LogoutUser(t) PROVE LockedOut(u)'
  BY <1>2, UsersAssumption DEF LogoutUser, LockedOut, Exists, TypeOK
<1>3. ASSUME NEW v \in Users, ForgotPassword(v) PROVE LockedOut(u)'
  BY <1>3 DEF ForgotPassword, LockedOut, Exists
<1>4. ASSUME NEW v \in Users, ExpireVerification(v) PROVE LockedOut(u)'
  BY <1>4 DEF ExpireVerification, LockedOut, Exists
<1>5. ASSUME NEW v \in Users, NEW role \in Role, ExpireAccess(v, role) PROVE LockedOut(u)'
  BY <1>5 DEF ExpireAccess, LockedOut, Exists, TypeOK
<1>6. ASSUME NEW t \in ResetTokens, ExpireReset(t) PROVE LockedOut(u)'
  BY <1>6 DEF ExpireReset, LockedOut, Exists
<1>7. ASSUME NEW t \in RefreshTokens, ExpireRefresh(t) PROVE LockedOut(u)'
  BY <1>7, UsersAssumption DEF ExpireRefresh, LockedOut, Exists, TypeOK
<1> QED
  BY <1>1, <1>2, <1>3, <1>4, <1>5, <1>6, <1>7, StartLocked, ContinueLocked
  DEF Next, Logout, HandleForgotPassword, Expire

\* A banned user whose sessions have ended stays out until an unban begins,
\* whatever logins, resets, verifications and role changes overlap.
THEOREM BansHold == Spec => BanHolds
<1>1. TypeOK /\ [Next]_vars =>
        [\A u \in Users : LockedOut(u) =>
            LockedOut(u)' \/ \E p \in Procs : UnbanUser(p, u)]_vars
  BY LockedStep
<1> QED
  BY <1>1, TypeCorrect, PTL DEF Spec, BanHolds
=============================================================================
