---------------------------- MODULE Auth_proofs ----------------------------
(***************************************************************************)
(* Auth for any number of accounts, tokens and requests in flight, any     *)
(* overlap of their statements, any lifetimes and any bound of the clock.  *)
(***************************************************************************)
EXTENDS Auth, FiniteSetTheorems, TLAPS

USE AuthAssumption

---------------------------------------------------------------------------
(* TypeOK in parts. *)

UserOK(row) ==
  /\ row \in UserRow
  /\ row.state = "present" => row.email \in Email /\ row.role \in Role /\ row.pw \in Password

TokenOK(row) ==
  /\ row \in TokenRow
  /\ row.state \in {"valid", "revoked"} => row.user \in UserId

JobOK(job) ==
  /\ job \in Request
  /\ job.at \in UsesUser => job.user \in UserId
  /\ job.at \in UsesEmail => job.email \in Email
  /\ job.at \in UsesRole => job.role \in Role
  /\ job.at \in UsesPassword => job.pw \in Password
  /\ job.at = "refreshRevoke" => job.token \in Token

UsersOK == user \in [UserId -> UserRow] /\ \A u \in UserId : UserOK(user[u])
TokensOK == token \in [Token -> TokenRow] /\ \A t \in Token : TokenOK(token[t])
RequestsOK == req \in [Req -> Request] /\ \A r \in Req : JobOK(req[r])
ClaimsOK == saved \subseteq UserId /\ claims \subseteq Claim /\ clock \in Nat
HistoryOK == settled \subseteq UserId /\ lastAdmin \in [UserId -> Int] /\ selfRegistered \subseteq UserId

LEMMA TypeOKParts == TypeOK <=> UsersOK /\ TokensOK /\ RequestsOK /\ ClaimsOK /\ HistoryOK
BY DEF TypeOK, UsersOK, TokensOK, RequestsOK, ClaimsOK, HistoryOK, UserOK, TokenOK, JobOK,
       Present, RowExists

\* The steps at which a request holds something.
LEMMA IdleOK == JobOK(Idle) /\ Idle.at = "idle"
BY DEF JobOK, Idle, Request, Steps, CliSteps, ErrorReturns, RevokeAllSteps,
       UsesUser, UsesEmail, UsesRole, UsesPassword

\* A request that goes on to a well-typed step leaves the others where they are.
LEMMA GotoOK ==
  ASSUME RequestsOK, NEW r \in Req, NEW job, JobOK(job), Goto(r, job)
  PROVE  /\ RequestsOK'
         /\ req'[r] = job /\ \A q \in Req \ {r} : req'[q] = req[q]
<1>1. req' = [req EXCEPT ![r] = job] /\ req \in [Req -> Request]
  BY DEF Goto, RequestsOK
<1>2. req'[r] = job /\ \A q \in Req \ {r} : req'[q] = req[q]
  BY <1>1
<1>3. req' \in [Req -> Request]
  BY <1>1 DEF JobOK
<1>4. \A q \in Req : req'[q] = job \/ req'[q] = req[q]
  BY <1>2
<1>5. \A q \in Req : JobOK(req'[q])
  BY <1>4 DEF RequestsOK
<1>6. (\A q \in Req : JobOK(req[q]))' <=> \A q \in Req : JobOK(req'[q])
  BY DEF JobOK
<1> QED BY <1>2, <1>3, <1>5, <1>6 DEF RequestsOK

\* Ending a request is well typed.
LEMMA FinishOK ==
  ASSUME RequestsOK, NEW r \in Req, Finish(r)
  PROVE  RequestsOK'
BY IdleOK, GotoOK DEF Finish

\* Whatever happens to one row of users, the others keep their type.
LEMMA OneUserOK ==
  ASSUME UsersOK, NEW u \in UserId, NEW row, UserOK(row), user' = [user EXCEPT ![u] = row]
  PROVE  UsersOK'
<1>1. user' \in [UserId -> UserRow]
  BY DEF UsersOK, UserOK
<1>2. \A v \in UserId : user'[v] = row \/ user'[v] = user[v]
  BY DEF UsersOK
<1>3. \A v \in UserId : UserOK(user'[v])
  BY <1>2 DEF UsersOK
<1> QED BY <1>1, <1>3 DEF UsersOK, UserOK

\* A table of well-typed rows is well typed.
LEMMA SomeTokensOK ==
  ASSUME token' = [t \in Token |-> token'[t]], \A t \in Token : TokenOK(token'[t])
  PROVE  TokensOK'
BY DEF TokensOK, TokenOK

\* A new row gets an id of its own.
LEMMA FreshUserOK == FreshUser \subseteq UserId /\ \A u \in FreshUser : user[u].state = "unused"
BY DEF FreshUser

LEMMA DeleteTokensOK ==
  ASSUME TokensOK, NEW u, DeleteTokensOf(u)
  PROVE  /\ TokensOK'
         /\ \A t \in Token : \/ t \notin TokensOf(u) /\ token'[t] = token[t]
                             \/ t \in TokensOf(u) /\ token'[t].state = "deleted"
<1>1. \A t \in Token : TokenOK(Deleted(t)) /\ Deleted(t).state = "deleted"
  BY DEF TokensOK, TokenOK, TokenRow, Deleted, NoToken
<1>2. \A t \in Token : token'[t] = IF t \in TokensOf(u) THEN Deleted(t) ELSE token[t]
  BY DEF DeleteTokensOf
<1>3. token' = [t \in Token |-> token'[t]]
  BY DEF DeleteTokensOf
<1>4. TokensOK'
  BY <1>1, <1>2, <1>3, SomeTokensOK DEF TokensOK
<1> QED BY <1>1, <1>2, <1>4

LEMMA RevokeTokenOK ==
  ASSUME TokensOK, NEW t0 \in Token, RevokeToken(t0)
  PROVE  /\ TokensOK'
         /\ \A t \in Token : token'[t].user = token[t].user /\ (RowExists(t)' <=> RowExists(t))
<1>1. CASE RowExists(t0)
  <2> DEFINE row == [token[t0] EXCEPT !.state = "revoked", !.pw = None]
  <2>1. token' = [token EXCEPT ![t0] = row] /\ token \in [Token -> TokenRow]
    BY <1>1 DEF RevokeToken, TokensOK, TokenRow
  <2>2. TokenOK(row) /\ row.user = token[t0].user /\ row.state = "revoked"
    BY <1>1 DEF TokensOK, TokenOK, TokenRow, RowExists
  <2>3. token'[t0] = row /\ \A t \in Token \ {t0} : token'[t] = token[t]
    BY <2>1
  <2>4. token' = [t \in Token |-> token'[t]]
    BY <2>1
  <2>5. TokensOK'
    BY <2>2, <2>3, <2>4, SomeTokensOK DEF TokensOK
  <2> QED BY <1>1, <2>2, <2>3, <2>5 DEF RowExists
<1>2. CASE ~RowExists(t0)
  BY <1>2 DEF RevokeToken, TokensOK, RowExists
<1> QED BY <1>1, <1>2

\* Starting the program changes a role at most, and never to readonly.
LEMMA PromoteFirstOK ==
  ASSUME UsersOK, NEW u \in UserId
  PROVE  /\ UserOK(PromoteFirst(user)[u])
         /\ PromoteFirst(user)[u].state = user[u].state
         /\ PromoteFirst(user)[u].role = user[u].role \/ PromoteFirst(user)[u].role = "admin"
<1>1. UserOK(user[u]) /\ user[u] \in UserRow
  BY DEF UsersOK
<1>2. PromoteFirst(user)[u] \in {user[u], [user[u] EXCEPT !.role = "admin"]}
  BY DEF PromoteFirst
<1>3. "admin" \in Role
  BY DEF Role
<1>4. CASE PromoteFirst(user)[u] = [user[u] EXCEPT !.role = "admin"]
  BY <1>1, <1>3, <1>4 DEF UserOK, UserRow
<1> QED BY <1>1, <1>2, <1>4

\* The account of ADMIN_EMAIL is an admin.
LEMMA ProvisionedRowOK ==
  ASSUME Provisions
  PROVE  UserOK(ProvisionedRow) /\ IsAdmin(ProvisionedRow)
BY DEF Provisions, ProvisionedRow, UserOK, UserRow, Role, IsAdmin

\* The history of admins is well typed, and moves to the present only.
LEMMA NoteAdminsOK ==
  ASSUME HistoryOK, clock \in Nat, NoteAdmins
  PROVE  lastAdmin' \in [UserId -> Int]
BY DEF NoteAdmins, HistoryOK

---------------------------------------------------------------------------
(* Most steps only read the tables and go on to a well-typed step; the     *)
(* role they are about to sign is the one in the table.                    *)

Read(r, job) ==
  /\ JobOK(job)
  /\ job.at = "issue" /\ job.role = "admin" => IsAdmin(user[job.user])
  /\ Goto(r, job)
  /\ UNCHANGED <<tables, claims, clock, history>>

\* The first statement of every handler is a read.
LEMMA StartReads ==
  ASSUME TypeOK, NEW r \in Req, Start(r)
  PROVE  \/ \E job : Read(r, job)
         \/ \E e \in Email, p \in Password : CliStart(r, e, p)
         \/ \E t \in Token : Logout(r, t)
         \/ \E c \in claims : SaveConnection(r, c) \/ DeleteConnection(r, c)
<1> USE DEF JobOK, Idle, Request, Steps, CliSteps, ErrorReturns, RevokeAllSteps,
            UsesUser, UsesEmail, UsesRole, UsesPassword, Role
<1>1. ASSUME NEW e \in Email, NEW p \in Password, RegisterCount(r, e, p)
      PROVE  \E job : Read(r, job)
  <2> DEFINE job == [Idle EXCEPT !.at = "registerFind", !.email = e, !.pw = p,
                       !.role = IF \A u \in UserId : ~Present(u) THEN "admin" ELSE "readonly"]
  <2>1. JobOK(job) /\ job.at # "issue"
    OBVIOUS
  <2>2. Read(r, job)
    BY <1>1, <2>1 DEF RegisterCount, Read
  <2> QED BY <2>2
<1>2. ASSUME NEW u \in UserId, LoginFind(r, u)
      PROVE  \E job : Read(r, job)
  <2> DEFINE job == [Idle EXCEPT !.at = "issue", !.user = u, !.role = user[u].role, !.pw = user[u].pw]
  <2>1. Present(u) /\ user[u].role \in Role /\ user[u].pw \in Password
    BY <1>2 DEF LoginFind, TypeOK
  <2>2. JobOK(job) /\ job.user = u /\ job.role = user[u].role
    BY <2>1
  <2>3. job.role = "admin" => IsAdmin(user[job.user])
    BY <2>1, <2>2 DEF IsAdmin, Present
  <2>4. Read(r, job)
    BY <1>2, <2>2, <2>3 DEF LoginFind, Read
  <2> QED BY <2>4
<1>3. ASSUME NEW t \in Token, RefreshFind(r, t)
      PROVE  \E job : Read(r, job)
  <2> DEFINE rotate == [Idle EXCEPT !.at = "refreshRevoke", !.user = token[t].user, !.token = t,
                                    !.pw = token[t].pw]
             reuse == [Idle EXCEPT !.at = "reuseRevokeAll", !.user = token[t].user]
  <2>1. token[t].user \in UserId /\ token[t].pw \in Password \cup {None}
    BY <1>3 DEF RefreshFind, TypeOK, TokenRow
  <2>2. JobOK(rotate) /\ rotate.at # "issue" /\ JobOK(reuse) /\ reuse.at # "issue"
    BY <2>1
  <2>3. Read(r, rotate) \/ Read(r, reuse)
    BY <1>3, <2>2 DEF RefreshFind, Read
  <2> QED BY <2>3
<1>4. ASSUME NEW c \in claims, NEW p \in Password, ChangeFind(r, c, p)
      PROVE  \E job : Read(r, job)
  <2> DEFINE job == [Idle EXCEPT !.at = "changeUpdate", !.user = c.user, !.pw = p]
  <2>1. c.user \in UserId
    BY DEF TypeOK, Claim
  <2>2. JobOK(job) /\ job.at # "issue"
    BY <2>1
  <2>3. Read(r, job)
    BY <1>4, <2>2 DEF ChangeFind, Read
  <2> QED BY <2>3
<1>5. ASSUME NEW c \in claims, NEW u \in UserId, DeleteList(r, c, u)
      PROVE  \E job : Read(r, job)
  <2> DEFINE job == [Idle EXCEPT !.at = "deleteTokens", !.user = u]
  <2>1. JobOK(job) /\ job.at # "issue"
    OBVIOUS
  <2>2. Read(r, job)
    BY <1>5, <2>1 DEF DeleteList, Read
  <2> QED BY <2>2
<1>6. ASSUME NEW c \in claims, NEW u \in UserId, NEW ro \in Role, RoleList(r, c, u, ro)
      PROVE  \E job : Read(r, job)
  <2> DEFINE job == [Idle EXCEPT !.at = "roleUpdate", !.user = u, !.role = ro]
  <2>1. JobOK(job) /\ job.at # "issue"
    OBVIOUS
  <2>2. Read(r, job)
    BY <1>6, <2>1 DEF RoleList, Read
  <2> QED BY <2>2
<1>7. ASSUME NEW c \in claims, NEW e \in Email, NEW ro \in Role, NEW p \in Password,
             CreateFind(r, c, e, ro, p)
      PROVE  \E job : Read(r, job)
  <2> DEFINE job == [Idle EXCEPT !.at = "createInsert", !.email = e, !.role = ro, !.pw = p]
  <2>1. JobOK(job) /\ job.at # "issue"
    OBVIOUS
  <2>2. Read(r, job)
    BY <1>7, <2>1 DEF CreateFind, Read
  <2> QED BY <2>2
<1> HIDE DEF JobOK, Idle, Request, Steps, CliSteps, ErrorReturns, RevokeAllSteps,
             UsesUser, UsesEmail, UsesRole, UsesPassword, Role
<1> QED BY <1>1, <1>2, <1>3, <1>4, <1>5, <1>6, <1>7 DEF Start

\* So are the look-ups that follow it, and a statement that fails.
LEMMA ContinueReads ==
  ASSUME TypeOK, NEW r \in Req,
         RegisterFind(r) \/ RefreshUser(r) \/ CliFind(r) \/ StatementFails(r)
  PROVE  \E job : Read(r, job)
<1>0. JobOK(req[r]) /\ req[r] \in Request
  BY TypeOKParts DEF RequestsOK, JobOK
<1>1. ASSUME Finish(r), UNCHANGED <<tables, claims, clock, history>>
      PROVE  Read(r, Idle)
  BY <1>1, IdleOK DEF Finish, Read
<1> USE DEF JobOK, Request, Steps, CliSteps, ErrorReturns, RevokeAllSteps,
            UsesUser, UsesEmail, UsesRole, UsesPassword, Role
<1>2. CASE RegisterFind(r)
  <2> DEFINE job == [req[r] EXCEPT !.at = "registerInsert"]
  <2>1. req[r].at = "registerFind"
    BY <1>2 DEF RegisterFind
  <2>2. JobOK(job) /\ job.at # "issue"
    BY <1>0, <2>1
  <2>3. Read(r, job) \/ Read(r, Idle)
    BY <1>1, <1>2, <2>2 DEF RegisterFind, Read
  <2> QED BY <2>3
<1>3. CASE RefreshUser(r)
  <2> DEFINE u == req[r].user
             job == [req[r] EXCEPT !.at = "issue", !.role = user[u].role]
  <2>1. req[r].at = "refreshUser" /\ u \in UserId
    BY <1>0, <1>3 DEF RefreshUser
  <2>2. CASE ~Present(u)
    <3>1. Read(r, Idle)
      BY <1>1, <1>3, <2>2 DEF RefreshUser
    <3> QED BY <3>1
  <2>3. CASE Present(u)
    <3>1. user[u].role \in Role
      BY <2>1, <2>3 DEF TypeOK
    <3>2. JobOK(job) /\ job.user = u /\ job.role = user[u].role
      BY <1>0, <2>1, <3>1
    <3>3. job.role = "admin" => IsAdmin(user[job.user])
      BY <2>3, <3>2 DEF IsAdmin, Present
    <3>4. Read(r, job)
      BY <1>3, <2>3, <3>2, <3>3 DEF RefreshUser, Read
    <3> QED BY <3>4
  <2> QED BY <2>2, <2>3
<1>4. CASE CliFind(r)
  <2>1. CASE Finish(r)
    BY <1>1, <1>4, <2>1 DEF CliFind
  <2>2. CASE \E u \in UserId : Goto(r, [req[r] EXCEPT !.at = "cliUpdate", !.user = u, !.email = None])
    <3>1. PICK u \in UserId : Goto(r, [req[r] EXCEPT !.at = "cliUpdate", !.user = u, !.email = None])
      BY <2>2
    <3> DEFINE job == [req[r] EXCEPT !.at = "cliUpdate", !.user = u, !.email = None]
    <3>2. req[r].at = "cliFind"
      BY <1>4 DEF CliFind
    <3>3. JobOK(job) /\ job.at # "issue"
      BY <1>0, <3>2
    <3>4. Read(r, job)
      BY <1>4, <3>1, <3>3 DEF CliFind, Read
    <3> QED BY <3>4
  <2> QED BY <1>4, <2>1, <2>2 DEF CliFind
<1>5. CASE StatementFails(r)
  BY <1>1, <1>5 DEF StatementFails
<1> HIDE DEF JobOK, Request, Steps, CliSteps, ErrorReturns, RevokeAllSteps,
             UsesUser, UsesEmail, UsesRole, UsesPassword, Role
<1> QED BY <1>2, <1>3, <1>4, <1>5

---------------------------------------------------------------------------
(* The statements that write. *)

Write(r) ==
  \/ Issue(r) \/ RegisterInsert(r) \/ RefreshRevoke(r)
  \/ UpdatePassword(r) \/ RevokeAll(r) \/ RevocationFails(r)
  \/ RoleUpdate(r) \/ DeleteTokens(r) \/ DeleteUserRow(r) \/ CreateInsert(r)

\* A step reads, writes, takes a fault or a tick, or does nothing.
LEMMA StepCases ==
  ASSUME TypeOK, [Next]_vars
  PROVE  \/ \E r \in Req : \/ \E job : Read(r, job)
                           \/ \E e \in Email, p \in Password : CliStart(r, e, p)
                           \/ \E t \in Token : Logout(r, t)
                           \/ \E c \in claims : SaveConnection(r, c) \/ DeleteConnection(r, c)
                           \/ Write(r)
         \/ Restart \/ Tick \/ UNCHANGED vars
<1>1. CASE \E r \in Req : Start(r)
  <2>1. PICK r \in Req : Start(r)
    BY <1>1
  <2> QED BY <2>1, StartReads
<1>2. CASE \E r \in Req : Continue(r)
  <2>1. PICK r \in Req : Continue(r)
    BY <1>2
  <2>2. CASE RegisterFind(r) \/ RefreshUser(r) \/ CliFind(r) \/ StatementFails(r)
    BY <2>2, ContinueReads
  <2> QED BY <2>1, <2>2 DEF Continue, Write
<1> QED BY <1>1, <1>2 DEF Next

\* After a write its request is done, or goes on to the statement below it.
LEMMA WriteGoto ==
  ASSUME TypeOK, NEW r \in Req, Write(r)
  PROVE  \E job : /\ JobOK(job) /\ Goto(r, job)
                  /\ job.at = "issue" =>
                       \/ RegisterInsert(r) /\ job.role = req[r].role /\ job.user \in FreshUser
                                            /\ ~EmailTaken(req[r].email)
                                            /\ InsertUser(job.user, req[r].email, job.role, req[r].pw)
<1>0. JobOK(req[r]) /\ req[r] \in Request
  BY TypeOKParts DEF RequestsOK, JobOK
<1>1. CASE Finish(r)
  BY <1>1, IdleOK DEF Finish
<1> USE DEF JobOK, Request, Steps, CliSteps, ErrorReturns, RevokeAllSteps,
            UsesUser, UsesEmail, UsesRole, UsesPassword, Role
<1>2. CASE RegisterInsert(r) /\ ~Finish(r)
  <2>1. PICK u \in FreshUser :
          /\ InsertUser(u, req[r].email, req[r].role, req[r].pw)
          /\ Goto(r, [req[r] EXCEPT !.at = "issue", !.user = u, !.email = None])
    BY <1>2 DEF RegisterInsert
  <2>2. u \in UserId /\ req[r].at = "registerInsert" /\ ~EmailTaken(req[r].email)
    BY <1>2, <2>1, FreshUserOK DEF RegisterInsert
  <2> DEFINE job == [req[r] EXCEPT !.at = "issue", !.user = u, !.email = None]
  <2>3. JobOK(job) /\ job.role = req[r].role /\ job.user = u
    BY <1>0, <2>2
  <2> QED BY <1>2, <2>1, <2>2, <2>3
<1>3. CASE RefreshRevoke(r) \/ (RevocationFails(r) /\ ~Finish(r))
  <2> DEFINE job == [req[r] EXCEPT !.at = "refreshUser"]
  <2>1. req[r].at = "refreshRevoke" /\ Goto(r, job)
    BY <1>3 DEF RefreshRevoke, RevocationFails
  <2>2. JobOK(job) /\ job.at # "issue"
    BY <1>0, <2>1
  <2> QED BY <2>1, <2>2
<1>4. CASE UpdatePassword(r)
  <2> DEFINE job == [req[r] EXCEPT !.at = IF @ = "cliUpdate" THEN "cliRevokeAll" ELSE "changeRevokeAll"]
  <2>1. req[r].at \in {"changeUpdate", "cliUpdate"} /\ Goto(r, job)
    BY <1>4 DEF UpdatePassword
  <2>2. JobOK(job) /\ job.at # "issue"
    BY <1>0, <2>1
  <2> QED BY <2>1, <2>2
<1>5. CASE DeleteTokens(r)
  <2> DEFINE job == [req[r] EXCEPT !.at = "deleteUser"]
  <2>1. req[r].at = "deleteTokens" /\ Goto(r, job)
    BY <1>5 DEF DeleteTokens
  <2>2. JobOK(job) /\ job.at # "issue"
    BY <1>0, <2>1
  <2> QED BY <2>1, <2>2
<1> HIDE DEF JobOK, Request, Steps, CliSteps, ErrorReturns, RevokeAllSteps,
             UsesUser, UsesEmail, UsesRole, UsesPassword, Role
<1>6. ASSUME Issue(r) \/ RevokeAll(r) \/ RoleUpdate(r) \/ DeleteUserRow(r) \/ CreateInsert(r)
      PROVE  Finish(r)
  BY <1>6 DEF Issue, RevokeAll, RoleUpdate, DeleteUserRow, CreateInsert
<1> QED BY <1>1, <1>2, <1>3, <1>4, <1>5, <1>6 DEF Write

\* What a write may do to users: insert an unused id, change one present row,
\* or delete a row nothing refers to.
LEMMA WriteUsers ==
  ASSUME TypeOK, NEW r \in Req, Write(r)
  PROVE  \/ UNCHANGED user /\ (NoteAdmins \/ UNCHANGED lastAdmin)
         \/ \E u \in FreshUser, e \in Email, ro \in Role, p \in Password :
              ~EmailTaken(e) /\ InsertUser(u, e, ro, p)
         \/ \E u \in UserId : \E row :
              /\ Present(u) /\ UserOK(row) /\ row.state = "present"
              /\ user' = [user EXCEPT ![u] = row]
              /\ NoteAdmins \/ (row.role = user[u].role /\ UNCHANGED lastAdmin)
         \/ \E u \in UserId :
              /\ TokensOf(u) = {} /\ u \notin saved
              /\ user' = [user EXCEPT ![u] = [NoUser EXCEPT !.state = "deleted"]]
              /\ UNCHANGED <<token, saved, lastAdmin>>
<1>0. /\ JobOK(req[r]) /\ UsersOK
      /\ \A u \in UserId : UserOK(user[u]) /\ user[u] \in UserRow
  BY TypeOKParts DEF RequestsOK, UsersOK, UserOK
<1>1. CASE UNCHANGED user /\ (NoteAdmins \/ UNCHANGED lastAdmin)
  BY <1>1
<1>2. CASE RegisterInsert(r) /\ ~UNCHANGED user
  <2>1. req[r].email \in Email /\ req[r].role \in Role /\ req[r].pw \in Password
    BY <1>0, <1>2 DEF RegisterInsert, JobOK, UsesEmail, UsesRole, UsesPassword
  <2> QED BY <1>2, <2>1 DEF RegisterInsert
<1>3. CASE CreateInsert(r) /\ ~UNCHANGED user
  <2>1. req[r].email \in Email /\ req[r].role \in Role /\ req[r].pw \in Password
    BY <1>0, <1>3 DEF CreateInsert, JobOK, UsesEmail, UsesRole, UsesPassword
  <2> QED BY <1>3, <2>1 DEF CreateInsert
<1>4. CASE UpdatePassword(r) /\ ~UNCHANGED user
  <2> DEFINE u == req[r].user
             row == [user[u] EXCEPT !.pw = req[r].pw]
  <2>1. u \in UserId /\ req[r].pw \in Password
    BY <1>0, <1>4 DEF UpdatePassword, JobOK, UsesUser, UsesPassword
  <2>2. Present(u) /\ user' = [user EXCEPT ![u] = row] /\ UNCHANGED lastAdmin
    BY <1>4 DEF UpdatePassword
  <2>3. UserOK(row) /\ row.state = "present" /\ row.role = user[u].role
    BY <1>0, <2>1, <2>2 DEF UserOK, UserRow, Present
  <2> QED BY <2>1, <2>2, <2>3
<1>5. CASE RoleUpdate(r) /\ ~UNCHANGED user
  <2> DEFINE u == req[r].user
             row == [user[u] EXCEPT !.role = req[r].role]
  <2>1. u \in UserId /\ req[r].role \in Role
    BY <1>0, <1>5 DEF RoleUpdate, JobOK, UsesUser, UsesRole
  <2>2. Present(u) /\ user' = [user EXCEPT ![u] = row] /\ NoteAdmins
    BY <1>5 DEF RoleUpdate
  <2>3. UserOK(row) /\ row.state = "present"
    BY <1>0, <2>1, <2>2 DEF UserOK, UserRow, Present
  <2> QED BY <2>1, <2>2, <2>3
<1>6. CASE DeleteUserRow(r) /\ ~UNCHANGED user
  <2>1. req[r].user \in UserId
    BY <1>0, <1>6 DEF DeleteUserRow, JobOK, UsesUser
  <2> QED BY <1>6, <2>1 DEF DeleteUserRow, history
<1>7. ASSUME Issue(r) \/ RefreshRevoke(r) \/ RevokeAll(r) \/ RevocationFails(r) \/ DeleteTokens(r)
      PROVE  UNCHANGED user /\ UNCHANGED lastAdmin
  BY <1>7 DEF Issue, RefreshRevoke, RevokeAll, RevocationFails, DeleteTokens, history, tables
<1>8. UNCHANGED user => NoteAdmins \/ UNCHANGED lastAdmin
  BY DEF Write, Issue, RegisterInsert, RefreshRevoke, RevokeAll, RevocationFails, DeleteTokens,
         UpdatePassword, RoleUpdate, DeleteUserRow, CreateInsert, InsertUser, history
<1> QED BY <1>1, <1>2, <1>3, <1>4, <1>5, <1>6, <1>7, <1>8 DEF Write

\* What a write may do to refresh_tokens: issue one to a present user, or
\* revoke or delete rows.
LEMMA WriteTokens ==
  ASSUME TypeOK, NEW r \in Req, Write(r)
  PROVE  /\ TokensOK'
         /\ \/ \A t \in Token : RowExists(t)' => RowExists(t) /\ token'[t].user = token[t].user
            \/ /\ Present(req[r].user) /\ req[r].user \in UserId /\ UNCHANGED <<user, saved>>
               /\ \A t \in Token : RowExists(t)' => \/ RowExists(t) /\ token'[t].user = token[t].user
                                                    \/ token'[t].user = req[r].user
<1>0. TokensOK /\ JobOK(req[r]) /\ clock \in Nat /\ req[r] \in Request
  BY TypeOKParts DEF RequestsOK, ClaimsOK, JobOK
<1>1. CASE UNCHANGED token
  BY <1>0, <1>1 DEF TokensOK, RowExists
<1>2. CASE Issue(r) /\ ~UNCHANGED token
  <2> DEFINE u == req[r].user
             row == [state |-> "valid", user |-> u, exp |-> clock + RefreshTTL,
                     from |-> req[r].token, pw |-> req[r].pw]
  <2>1. u \in UserId /\ Present(u)
    BY <1>0, <1>2 DEF Issue, JobOK, UsesUser
  <2>2. PICK t \in FreshToken : token' = [token EXCEPT ![t] = row]
    BY <1>2 DEF Issue
  <2>3. t \in Token /\ token \in [Token -> TokenRow]
    BY <1>0, <2>2 DEF FreshToken, TokensOK
  <2>4. TokenOK(row)
    BY <1>0, <2>1 DEF TokenOK, TokenRow, Request
  <2>5. token'[t] = row /\ \A s \in Token \ {t} : token'[s] = token[s]
    BY <2>2, <2>3
  <2>6. token' = [s \in Token |-> token'[s]]
    BY <2>2, <2>3
  <2>7. TokensOK'
    BY <1>0, <2>4, <2>5, <2>6, SomeTokensOK DEF TokensOK
  <2>8. UNCHANGED <<user, saved>>
    BY <1>2 DEF Issue
  <2> QED BY <2>1, <2>5, <2>7, <2>8 DEF RowExists
<1>3. CASE RefreshRevoke(r)
  <2>1. req[r].token \in Token /\ RevokeToken(req[r].token)
    BY <1>0, <1>3 DEF RefreshRevoke, JobOK
  <2> QED BY <1>0, <2>1, RevokeTokenOK
<1>4. CASE RevokeAll(r) \/ DeleteTokens(r)
  <2>1. DeleteTokensOf(req[r].user)
    BY <1>4 DEF RevokeAll, DeleteTokens
  <2>2. TokensOK' /\ \A t \in Token : token'[t] = token[t] \/ token'[t].state = "deleted"
    BY <1>0, <2>1, DeleteTokensOK
  <2> QED BY <2>2 DEF RowExists
<1>5. ASSUME \/ RegisterInsert(r) \/ UpdatePassword(r) \/ RevocationFails(r)
             \/ RoleUpdate(r) \/ DeleteUserRow(r) \/ CreateInsert(r)
      PROVE  UNCHANGED token
  BY <1>5 DEF RegisterInsert, UpdatePassword, RevocationFails, RoleUpdate, DeleteUserRow,
              CreateInsert, tables
<1> QED BY <1>1, <1>2, <1>3, <1>4, <1>5 DEF Write

\* What a start of the program does: promote, provision, clean, forget requests.
LEMMA RestartTables ==
  ASSUME TypeOK, Restart
  PROVE  /\ UsersOK' /\ TokensOK' /\ settled' \subseteq UserId
         /\ \A u \in UserId : Present(u) => Present(u)'
         /\ \A t \in Token : RowExists(t)' => RowExists(t) /\ token'[t].user = token[t].user
         /\ \A r \in Req : \/ req'[r] = req[r] /\ req[r].at \in CliSteps
                           \/ req'[r] = Idle
         /\ req' = [r \in Req |-> req'[r]]
<1>0. UsersOK /\ TokensOK /\ HistoryOK
  BY TypeOKParts
<1> DEFINE rows == PromoteFirst(user)
           provision == Provisions
                          /\ \A u \in UserId : ~(rows[u].state = "present" /\ rows[u].email = AdminEmail)
           new == IF provision THEN FreshUser ELSE {}
<1>1. \A u \in UserId : user'[u] = IF u \in new THEN ProvisionedRow ELSE rows[u]
  BY DEF Restart
<1>2. \A u \in UserId : UserOK(user'[u]) /\ (Present(u) => Present(u)')
  <2> SUFFICES ASSUME NEW u \in UserId PROVE UserOK(user'[u]) /\ (Present(u) => Present(u)')
    OBVIOUS
  <2>1. CASE u \in new
    <3>1. Provisions /\ user'[u] = ProvisionedRow
      BY <1>1, <2>1
    <3> QED BY <3>1, ProvisionedRowOK DEF ProvisionedRow, Present
  <2>2. CASE u \notin new
    BY <1>0, <1>1, <2>2, PromoteFirstOK DEF Present
  <2> QED BY <2>1, <2>2
<1>3. user' = [u \in UserId |-> user'[u]]
  BY DEF Restart
<1>4. UsersOK'
  BY <1>2, <1>3 DEF UsersOK, UserOK
<1>5. \A t \in Token : TokenOK(Deleted(t)) /\ Deleted(t).state = "deleted"
  BY <1>0 DEF TokensOK, TokenOK, TokenRow, Deleted, NoToken
<1>6. \A t \in Token : token'[t] = token[t] \/ token'[t] = Deleted(t)
  BY DEF Restart
<1>7. token' = [t \in Token |-> token'[t]]
  BY DEF Restart
<1>8. TokensOK'
  BY <1>0, <1>5, <1>6, <1>7, SomeTokensOK DEF TokensOK
<1>9. \A t \in Token : RowExists(t)' => RowExists(t) /\ token'[t].user = token[t].user
  BY <1>5, <1>6 DEF RowExists
<1>10. settled' \subseteq UserId
  BY <1>0, FreshUserOK DEF Restart, HistoryOK
<1>11. \A r \in Req : (req'[r] = req[r] /\ req[r].at \in CliSteps) \/ req'[r] = Idle
  BY DEF Restart
<1>12. req' = [r \in Req |-> req'[r]]
  BY DEF Restart
<1> QED BY <1>2, <1>4, <1>8, <1>9, <1>10, <1>11, <1>12

\* The start of the other process: promote, and look for the account.
LEMMA CliStartTables ==
  ASSUME TypeOK, NEW r \in Req, NEW e \in Email, NEW p \in Password, CliStart(r, e, p)
  PROVE  /\ UsersOK' /\ RequestsOK' /\ NoteAdmins
         /\ req'[r].at = "cliFind" /\ \A q \in Req \ {r} : req'[q] = req[q]
         /\ \A u \in UserId : Present(u) => Present(u)'
         /\ UNCHANGED <<token, saved, claims, clock, settled, selfRegistered>>
<1>0. UsersOK /\ RequestsOK
  BY TypeOKParts
<1>1. user' = PromoteFirst(user)
  BY DEF CliStart
<1>2. \A u \in UserId : UserOK(user'[u]) /\ (Present(u) => Present(u)')
  BY <1>0, <1>1, PromoteFirstOK DEF Present
<1>3. UsersOK'
  <2>1. user' = [u \in UserId |-> user'[u]]
    BY <1>1 DEF PromoteFirst
  <2> QED BY <1>2, <2>1 DEF UsersOK, UserOK
<1> DEFINE job == [Idle EXCEPT !.at = "cliFind", !.email = e, !.pw = p]
<1>4. JobOK(job) /\ job.at = "cliFind"
  BY DEF JobOK, Idle, Request, Steps, CliSteps, ErrorReturns, RevokeAllSteps,
         UsesUser, UsesEmail, UsesRole, UsesPassword
<1>5. Goto(r, job)
  BY DEF CliStart
<1>6. RequestsOK' /\ req'[r] = job /\ \A q \in Req \ {r} : req'[q] = req[q]
  BY <1>0, <1>4, <1>5, GotoOK
<1> QED BY <1>2, <1>3, <1>4, <1>6 DEF CliStart

\* What a write leaves of the claims and of the history.
LEMMA WriteRest ==
  ASSUME TypeOK, NEW r \in Req, Write(r)
  PROVE  /\ ClaimsOK' /\ HistoryOK' /\ UNCHANGED <<saved, clock>>
         /\ \/ UNCHANGED claims
            \/ /\ req[r].at = "issue" /\ req[r].user \in UserId
               /\ claims' = claims \cup {[user |-> req[r].user, role |-> req[r].role, exp |-> AccessExpiry]}
               /\ UNCHANGED <<user, lastAdmin>>
<1>0. JobOK(req[r]) /\ ClaimsOK /\ HistoryOK /\ clock \in Nat /\ FreshUser \subseteq UserId
  BY TypeOKParts, FreshUserOK DEF RequestsOK, ClaimsOK
<1>1. \/ UNCHANGED claims
      \/ /\ req[r].at = "issue"
         /\ claims' = claims \cup {[user |-> req[r].user, role |-> req[r].role, exp |-> AccessExpiry]}
         /\ UNCHANGED <<user, lastAdmin>>
  BY DEF Write, Issue, RegisterInsert, RefreshRevoke, RevokeAll, RevocationFails, DeleteTokens,
         UpdatePassword, RoleUpdate, DeleteUserRow, CreateInsert, history
<1>2. UNCHANGED <<saved, clock>>
  BY DEF Write, Issue, RegisterInsert, RefreshRevoke, RevokeAll, RevocationFails, DeleteTokens,
         UpdatePassword, RoleUpdate, DeleteUserRow, CreateInsert, tables
<1>3. req[r].at = "issue" =>
        /\ req[r].user \in UserId
        /\ [user |-> req[r].user, role |-> req[r].role, exp |-> AccessExpiry] \in Claim
  BY <1>0 DEF JobOK, UsesUser, UsesRole, Claim, AccessExpiry
<1>4. ClaimsOK'
  BY <1>0, <1>1, <1>2, <1>3 DEF ClaimsOK
<1>5. lastAdmin' \in [UserId -> Int]
  BY <1>0, NoteAdminsOK
     DEF Write, Issue, RegisterInsert, RefreshRevoke, RevokeAll, RevocationFails, DeleteTokens,
         UpdatePassword, RoleUpdate, DeleteUserRow, CreateInsert, InsertUser, history, HistoryOK
<1>6. selfRegistered' \subseteq UserId
  BY <1>0 DEF Write, Issue, RegisterInsert, RefreshRevoke, RevokeAll, RevocationFails, DeleteTokens,
         UpdatePassword, RoleUpdate, DeleteUserRow, CreateInsert, history, HistoryOK
<1>7. req[r].at \in {"changeRevokeAll", "cliRevokeAll", "changeUpdate", "cliUpdate"} => req[r].user \in UserId
  BY <1>0 DEF JobOK, UsesUser, RevokeAllSteps
<1>8. settled' \subseteq UserId
  <2>1. CASE Issue(r) \/ RefreshRevoke(r) \/ RoleUpdate(r) \/ DeleteTokens(r) \/ DeleteUserRow(r)
    BY <1>0, <2>1 DEF Issue, RefreshRevoke, RoleUpdate, DeleteTokens, DeleteUserRow, history, HistoryOK
  <2>2. CASE RegisterInsert(r) \/ CreateInsert(r)
    BY <1>0, <2>2 DEF RegisterInsert, CreateInsert, InsertUser, history, HistoryOK
  <2>3. CASE UpdatePassword(r)
    BY <1>0, <2>3 DEF UpdatePassword, HistoryOK
  <2>4. CASE RevokeAll(r) \/ RevocationFails(r)
    BY <1>0, <1>7, <2>4 DEF RevokeAll, RevocationFails, RevokeAllSteps, HistoryOK
  <2> QED BY <2>1, <2>2, <2>3, <2>4 DEF Write
<1> QED BY <1>1, <1>2, <1>3, <1>4, <1>5, <1>6, <1>8 DEF HistoryOK

\* Typing is inductive: NOT NULL columns stay filled, and no request reaches a
\* statement without what the statement needs, in any interleaving.
THEOREM AuthTyped == Spec => []TypeOK
<1>1. Init => TypeOK
  <2> SUFFICES ASSUME Init PROVE TypeOK
    OBVIOUS
  <2>1. UsersOK
    <3>1. UserOK(NoUser)
      BY DEF UserOK, NoUser, UserRow
    <3>2. \A u \in UserId : UserOK(user[u])
      BY <3>1, ProvisionedRowOK DEF Init, Provisioned
    <3>3. user = [u \in UserId |-> user[u]]
      BY DEF Init
    <3> QED BY <3>2, <3>3 DEF UsersOK, UserOK
  <2>2. TokensOK
    BY DEF Init, TokensOK, TokenOK, TokenRow, NoToken
  <2>3. RequestsOK
    BY IdleOK DEF Init, RequestsOK, JobOK
  <2>4. ClaimsOK /\ HistoryOK
    BY DEF Init, ClaimsOK, HistoryOK
  <2> QED BY <2>1, <2>2, <2>3, <2>4, TypeOKParts
<1>2. TypeOK /\ [Next]_vars => TypeOK'
  <2> SUFFICES ASSUME TypeOK, [Next]_vars PROVE TypeOK'
    OBVIOUS
  <2>0. UsersOK /\ TokensOK /\ RequestsOK /\ ClaimsOK /\ HistoryOK
    BY TypeOKParts
  <2>1. (UsersOK' /\ TokensOK' /\ RequestsOK' /\ ClaimsOK' /\ HistoryOK') => TypeOK'
    BY TypeOKParts, PTL
  <2>2. /\ UNCHANGED user => UsersOK'
        /\ UNCHANGED token => TokensOK'
        /\ UNCHANGED <<saved, claims, clock>> => ClaimsOK'
        /\ UNCHANGED history => HistoryOK'
        /\ UNCHANGED req => RequestsOK'
    BY <2>0 DEF UsersOK, UserOK, TokensOK, TokenOK, ClaimsOK, HistoryOK, history, RequestsOK, JobOK
  <2>3. ASSUME NEW r \in Req, NEW job, Read(r, job) PROVE TypeOK'
    BY <2>0, <2>1, <2>2, <2>3, GotoOK DEF Read, tables
  <2>4. ASSUME NEW r \in Req, NEW e \in Email, NEW p \in Password, CliStart(r, e, p) PROVE TypeOK'
    <3>1. HistoryOK'
      BY <2>0, <2>4, CliStartTables, NoteAdminsOK DEF HistoryOK, ClaimsOK
    <3> QED BY <2>1, <2>2, <2>4, <3>1, CliStartTables
  <2>5. ASSUME NEW r \in Req, NEW t \in Token, Logout(r, t) PROVE TypeOK'
    BY <2>0, <2>1, <2>2, <2>5, RevokeTokenOK DEF Logout
  <2>6. ASSUME NEW r \in Req, NEW c \in claims, SaveConnection(r, c) \/ DeleteConnection(r, c)
        PROVE  TypeOK'
    <3>1. c.user \in UserId
      BY <2>0 DEF ClaimsOK, Claim
    <3>2. ClaimsOK'
      BY <2>0, <2>6, <3>1 DEF SaveConnection, DeleteConnection, ClaimsOK
    <3> QED BY <2>0, <2>1, <2>2, <2>6, <3>2 DEF SaveConnection, DeleteConnection
  <2>7. ASSUME NEW r \in Req, Write(r) PROVE TypeOK'
    <3>1. RequestsOK'
      BY <2>0, <2>7, WriteGoto, GotoOK
    <3>2. TokensOK' /\ ClaimsOK' /\ HistoryOK'
      BY <2>7, WriteTokens, WriteRest
    <3>3. UsersOK'
      <4>1. ASSUME NEW u \in UserId, NEW row, UserOK(row), user' = [user EXCEPT ![u] = row]
            PROVE  UsersOK'
        BY <2>0, <4>1, OneUserOK
      <4>2. ASSUME NEW u \in FreshUser, NEW e \in Email, NEW ro \in Role, NEW p \in Password,
                   InsertUser(u, e, ro, p)
            PROVE  UsersOK'
        <5>1. UserOK([state |-> "present", email |-> e, role |-> ro, pw |-> p])
          BY DEF UserOK, UserRow
        <5> QED BY <4>1, <4>2, <5>1, FreshUserOK DEF InsertUser
      <4>3. UserOK([NoUser EXCEPT !.state = "deleted"])
        BY DEF UserOK, NoUser, UserRow
      <4> QED BY <2>2, <2>7, <4>1, <4>2, <4>3, WriteUsers
    <3> QED BY <2>1, <3>1, <3>2, <3>3
  <2>8. CASE Restart
    <3>1. ClaimsOK' /\ HistoryOK'
      BY <2>0, <2>8, RestartTables, NoteAdminsOK DEF Restart, ClaimsOK, HistoryOK
    <3>2. RequestsOK'
      <4>1. \A r \in Req : JobOK(req'[r])
        BY <2>0, <2>8, RestartTables, IdleOK DEF RequestsOK
      <4> QED BY <2>8, <4>1, RestartTables DEF RequestsOK, JobOK
    <3> QED BY <2>1, <2>8, <3>1, <3>2, RestartTables
  <2>9. CASE Tick
    <3>1. ClaimsOK' /\ HistoryOK'
      BY <2>0, <2>9 DEF Tick, ClaimsOK, HistoryOK, tables
    <3> QED BY <2>1, <2>2, <2>9, <3>1 DEF Tick, tables
  <2>10. CASE UNCHANGED vars
    BY <2>1, <2>2, <2>10 DEF vars, tables, history
  <2> QED BY StepCases, <2>3, <2>4, <2>5, <2>6, <2>7, <2>8, <2>9, <2>10
<1> QED BY <1>1, <1>2, PTL DEF Spec

---------------------------------------------------------------------------
\* The foreign keys hold whatever overlaps DeleteUser: it is inductive as it
\* stands, because every statement that refers to a user looks for it, and the one
\* that deletes a user looks for what refers to it.
THEOREM AuthNoOrphanSession == Spec => []NoOrphanSession
<1>1. Init => NoOrphanSession
  BY DEF Init, NoOrphanSession, RowExists, NoToken
<1>2. TypeOK /\ NoOrphanSession /\ [Next]_vars => NoOrphanSession'
  <2> SUFFICES ASSUME TypeOK, NoOrphanSession, [Next]_vars PROVE NoOrphanSession'
    OBVIOUS
  <2>0. UsersOK /\ TokensOK /\ ClaimsOK
    BY TypeOKParts
  <2>1. ASSUME \A u \in UserId : Present(u) => Present(u)',
               \A t \in Token : RowExists(t)' => RowExists(t) /\ token'[t].user = token[t].user,
               saved' \subseteq saved
        PROVE  NoOrphanSession'
    BY <2>0, <2>1 DEF NoOrphanSession, TokensOK, TokenOK, RowExists, ClaimsOK
  <2>2. ASSUME NEW r \in Req, NEW job, Read(r, job) PROVE NoOrphanSession'
    BY <2>1, <2>2 DEF Read, tables, Present, RowExists
  <2>3. ASSUME NEW r \in Req, NEW e \in Email, NEW p \in Password, CliStart(r, e, p)
        PROVE  NoOrphanSession'
    BY <2>1, <2>3, CliStartTables DEF RowExists
  <2>4. ASSUME NEW r \in Req, NEW t \in Token, Logout(r, t) PROVE NoOrphanSession'
    BY <2>0, <2>1, <2>4, RevokeTokenOK DEF Logout, Present
  <2>5. ASSUME NEW r \in Req, NEW c \in claims, SaveConnection(r, c) \/ DeleteConnection(r, c)
        PROVE  NoOrphanSession'
    <3>1. Present(c.user) \/ saved' \subseteq saved
      BY <2>5 DEF SaveConnection, DeleteConnection
    <3> QED BY <2>5, <3>1 DEF SaveConnection, DeleteConnection, NoOrphanSession, Present, RowExists
  <2>6. ASSUME NEW r \in Req, Write(r) PROVE NoOrphanSession'
    <3>0. UNCHANGED saved /\ user \in [UserId -> UserRow] /\ FreshUser \subseteq UserId
      BY <2>0, <2>6, WriteRest, FreshUserOK DEF UsersOK
    <3>1. CASE /\ Present(req[r].user) /\ UNCHANGED <<user, saved>>
               /\ \A t \in Token : RowExists(t)' => \/ RowExists(t) /\ token'[t].user = token[t].user
                                                    \/ token'[t].user = req[r].user
      BY <3>1 DEF NoOrphanSession, Present
    <3>2. CASE \A t \in Token : RowExists(t)' => RowExists(t) /\ token'[t].user = token[t].user
      <4>1. CASE \E u \in UserId :
                   /\ TokensOf(u) = {} /\ u \notin saved
                   /\ user' = [user EXCEPT ![u] = [NoUser EXCEPT !.state = "deleted"]]
                   /\ UNCHANGED <<token, saved, lastAdmin>>
        <5>1. PICK u \in UserId :
                /\ TokensOf(u) = {} /\ u \notin saved
                /\ user' = [user EXCEPT ![u] = [NoUser EXCEPT !.state = "deleted"]]
                /\ UNCHANGED <<token, saved, lastAdmin>>
          BY <4>1
        <5>2. \A v \in UserId \ {u} : Present(v) => Present(v)'
          BY <3>0, <5>1 DEF Present
        <5>3. \A t \in Token : RowExists(t) => token[t].user # u
          BY <5>1 DEF TokensOf
        <5> QED BY <2>0, <5>1, <5>2, <5>3
                DEF NoOrphanSession, TokensOK, TokenOK, RowExists, ClaimsOK
      <4>2. ASSUME NEW u \in UserId, NEW row, row.state = "present",
                   user' = [user EXCEPT ![u] = row]
            PROVE  NoOrphanSession'
        <5>1. \A v \in UserId : Present(v) => Present(v)'
          BY <3>0, <4>2 DEF Present
        <5> QED BY <2>1, <3>0, <3>2, <5>1
      <4>3. ASSUME NEW u \in FreshUser, NEW e \in Email, NEW ro \in Role, NEW p \in Password,
                   InsertUser(u, e, ro, p)
            PROVE  NoOrphanSession'
        BY <3>0, <4>2, <4>3 DEF InsertUser
      <4>4. UNCHANGED user => NoOrphanSession'
        BY <2>1, <3>0, <3>2 DEF Present
      <4> QED BY <2>6, <4>1, <4>2, <4>3, <4>4, WriteUsers
    <3> QED BY <2>6, <3>1, <3>2, WriteTokens
  <2>7. CASE Restart
    BY <2>1, <2>7, RestartTables DEF Restart
  <2>8. CASE Tick \/ UNCHANGED vars
    BY <2>1, <2>8 DEF Tick, vars, tables, Present, RowExists
  <2> QED BY StepCases, <2>2, <2>3, <2>4, <2>5, <2>6, <2>7, <2>8
<1> QED BY AuthTyped, <1>1, <1>2, PTL DEF Spec

---------------------------------------------------------------------------
(* Why nobody acts as an admin for long after a demotion. *)

\* What the table says of admins is in the history.
AdminsNoted == \A u \in UserId : /\ lastAdmin[u] <= clock
                                 /\ IsAdmin(user[u]) => lastAdmin[u] = clock

\* A request about to sign the claim of an admin read that role this very tick.
SignersFresh ==
  \A r \in Req : req[r].at = "issue" /\ req[r].role = "admin" => lastAdmin[req[r].user] = clock

\* A claim is dated from a tick in which the user was an admin.
ClaimFresh(c) ==
  c.exp > clock /\ (c.role = "admin" => c.exp <= lastAdmin[c.user] + AccessTTL)

AuthorityFresh == AdminsNoted /\ SignersFresh /\ \A c \in claims : ClaimFresh(c)

\* The history of a user who was last an admin does not change unless the user
\* is one again.
LEMMA NoteAdminsFresh ==
  ASSUME UsersOK, HistoryOK, UNCHANGED clock, clock \in Nat, AdminsNoted,
         NoteAdmins \/ (UNCHANGED lastAdmin /\ \A u \in UserId : IsAdmin(user'[u]) => IsAdmin(user[u]))
  PROVE  /\ AdminsNoted'
         /\ \A u \in UserId : lastAdmin'[u] = clock \/ lastAdmin'[u] = lastAdmin[u]
         /\ \A u \in UserId : /\ lastAdmin[u] \in Int /\ lastAdmin'[u] \in Int
                              /\ lastAdmin[u] <= lastAdmin'[u]
<1>1. \A u \in UserId : lastAdmin[u] \in Int /\ lastAdmin[u] <= clock
  BY DEF AdminsNoted, HistoryOK
<1>2. CASE NoteAdmins
  BY <1>1, <1>2 DEF NoteAdmins, AdminsNoted, IsAdmin
<1>3. CASE UNCHANGED lastAdmin /\ \A u \in UserId : IsAdmin(user'[u]) => IsAdmin(user[u])
  <2>1. lastAdmin' = lastAdmin /\ clock' = clock
    BY <1>3
  <2>2. ASSUME NEW u \in UserId PROVE IsAdmin(user'[u]) => lastAdmin[u] = clock
    BY <1>3 DEF AdminsNoted
  <2>3. AdminsNoted'
    BY <1>1, <2>1, <2>2 DEF AdminsNoted, IsAdmin
  <2> QED BY <1>1, <2>1, <2>3
<1> QED BY <1>2, <1>3

\* Every step keeps the claims, and those about to be signed, fresh.
LEMMA FreshKept ==
  ASSUME TypeOK, AuthorityFresh, UNCHANGED clock,
         NoteAdmins \/ (UNCHANGED lastAdmin /\ \A u \in UserId : IsAdmin(user'[u]) => IsAdmin(user[u])),
         claims' \subseteq claims,
         \A r \in Req : req'[r].at = "issue" /\ req'[r].role = "admin" =>
                          \/ req'[r] = req[r]
                          \/ req'[r].user \in UserId /\ IsAdmin(user'[req'[r].user])
  PROVE  AuthorityFresh'
<1>0. UsersOK /\ HistoryOK /\ clock \in Nat /\ ClaimsOK /\ RequestsOK
  BY TypeOKParts DEF ClaimsOK
<1>1. /\ AdminsNoted'
      /\ \A u \in UserId : lastAdmin'[u] = clock \/ lastAdmin'[u] = lastAdmin[u]
      /\ \A u \in UserId : /\ lastAdmin[u] \in Int /\ lastAdmin'[u] \in Int
                           /\ lastAdmin[u] <= lastAdmin'[u]
  BY <1>0, NoteAdminsFresh DEF AuthorityFresh
<1>2. \A r \in Req : req[r].at = "issue" => req[r].user \in UserId
  BY <1>0 DEF RequestsOK, JobOK, UsesUser
<1>3. SignersFresh'
  <2> SUFFICES ASSUME NEW r \in Req, req'[r].at = "issue", req'[r].role = "admin"
               PROVE  lastAdmin'[req'[r].user] = clock
    BY DEF SignersFresh
  <2>1. CASE req'[r] = req[r]
    BY <1>1, <1>2, <2>1 DEF AuthorityFresh, SignersFresh
  <2>2. CASE req'[r].user \in UserId /\ IsAdmin(user'[req'[r].user])
    BY <1>1, <2>2 DEF AdminsNoted
  <2> QED BY <2>1, <2>2
<1>4. ASSUME NEW c \in claims' PROVE ClaimFresh(c)'
  <2>1. c \in claims /\ c \in Claim
    BY <1>0 DEF ClaimsOK
  <2>2. ClaimFresh(c)
    BY <2>1 DEF AuthorityFresh
  <2>3. lastAdmin[c.user] \in Int /\ lastAdmin'[c.user] \in Int /\ lastAdmin[c.user] <= lastAdmin'[c.user]
    BY <1>1, <2>1 DEF Claim
  <2>4. c.exp \in Nat
    BY <2>1 DEF Claim
  <2> QED BY <2>2, <2>3, <2>4 DEF ClaimFresh
<1> QED BY <1>1, <1>3, <1>4 DEF AuthorityFresh

\* Access tokens are not looked up, so a demoted or deleted admin stays one
\* until they expire; never longer, whatever refreshes and logins overlap.
THEOREM AuthStaleAuthorityBounded == Spec => []StaleAuthorityBounded
<1>1. Init => AuthorityFresh
  <2> SUFFICES ASSUME Init PROVE AuthorityFresh
    OBVIOUS
  <2>1. AdminsNoted
    BY DEF Init, AdminsNoted, IsAdmin, NoUser
  <2> QED BY <2>1, IdleOK DEF Init, AuthorityFresh, SignersFresh
<1>2. TypeOK /\ TypeOK' /\ AuthorityFresh /\ [Next]_vars => AuthorityFresh'
  <2> SUFFICES ASSUME TypeOK, TypeOK', AuthorityFresh, [Next]_vars PROVE AuthorityFresh'
    OBVIOUS
  <2>0. UsersOK /\ TokensOK /\ RequestsOK /\ ClaimsOK /\ HistoryOK /\ clock \in Nat
    BY TypeOKParts DEF ClaimsOK
  <2>1. ASSUME NEW r \in Req, NEW job, Read(r, job) PROVE AuthorityFresh'
    <3>1. req'[r] = job /\ \A q \in Req \ {r} : req'[q] = req[q]
      BY <2>0, <2>1, GotoOK DEF Read
    <3>2. job.at = "issue" => job.user \in UserId
      BY <2>1 DEF Read, JobOK, UsesUser
    <3> QED BY <2>1, <3>1, <3>2, FreshKept DEF Read, tables, history
  <2>2. ASSUME NEW r \in Req, NEW e \in Email, NEW p \in Password, CliStart(r, e, p)
        PROVE  AuthorityFresh'
    BY <2>2, CliStartTables, FreshKept
  <2>3. ASSUME NEW r \in Req, NEW t \in Token, Logout(r, t) PROVE AuthorityFresh'
    BY <2>3, FreshKept DEF Logout, history
  <2>4. ASSUME NEW r \in Req, NEW c \in claims, SaveConnection(r, c) \/ DeleteConnection(r, c)
        PROVE  AuthorityFresh'
    BY <2>4, FreshKept DEF SaveConnection, DeleteConnection, history
  <2>5. ASSUME NEW r \in Req, Write(r) PROVE AuthorityFresh'
    <3>1. PICK job : /\ JobOK(job) /\ Goto(r, job)
                     /\ job.at = "issue" =>
                          \/ RegisterInsert(r) /\ job.role = req[r].role /\ job.user \in FreshUser
                                               /\ ~EmailTaken(req[r].email)
                                               /\ InsertUser(job.user, req[r].email, job.role, req[r].pw)
      BY <2>5, WriteGoto
    <3>2. req'[r] = job /\ \A q \in Req \ {r} : req'[q] = req[q]
      BY <2>0, <3>1, GotoOK
    <3>3. job.at = "issue" /\ job.role = "admin" => job.user \in UserId /\ IsAdmin(user'[job.user])
      <4> SUFFICES ASSUME job.at = "issue", job.role = "admin"
                   PROVE  job.user \in UserId /\ IsAdmin(user'[job.user])
        OBVIOUS
      <4>1. job.user \in UserId
        BY <3>1, FreshUserOK
      <4>2. user'[job.user] = [state |-> "present", email |-> req[r].email,
                               role |-> job.role, pw |-> req[r].pw]
        BY <2>0, <3>1, <4>1 DEF InsertUser, UsersOK
      <4> QED BY <4>1, <4>2 DEF IsAdmin
    <3>4. UNCHANGED clock
      BY <2>5, WriteRest
    <3>5. NoteAdmins \/ (UNCHANGED lastAdmin /\ \A u \in UserId : IsAdmin(user'[u]) => IsAdmin(user[u]))
      BY <2>0, <2>5, WriteUsers DEF InsertUser, UsersOK, IsAdmin, NoUser, Present
    <3>6. CASE UNCHANGED claims
      BY <3>2, <3>3, <3>4, <3>5, <3>6, FreshKept
    <3>7. CASE /\ req[r].at = "issue" /\ req[r].user \in UserId
               /\ claims' = claims \cup {[user |-> req[r].user, role |-> req[r].role, exp |-> AccessExpiry]}
               /\ UNCHANGED <<user, lastAdmin>>
      <4>1. AdminsNoted' /\ SignersFresh'
        <5>1. job.at = "issue" /\ job.role = "admin" => lastAdmin[job.user] = clock
          BY <3>3, <3>7 DEF AuthorityFresh, AdminsNoted
        <5> QED BY <3>2, <3>4, <3>7, <5>1 DEF AuthorityFresh, AdminsNoted, SignersFresh
      <4>2. ASSUME NEW c \in claims' PROVE ClaimFresh(c)'
        <5>1. CASE c \in claims
          BY <3>4, <3>7, <5>1 DEF AuthorityFresh, ClaimFresh
        <5>2. CASE c = [user |-> req[r].user, role |-> req[r].role, exp |-> AccessExpiry]
          <6>1. c.exp = clock + AccessTTL /\ c.user = req[r].user /\ c.role = req[r].role
            BY <5>2 DEF AccessExpiry
          <6>2. c.role = "admin" => lastAdmin'[c.user] = clock
            BY <3>7, <6>1 DEF AuthorityFresh, SignersFresh
          <6> QED BY <2>0, <3>4, <6>1, <6>2 DEF ClaimFresh
        <5> QED BY <3>7, <5>1, <5>2
      <4> QED BY <4>1, <4>2 DEF AuthorityFresh
    <3> QED BY <2>5, <3>6, <3>7, WriteRest
  <2>6. CASE Restart
    <3>1. UNCHANGED <<clock, claims>> /\ NoteAdmins
      BY <2>6 DEF Restart
    <3>2. \A r \in Req : req'[r].at = "issue" => req'[r] = req[r]
      BY <2>6, RestartTables, IdleOK
    <3> QED BY <3>1, <3>2, FreshKept
  <2>7. CASE Tick
    <3>1. /\ clock' = clock + 1 /\ UNCHANGED <<user, req>>
          /\ \A r \in Req : req[r].at # "issue"
          /\ claims' = {c \in claims : c.exp > clock'}
          /\ lastAdmin' = [u \in UserId |-> IF IsAdmin(user[u]) THEN clock' ELSE lastAdmin[u]]
      BY <2>7 DEF Tick, tables, Unexpired
    <3>2. AdminsNoted'
      BY <2>0, <3>1 DEF AuthorityFresh, AdminsNoted, HistoryOK
    <3>3. ASSUME NEW c \in claims' PROVE ClaimFresh(c)'
      <4>1. c \in claims /\ c \in Claim /\ ClaimFresh(c) /\ c.exp > clock'
        BY <2>0, <3>1 DEF ClaimsOK, AuthorityFresh
      <4>2. /\ lastAdmin[c.user] \in Int /\ lastAdmin'[c.user] \in Int
            /\ lastAdmin[c.user] <= lastAdmin'[c.user]
        <5>1. c.user \in UserId /\ lastAdmin[c.user] \in Int /\ lastAdmin[c.user] <= clock
          BY <2>0, <4>1 DEF Claim, HistoryOK, AuthorityFresh, AdminsNoted
        <5>2. lastAdmin'[c.user] \in {clock', lastAdmin[c.user]}
          BY <3>1, <5>1
        <5> QED BY <2>0, <3>1, <5>1, <5>2
      <4>3. c.exp \in Nat
        BY <4>1 DEF Claim
      <4> QED BY <4>1, <4>2, <4>3 DEF ClaimFresh
    <3> QED BY <3>1, <3>2, <3>3 DEF AuthorityFresh, SignersFresh
  <2>8. CASE UNCHANGED vars
    BY <2>8 DEF vars, AuthorityFresh, AdminsNoted, SignersFresh, ClaimFresh
  <2> QED BY StepCases, <2>1, <2>2, <2>3, <2>4, <2>5, <2>6, <2>7, <2>8
<1>3. TypeOK /\ AuthorityFresh => StaleAuthorityBounded
  <2> SUFFICES ASSUME TypeOK, AuthorityFresh, NEW c \in claims, c.role = "admin"
               PROVE  clock - lastAdmin[c.user] < AccessTTL
    BY DEF StaleAuthorityBounded
  <2>1. c \in Claim /\ clock \in Nat /\ lastAdmin \in [UserId -> Int]
    BY DEF TypeOK
  <2>2. c.exp \in Nat /\ lastAdmin[c.user] \in Int
    BY <2>1 DEF Claim
  <2>3. c.exp > clock /\ c.exp <= lastAdmin[c.user] + AccessTTL
    BY DEF AuthorityFresh, ClaimFresh
  <2> QED BY <2>1, <2>2, <2>3
<1> QED BY AuthTyped, <1>1, <1>2, <1>3, PTL DEF Spec

---------------------------------------------------------------------------
(* Why requests that overlap leave an admin, unless two of them take two   *)
(* accounts from the admins.                                               *)

Demotes(job) ==
  \/ job.at = "roleUpdate" /\ job.role = "readonly"
  \/ job.at \in {"deleteTokens", "deleteUser"}

Registering == {"registerFind", "registerInsert"}

\* No two requests are between the count of the admins and the write of two
\* different accounts.
DemotionsAgree ==
  \A r, q \in Req : Demotes(req[r]) /\ Demotes(req[q]) => req[r].user = req[q].user

\* A request about to demote or delete somebody leaves another admin.
Checked(job) == Demotes(job) => \E v \in UserId \ {job.user} : IsAdmin(user[v])

\* A request that will not add, change or delete an account.
Quiet(job) ==
  job.at \notin {"roleUpdate", "deleteTokens", "deleteUser", "createInsert"} \cup Registering

\* The first account will be an admin's.
First(job) == Quiet(job) \/ (job.at \in Registering /\ job.role = "admin")

\* Either there is an admin, or nobody has ever been there.
AdminOrNobody ==
  \/ \E u \in UserId : IsAdmin(user[u])
  \/ (\A u \in UserId : ~Present(u)) /\ claims = {} /\ \A r \in Req : First(req[r])

AdminKept == AdminOrNobody /\ \A r \in Req : Checked(req[r])

\* While there are claims, whoever may be demoted is not the only admin.
LEMMA NotLast ==
  ASSUME AdminKept, claims # {}, NEW u, ~LastAdmin(u)
  PROVE  \E v \in UserId \ {u} : IsAdmin(user[v])
<1>1. Admins # {} /\ Admins # {u}
  BY DEF AdminKept, AdminOrNobody, LastAdmin, Admins
<1>2. PICK v \in Admins : v # u
  BY <1>1
<1> QED BY <1>2 DEF Admins

\* A step that leaves users alone keeps the admin when the request it moves
\* has looked.
LEMMA MoveKeepsAdmin ==
  ASSUME RequestsOK, AdminKept, NEW r \in Req, NEW job, Goto(r, job),
         UNCHANGED user, claims' \subseteq claims,
         Checked(job),
         (\A u \in UserId : ~IsAdmin(user[u])) => First(job)
  PROVE  AdminKept'
<1>1. req'[r] = job /\ \A q \in Req \ {r} : req'[q] = req[q]
  BY DEF Goto, RequestsOK
<1>2. (\A q \in Req : Checked(req[q]))'
  BY <1>1 DEF AdminKept, Checked, Demotes
<1>3. CASE \E u \in UserId : IsAdmin(user[u])
  <2>1. AdminOrNobody'
    BY <1>3 DEF AdminOrNobody, IsAdmin
  <2> QED BY <1>2, <2>1 DEF AdminKept
<1>4. CASE ~\E u \in UserId : IsAdmin(user[u])
  <2>1. /\ \A u \in UserId : ~Present(u)
        /\ claims = {}
        /\ \A q \in Req : First(req'[q])
    BY <1>1, <1>4 DEF AdminKept, AdminOrNobody
  <2>2. AdminOrNobody'
    BY <2>1 DEF AdminOrNobody, Present, First, Quiet
  <2> QED BY <1>2, <2>2 DEF AdminKept
<1> QED BY <1>3, <1>4

\* So does one that takes no role away, whatever the requests it leaves in
\* flight are about to do.
LEMMA GrowthKeepsAdmin ==
  ASSUME AdminKept,
         \A u \in UserId : IsAdmin(user[u]) => IsAdmin(user'[u]),
         \A q \in Req : req'[q] = req[q] \/ Quiet(req'[q]),
         \/ \E u \in UserId : IsAdmin(user'[u])
         \/ (\A u \in UserId : user'[u].state # "present") /\ claims' = {}
  PROVE  AdminKept'
<1>1. ASSUME NEW q \in Req PROVE Checked(req[q])'
  <2>1. CASE Quiet(req'[q])
    BY <2>1 DEF Quiet, Checked, Demotes
  <2>2. CASE req'[q] = req[q] /\ Demotes(req[q])
    <3>1. PICK v \in UserId \ {req[q].user} : IsAdmin(user[v])
      BY <2>2 DEF AdminKept, Checked
    <3>2. IsAdmin(user'[v])
      BY <3>1
    <3> QED BY <2>2, <3>1, <3>2 DEF Checked, IsAdmin
  <2>3. CASE req'[q] = req[q] /\ ~Demotes(req[q])
    BY <2>3 DEF Checked, Demotes
  <2> QED BY <2>1, <2>2, <2>3
<1>2. CASE \E u \in UserId : IsAdmin(user'[u])
  <2>1. AdminOrNobody'
    BY <1>2 DEF AdminOrNobody, IsAdmin
  <2> QED BY <1>1, <2>1 DEF AdminKept
<1>3. CASE ~\E u \in UserId : IsAdmin(user'[u])
  <2>1. /\ \A u \in UserId : user'[u].state # "present"
        /\ claims' = {}
        /\ \A q \in Req : First(req'[q])
    BY <1>3 DEF AdminKept, AdminOrNobody, First
  <2>2. AdminOrNobody'
    BY <2>1 DEF AdminOrNobody, Present, First, Quiet
  <2> QED BY <1>1, <2>2 DEF AdminKept
<1> QED BY <1>2, <1>3

\* Where the handlers that start go.
LEMMA StartKeepsAdmin ==
  ASSUME TypeOK, AdminKept, NEW r \in Req, Start(r)
  PROVE  AdminKept'
<1>0. RequestsOK /\ UsersOK /\ ClaimsOK
  BY TypeOKParts
<1>1. ASSUME NEW job, Goto(r, job), UNCHANGED <<user, claims>>, Quiet(job)
      PROVE  AdminKept'
  <2>1. Checked(job) /\ First(job)
    BY <1>1 DEF Quiet, Checked, Demotes, First
  <2> QED BY <1>0, <1>1, <2>1, MoveKeepsAdmin
\* An admin handler runs on a claim, so somebody is there.
<1>2. ASSUME NEW job, Goto(r, job), UNCHANGED <<user, claims>>, Checked(job), NEW c \in claims
      PROVE  AdminKept'
  <2>1. \E u \in UserId : IsAdmin(user[u])
    BY DEF AdminKept, AdminOrNobody
  <2> QED BY <1>0, <1>2, <2>1, MoveKeepsAdmin
<1>3. ASSUME NEW e \in Email, NEW p \in Password, RegisterCount(r, e, p)
      PROVE  AdminKept'
  <2> DEFINE job == [Idle EXCEPT !.at = "registerFind", !.email = e, !.pw = p,
                       !.role = IF \A u \in UserId : ~Present(u) THEN "admin" ELSE "readonly"]
  <2>1. Checked(job)
    BY DEF Checked, Demotes, Idle
  <2>2. (\A u \in UserId : ~IsAdmin(user[u])) => First(job)
    BY DEF AdminKept, AdminOrNobody, First, Registering, Idle
  <2>3. Goto(r, job) /\ UNCHANGED <<user, claims>>
    BY <1>3 DEF RegisterCount, tables
  <2> HIDE DEF job
  <2> QED BY <1>0, <2>1, <2>2, <2>3, MoveKeepsAdmin
<1>4. ASSUME NEW u \in UserId, LoginFind(r, u)
      PROVE  AdminKept'
  <2>1. Quiet([Idle EXCEPT !.at = "issue", !.user = u, !.role = user[u].role, !.pw = user[u].pw])
    BY DEF Quiet, Registering, Idle
  <2> QED BY <1>1, <1>4, <2>1 DEF LoginFind, tables
<1>5. ASSUME NEW t \in Token, RefreshFind(r, t)
      PROVE  AdminKept'
  <2> DEFINE job == IF token[t].state = "valid"
             THEN [Idle EXCEPT !.at = "refreshRevoke", !.user = token[t].user, !.token = t,
                               !.pw = token[t].pw]
             ELSE [Idle EXCEPT !.at = "reuseRevokeAll", !.user = token[t].user]
  <2>1. Quiet(job)
    BY DEF Quiet, Registering, Idle
  <2>2. Goto(r, job) /\ UNCHANGED <<user, claims>>
    BY <1>5 DEF RefreshFind, tables
  <2> HIDE DEF job
  <2> QED BY <1>1, <2>1, <2>2
<1>6. ASSUME NEW c \in claims, NEW p \in Password, ChangeFind(r, c, p)
      PROVE  AdminKept'
  <2>1. Quiet([Idle EXCEPT !.at = "changeUpdate", !.user = c.user, !.pw = p])
    BY DEF Quiet, Registering, Idle
  <2> QED BY <1>1, <1>6, <2>1 DEF ChangeFind, tables
<1>7. ASSUME NEW c \in claims, NEW u \in UserId, DeleteList(r, c, u)
      PROVE  AdminKept'
  <2> DEFINE job == [Idle EXCEPT !.at = "deleteTokens", !.user = u]
  <2>1. job.user = u
    BY DEF Idle
  <2>2. Goto(r, job) /\ UNCHANGED <<user, claims>> /\ ~LastAdmin(u)
    BY <1>7 DEF DeleteList, tables
  <2> HIDE DEF job
  <2>3. Checked(job)
    BY <2>1, <2>2, NotLast DEF Checked
  <2> QED BY <1>2, <2>2, <2>3
<1>8. ASSUME NEW c \in claims, NEW u \in UserId, NEW ro \in Role, RoleList(r, c, u, ro)
      PROVE  AdminKept'
  <2> DEFINE job == [Idle EXCEPT !.at = "roleUpdate", !.user = u, !.role = ro]
  <2>1. job.user = u /\ (Demotes(job) => ro = "readonly")
    BY DEF Idle, Demotes
  <2>2. Goto(r, job) /\ UNCHANGED <<user, claims>> /\ (ro = "readonly" => ~LastAdmin(u))
    BY <1>8 DEF RoleList, tables
  <2> HIDE DEF job
  <2>3. Checked(job)
    BY <2>1, <2>2, NotLast DEF Checked
  <2> QED BY <1>2, <2>2, <2>3
<1>9. ASSUME NEW c \in claims, NEW e \in Email, NEW ro \in Role, NEW p \in Password,
             CreateFind(r, c, e, ro, p)
      PROVE  AdminKept'
  <2>1. Checked([Idle EXCEPT !.at = "createInsert", !.email = e, !.role = ro, !.pw = p])
    BY DEF Checked, Demotes, Idle
  <2> QED BY <1>2, <1>9, <2>1 DEF CreateFind, tables
<1>10. ASSUME NEW e \in Email, NEW p \in Password, CliStart(r, e, p)
       PROVE  AdminKept'
  <2>1. req'[r].at = "cliFind" /\ (\A q \in Req \ {r} : req'[q] = req[q]) /\ UNCHANGED claims
    BY <1>10, CliStartTables
  <2>2. \A q \in Req : req'[q] = req[q] \/ Quiet(req'[q])
    BY <2>1 DEF Quiet, Registering
  <2>3. \A u \in UserId : /\ IsAdmin(user[u]) => IsAdmin(user'[u])
                          /\ user'[u].state = user[u].state
    BY <1>0, <1>10, PromoteFirstOK DEF CliStart, IsAdmin
  <2>4. \/ \E u \in UserId : IsAdmin(user'[u])
        \/ (\A u \in UserId : user'[u].state # "present") /\ claims' = {}
    BY <2>1, <2>3 DEF AdminKept, AdminOrNobody, Present
  <2> QED BY <2>2, <2>3, <2>4, GrowthKeepsAdmin
<1>11. ASSUME UNCHANGED <<user, claims, req>> PROVE AdminKept'
  BY <1>11 DEF AdminKept, AdminOrNobody, Checked, Demotes, First, Quiet, IsAdmin, Present
<1>12. ASSUME NEW t \in Token, Logout(r, t) PROVE AdminKept'
  BY <1>11, <1>12 DEF Logout
<1>13. ASSUME NEW c \in claims, SaveConnection(r, c) \/ DeleteConnection(r, c) PROVE AdminKept'
  BY <1>11, <1>13 DEF SaveConnection, DeleteConnection
<1> QED BY <1>3, <1>4, <1>5, <1>6, <1>7, <1>8, <1>9, <1>10, <1>12, <1>13 DEF Start

\* Where they go from there.
LEMMA ContinueKeepsAdmin ==
  ASSUME TypeOK, DemotionsAgree, AdminKept, NEW r \in Req, Continue(r)
  PROVE  AdminKept'
<1>0. RequestsOK /\ UsersOK /\ req[r] \in Request /\ JobOK(req[r]) /\ Checked(req[r])
  BY TypeOKParts DEF RequestsOK, AdminKept, JobOK
<1>1. Quiet(Idle)
  BY DEF Quiet, Registering, Idle
<1>2. ASSUME NEW job, Goto(r, job), UNCHANGED <<user, claims>>, Quiet(job)
      PROVE  AdminKept'
  <2>1. Checked(job) /\ First(job)
    BY <1>2 DEF Quiet, Checked, Demotes, First
  <2> QED BY <1>0, <1>2, <2>1, MoveKeepsAdmin
<1>3. ASSUME Finish(r), UNCHANGED <<user, claims>> PROVE AdminKept'
  BY <1>1, <1>2, <1>3 DEF Finish
\* After a statement on users, r is done with them.
<1>4. ASSUME NEW job, Goto(r, job), Quiet(job),
             \A u \in UserId : IsAdmin(user[u]) => IsAdmin(user'[u]),
             \/ \E u \in UserId : IsAdmin(user'[u])
             \/ (\A u \in UserId : user'[u].state # "present") /\ claims' = {}
      PROVE  AdminKept'
  <2>1. \A q \in Req : req'[q] = req[q] \/ Quiet(req'[q])
    BY <1>0, <1>4 DEF Goto, RequestsOK
  <2> QED BY <1>4, <2>1, GrowthKeepsAdmin
<1>5. ASSUME NEW u \in FreshUser, NEW e, NEW ro, NEW p, InsertUser(u, e, ro, p)
      PROVE  /\ \A v \in UserId : IsAdmin(user[v]) => IsAdmin(user'[v])
             /\ u \in UserId /\ user'[u].state = "present" /\ user'[u].role = ro
  BY <1>0, <1>5, FreshUserOK DEF InsertUser, UsersOK, IsAdmin
<1>6. CASE Issue(r)
  <2>1. CASE Present(req[r].user)
    <3>1. Goto(r, Idle) /\ UNCHANGED user
      BY <1>6 DEF Issue, Finish
    <3>2. req[r].user \in UserId
      BY <1>0, <1>6 DEF Issue, JobOK, UsesUser
    <3>3. \E u \in UserId : IsAdmin(user'[u])
      BY <2>1, <3>1, <3>2 DEF AdminKept, AdminOrNobody
    <3>4. \A u \in UserId : IsAdmin(user[u]) => IsAdmin(user'[u])
      BY <3>1
    <3> QED BY <1>1, <1>4, <3>1, <3>3, <3>4
  <2>2. CASE ~Present(req[r].user)
    BY <1>3, <1>6, <2>2 DEF Issue
  <2> QED BY <2>1, <2>2
<1>7. CASE RegisterFind(r)
  <2> DEFINE job == [req[r] EXCEPT !.at = "registerInsert"]
  <2>1. job.at = "registerInsert" /\ job.role = req[r].role /\ req[r].at = "registerFind"
    BY <1>0, <1>7 DEF RegisterFind, Request
  <2>2. (Goto(r, job) \/ Finish(r)) /\ UNCHANGED <<user, claims>>
    BY <1>7 DEF RegisterFind, tables
  <2> HIDE DEF job
  <2>3. Checked(job)
    BY <2>1 DEF Checked, Demotes
  <2>4. (\A u \in UserId : ~IsAdmin(user[u])) => First(job)
    BY <2>1 DEF AdminKept, AdminOrNobody, First, Quiet, Registering
  <2> QED BY <1>0, <1>3, <2>2, <2>3, <2>4, MoveKeepsAdmin
<1>8. CASE RegisterInsert(r)
  <2>1. CASE EmailTaken(req[r].email)
    BY <1>3, <1>8, <2>1 DEF RegisterInsert
  <2>2. CASE ~EmailTaken(req[r].email)
    <3>1. PICK u \in FreshUser :
            /\ InsertUser(u, req[r].email, req[r].role, req[r].pw)
            /\ Goto(r, [req[r] EXCEPT !.at = "issue", !.user = u, !.email = None])
      BY <1>8, <2>2 DEF RegisterInsert
    <3> DEFINE job == [req[r] EXCEPT !.at = "issue", !.user = u, !.email = None]
    <3>2. Quiet(job)
      BY <1>0 DEF Request, Quiet, Registering
    <3>3. /\ \A v \in UserId : IsAdmin(user[v]) => IsAdmin(user'[v])
          /\ u \in UserId /\ user'[u].state = "present" /\ user'[u].role = req[r].role
      BY <1>5, <3>1
    <3>4. req[r].at = "registerInsert"
      BY <1>8 DEF RegisterInsert
    <3>5. \E v \in UserId : IsAdmin(user'[v])
      <4>1. CASE \E v \in UserId : IsAdmin(user[v])
        BY <3>3, <4>1
      <4>2. CASE ~\E v \in UserId : IsAdmin(user[v])
        <5>1. req[r].role = "admin"
          BY <3>4, <4>2 DEF AdminKept, AdminOrNobody, First, Quiet, Registering
        <5> QED BY <3>3, <5>1 DEF IsAdmin
      <4> QED BY <4>1, <4>2
    <3> HIDE DEF job
    <3> QED BY <1>4, <3>1, <3>2, <3>3, <3>5 DEF job
  <2> QED BY <2>1, <2>2
<1>9. CASE RefreshRevoke(r) \/ RevocationFails(r)
  <2>1. Quiet([req[r] EXCEPT !.at = "refreshUser"])
    BY <1>0 DEF Request, Quiet, Registering
  <2> QED BY <1>2, <1>3, <1>9, <2>1 DEF RefreshRevoke, RevocationFails, tables
<1>10. CASE RefreshUser(r)
  <2>1. Quiet([req[r] EXCEPT !.at = "issue", !.role = user[req[r].user].role])
    BY <1>0 DEF Request, Quiet, Registering
  <2> QED BY <1>2, <1>3, <1>10, <2>1 DEF RefreshUser, tables
<1>11. CASE CliFind(r)
  <2>1. \A u : Quiet([req[r] EXCEPT !.at = "cliUpdate", !.user = u, !.email = None])
    BY <1>0 DEF Request, Quiet, Registering
  <2> QED BY <1>2, <1>3, <1>11, <2>1 DEF CliFind, tables
<1>12. CASE UpdatePassword(r)
  <2> DEFINE u == req[r].user
             job == [req[r] EXCEPT !.at = IF @ = "cliUpdate" THEN "cliRevokeAll" ELSE "changeRevokeAll"]
  <2>1. Goto(r, job) /\ Quiet(job) /\ UNCHANGED claims
    BY <1>0, <1>12 DEF UpdatePassword, Request, Quiet, Registering
  <2>2. user' = [user EXCEPT ![u].pw = req[r].pw] \/ user' = user
    BY <1>12 DEF UpdatePassword
  <2>3. \A v \in UserId : user'[v].state = user[v].state /\ user'[v].role = user[v].role
    BY <1>0, <2>2 DEF UsersOK, UserRow
  <2> HIDE DEF job
  <2>4. \A v \in UserId : IsAdmin(user[v]) => IsAdmin(user'[v])
    BY <2>3 DEF IsAdmin
  <2>5. \/ \E v \in UserId : IsAdmin(user'[v])
        \/ (\A v \in UserId : user'[v].state # "present") /\ claims' = {}
    BY <2>1, <2>3, <2>4 DEF AdminKept, AdminOrNobody, Present
  <2> QED BY <1>4, <2>1, <2>4, <2>5
<1>13. CASE RevokeAll(r)
  BY <1>3, <1>13 DEF RevokeAll
<1>14. CASE RoleUpdate(r) \/ DeleteUserRow(r)
  <2> DEFINE u == req[r].user
  <2>1. Goto(r, Idle) /\ UNCHANGED claims
    BY <1>14 DEF RoleUpdate, DeleteUserRow, Finish
  <2>2. CASE UNCHANGED user
    BY <1>3, <1>14, <2>2 DEF RoleUpdate, DeleteUserRow
  <2>3. CASE ~UNCHANGED user
    <3>1. Present(u) /\ \A v \in UserId \ {u} : user'[v] = user[v]
      BY <1>0, <1>14, <2>3 DEF RoleUpdate, DeleteUserRow, UsersOK
    <3>2. u \in UserId
      BY <1>0, <1>14 DEF RoleUpdate, DeleteUserRow, JobOK, UsesUser
    <3>3. CASE RoleUpdate(r) /\ req[r].role = "admin"
      <4>1. user' = [user EXCEPT ![u].role = "admin"]
        BY <3>1, <3>3 DEF RoleUpdate
      <4>2. IsAdmin(user'[u])
        BY <1>0, <3>1, <3>2, <4>1 DEF IsAdmin, Present, UsersOK, UserRow
      <4>3. \A v \in UserId : IsAdmin(user[v]) => IsAdmin(user'[v])
        BY <3>1, <4>2
      <4> QED BY <1>1, <1>4, <2>1, <3>2, <4>2, <4>3
\* The demotion: the other requests in flight demote nobody else, and another
\* admin was seen.
    <3>4. CASE DeleteUserRow(r) \/ (RoleUpdate(r) /\ req[r].role # "admin")
      <4>1. Demotes(req[r])
        BY <1>0, <3>4 DEF DeleteUserRow, RoleUpdate, JobOK, UsesRole, Role, Demotes
      <4>2. PICK v \in UserId \ {u} : IsAdmin(user[v])
        BY <1>0, <4>1 DEF Checked
      <4>3. IsAdmin(user'[v])
        BY <3>1, <4>2
      <4>4. req'[r] = Idle /\ \A q \in Req \ {r} : req'[q] = req[q]
        BY <1>0, <2>1 DEF Goto, RequestsOK
      <4>5. ASSUME NEW q \in Req, Demotes(req'[q]) PROVE req'[q].user = u
        BY <1>1, <4>1, <4>4, <4>5 DEF DemotionsAgree, Quiet, Demotes
      <4>6. ASSUME NEW q \in Req PROVE Checked(req[q])'
        BY <4>2, <4>3, <4>5 DEF Checked, Demotes, IsAdmin
      <4>7. AdminOrNobody'
        BY <4>3 DEF AdminOrNobody, IsAdmin
      <4> QED BY <4>6, <4>7 DEF AdminKept
    <3> QED BY <1>14, <3>3, <3>4
  <2> QED BY <2>2, <2>3
<1>15. CASE DeleteTokens(r)
  <2> DEFINE job == [req[r] EXCEPT !.at = "deleteUser"]
  <2>1. req[r].at = "deleteTokens" /\ Goto(r, job) /\ UNCHANGED <<user, claims>>
    BY <1>15 DEF DeleteTokens
  <2>2. job.at = "deleteUser" /\ job.user = req[r].user
    BY <1>0 DEF Request
  <2> HIDE DEF job
  <2>3. \E v \in UserId \ {job.user} : IsAdmin(user[v])
    BY <1>0, <2>1, <2>2 DEF Checked, Demotes
  <2> QED BY <1>0, <2>1, <2>3, MoveKeepsAdmin DEF Checked
<1>16. CASE CreateInsert(r)
  <2>1. Goto(r, Idle) /\ req[r].at = "createInsert"
    BY <1>16 DEF CreateInsert, Finish
  <2>2. \E v \in UserId : IsAdmin(user[v])
    BY <2>1 DEF AdminKept, AdminOrNobody, First, Quiet, Registering
  <2>3. CASE UNCHANGED user
    BY <1>3, <1>16, <2>3 DEF CreateInsert
  <2>4. CASE ~UNCHANGED user
    <3>1. PICK u \in FreshUser : InsertUser(u, req[r].email, req[r].role, req[r].pw)
      BY <1>16, <2>4 DEF CreateInsert
    <3>2. \A v \in UserId : IsAdmin(user[v]) => IsAdmin(user'[v])
      BY <1>5, <3>1
    <3> QED BY <1>1, <1>4, <2>1, <2>2, <3>2
  <2> QED BY <2>3, <2>4
<1>17. CASE StatementFails(r)
  BY <1>3, <1>17 DEF StatementFails, tables
<1> QED BY <1>6, <1>7, <1>8, <1>9, <1>10, <1>11, <1>12, <1>13, <1>14, <1>15, <1>16, <1>17
        DEF Continue

LEMMA AdminIsKept == Spec /\ []DemotionsAgree => []AdminKept
<1>1. Init => AdminKept
  <2> SUFFICES ASSUME Init PROVE AdminKept
    OBVIOUS
  <2>1. \A r \in Req : Quiet(req[r])
    BY DEF Init, Quiet, Registering, Idle
  <2>2. \A r \in Req : Checked(req[r]) /\ First(req[r])
    BY <2>1 DEF Checked, Demotes, First, Quiet
  <2>3. CASE \E u \in UserId : Provisioned(u)
    <3>1. \E u \in UserId : IsAdmin(user[u])
      BY <2>3, ProvisionedRowOK DEF Init, Provisioned
    <3> QED BY <2>2, <3>1 DEF AdminKept, AdminOrNobody
  <2>4. CASE ~\E u \in UserId : Provisioned(u)
    <3>1. (\A u \in UserId : ~Present(u)) /\ claims = {}
      BY <2>4 DEF Init, Present, NoUser
    <3> QED BY <2>2, <3>1 DEF AdminKept, AdminOrNobody
  <2> QED BY <2>3, <2>4
<1>2. TypeOK /\ DemotionsAgree /\ AdminKept /\ [Next]_vars => AdminKept'
  <2> SUFFICES ASSUME TypeOK, DemotionsAgree, AdminKept, [Next]_vars PROVE AdminKept'
    OBVIOUS
  <2>0. UsersOK
    BY TypeOKParts
  <2>1. ASSUME NEW r \in Req, Start(r) \/ Continue(r) PROVE AdminKept'
    BY <2>1, StartKeepsAdmin, ContinueKeepsAdmin
  <2>2. CASE Restart
    <3> DEFINE rows == PromoteFirst(user)
               provision == Provisions
                              /\ \A u \in UserId : ~(rows[u].state = "present" /\ rows[u].email = AdminEmail)
               new == IF provision THEN FreshUser ELSE {}
    <3>1. \A u \in UserId : user'[u] = IF u \in new THEN ProvisionedRow ELSE rows[u]
      BY <2>2 DEF Restart
    <3>2. \A u \in new : u \in UserId /\ user[u].state = "unused" /\ IsAdmin(user'[u])
      BY <3>1, FreshUserOK, ProvisionedRowOK
    <3>3. \A u \in UserId : IsAdmin(user[u]) => IsAdmin(user'[u])
      BY <2>0, <3>1, <3>2, PromoteFirstOK DEF IsAdmin
    <3>4. \A u \in UserId \ new : user'[u].state = user[u].state
      BY <2>0, <3>1, PromoteFirstOK
    <3>5. \A r \in Req : req'[r] = req[r] \/ Quiet(req'[r])
      BY <2>2, RestartTables DEF Quiet, Registering, Idle
    <3> HIDE DEF new
    <3>6. \/ \E u \in UserId : IsAdmin(user'[u])
          \/ (\A u \in UserId : user'[u].state # "present") /\ claims' = {}
      BY <2>2, <3>2, <3>3, <3>4 DEF AdminKept, AdminOrNobody, Present, Restart
    <3> QED BY <3>3, <3>5, <3>6, GrowthKeepsAdmin
  <2>3. CASE Tick \/ UNCHANGED vars
    <3>1. UNCHANGED <<user, req>> /\ claims' \subseteq claims
      BY <2>3 DEF Tick, vars, tables
    <3> QED BY <3>1 DEF AdminKept, AdminOrNobody, Checked, Demotes, First, Quiet, IsAdmin, Present
  <2> QED BY <2>1, <2>2, <2>3 DEF Next
<1> QED BY AuthTyped, <1>1, <1>2, PTL DEF Spec

\* However requests overlap, and wherever the server restarts or a statement
\* fails, an admin is left once there is an account, as long as no two requests
\* that have counted the admins demote or delete two different accounts.  Those
\* may lose the last one, which the run auth_last_admin shows.
THEOREM AuthAlwaysAnAdmin == Spec /\ []DemotionsAgree => []AlwaysAnAdmin
<1>1. AdminKept => AlwaysAnAdmin
  BY DEF AdminKept, AdminOrNobody, AlwaysAnAdmin, Admins
<1> QED BY AdminIsKept, <1>1, PTL

---------------------------------------------------------------------------
(* Why a refresh token buys no more successors than requests can overlap:  *)
(* those that hold it and those that have spent it share the bound.        *)

Buying == {"refreshRevoke", "refreshUser", "issue"}
Buyers(t) == {r \in Req : req[r].token = t}
Bought(t) == {s \in Token : token[s].from = t}

HoldersBuy == \A r \in Req : req[r].token # None => req[r].at \in Buying
UnissuedUnspent == \A t \in Token : token[t].state = "unissued" => Bought(t) = {} /\ Buyers(t) = {}
ValidUnspent ==
  \A t \in Token : token[t].state = "valid" =>
    Bought(t) = {} /\ \A r \in Buyers(t) : req[r].at = "refreshRevoke"
SharedBound == \A t \in Token : Cardinality(Bought(t)) + Cardinality(Buyers(t)) <= MaxInFlight

FlightBounded == Cardinality(InFlight) <= MaxInFlight
Unspent == HoldersBuy /\ UnissuedUnspent /\ ValidUnspent /\ SharedBound

LEMMA PurchasesFinite ==
  /\ IsFiniteSet(InFlight) /\ Cardinality(InFlight) \in Nat
  /\ \A t : /\ IsFiniteSet(Buyers(t)) /\ Cardinality(Buyers(t)) \in Nat
            /\ IsFiniteSet(Bought(t)) /\ Cardinality(Bought(t)) \in Nat
<1>1. InFlight \in SUBSET Req /\ \A t : Buyers(t) \in SUBSET Req /\ Bought(t) \in SUBSET Token
  BY DEF InFlight, Buyers, Bought
<1>2. IsFiniteSet(Req) /\ IsFiniteSet(Token)
  BY AuthAssumption
<1>3. \A S, T : IsFiniteSet(S) /\ T \in SUBSET S => IsFiniteSet(T)
  BY FS_Subset
<1>4. \A S : IsFiniteSet(S) => Cardinality(S) \in Nat
  BY FS_CardinalityType
<1> QED BY <1>1, <1>2, <1>3, <1>4

\* A subset of a finite set has no more elements.
LEMMA FewerIn ==
  ASSUME NEW S, NEW T, IsFiniteSet(S), T \subseteq S
  PROVE  Cardinality(T) \in Nat /\ Cardinality(S) \in Nat /\ Cardinality(T) <= Cardinality(S)
<1>1. T \in SUBSET S
  OBVIOUS
<1>2. IsFiniteSet(T) /\ Cardinality(T) <= Cardinality(S)
  BY <1>1, FS_Subset
<1> QED BY <1>2, FS_CardinalityType

\* One more element is one more.
LEMMA OneMoreIn ==
  ASSUME NEW S, NEW x, NEW T, IsFiniteSet(S), T \subseteq S \cup {x}
  PROVE  Cardinality(T) \in Nat /\ Cardinality(S) \in Nat /\ Cardinality(T) <= Cardinality(S) + 1
<1>1. IsFiniteSet(S \cup {x}) /\ Cardinality(S) \in Nat
  BY FS_AddElement, FS_CardinalityType
<1>2. Cardinality(S \cup {x}) = Cardinality(S) \/ Cardinality(S \cup {x}) = Cardinality(S) + 1
  BY FS_AddElement
<1>3. /\ Cardinality(T) \in Nat /\ Cardinality(S \cup {x}) \in Nat
      /\ Cardinality(T) <= Cardinality(S \cup {x})
  BY <1>1, FewerIn
<1> QED BY <1>1, <1>2, <1>3

\* What every request but a refresh starts with: no token, the password in the
\* table if it is about to open a session, and a reason to register.
Entered(job) ==
  /\ job.token = None
  /\ job.at \in Buying => /\ job.user \in UserId /\ Present(job.user)
                          /\ job.pw = user[job.user].pw
  /\ job.at \in Registering => RegistrationOpen \/ \A u \in UserId : ~Present(u)

LEMMA StartTakes ==
  ASSUME NEW r \in Req, Start(r)
  PROVE  \/ UNCHANGED req /\ (UNCHANGED token \/ \E t \in Token : RevokeToken(t))
         \/ /\ \E op : CanStart(r, op)
            /\ \E job : Goto(r, job) /\ Entered(job)
            /\ UNCHANGED token
         \/ \E t \in Token : RefreshFind(r, t) /\ token[t].state = "valid"
<1> DEFINE Enters == /\ \E op : CanStart(r, op)
                     /\ \E job : Goto(r, job) /\ Entered(job)
                     /\ UNCHANGED token
<1>1. ASSUME NEW op, CanStart(r, op), NEW job, Goto(r, job), Entered(job), UNCHANGED token
      PROVE  Enters
  BY <1>1
<1> HIDE DEF Enters
<1>2. ASSUME NEW e \in Email, NEW p \in Password, RegisterCount(r, e, p)
      PROVE  Enters
  <2> DEFINE job == [Idle EXCEPT !.at = "registerFind", !.email = e, !.pw = p,
                       !.role = IF \A u \in UserId : ~Present(u) THEN "admin" ELSE "readonly"]
  <2>1. Entered(job)
    BY <1>2 DEF Idle, Entered, Buying, Registering, RegisterCount
  <2>2. Goto(r, job) /\ CanStart(r, "register") /\ UNCHANGED token
    BY <1>2 DEF RegisterCount, tables
  <2> HIDE DEF job
  <2> QED BY <1>1, <2>1, <2>2
<1>3. ASSUME NEW e \in Email, NEW p \in Password, CliStart(r, e, p)
      PROVE  Enters
  <2> DEFINE job == [Idle EXCEPT !.at = "cliFind", !.email = e, !.pw = p]
  <2>1. Entered(job)
    BY DEF Idle, Entered, Buying, Registering
  <2>2. Goto(r, job) /\ CanStart(r, "cli") /\ UNCHANGED token
    BY <1>3 DEF CliStart, tables
  <2> HIDE DEF job
  <2> QED BY <1>1, <2>1, <2>2
<1>4. ASSUME NEW u \in UserId, LoginFind(r, u)
      PROVE  Enters
  <2> DEFINE job == [Idle EXCEPT !.at = "issue", !.user = u, !.role = user[u].role, !.pw = user[u].pw]
  <2>1. Entered(job)
    BY <1>4 DEF LoginFind, Idle, Entered, Buying, Registering
  <2>2. Goto(r, job) /\ CanStart(r, "login") /\ UNCHANGED token
    BY <1>4 DEF LoginFind, tables
  <2> HIDE DEF job
  <2> QED BY <1>1, <2>1, <2>2
<1>5. ASSUME NEW t \in Token, RefreshFind(r, t), token[t].state # "valid"
      PROVE  Enters
  <2> DEFINE job == [Idle EXCEPT !.at = "reuseRevokeAll", !.user = token[t].user]
  <2>1. Entered(job)
    BY DEF Idle, Entered, Buying, Registering
  <2>2. Goto(r, job) /\ CanStart(r, "refresh") /\ UNCHANGED token
    BY <1>5 DEF RefreshFind, tables
  <2> HIDE DEF job
  <2> QED BY <1>1, <2>1, <2>2
<1>6. ASSUME NEW c \in claims, NEW p \in Password, ChangeFind(r, c, p)
      PROVE  Enters
  <2> DEFINE job == [Idle EXCEPT !.at = "changeUpdate", !.user = c.user, !.pw = p]
  <2>1. Entered(job)
    BY DEF Idle, Entered, Buying, Registering
  <2>2. Goto(r, job) /\ CanStart(r, "password") /\ UNCHANGED token
    BY <1>6 DEF ChangeFind, tables
  <2> HIDE DEF job
  <2> QED BY <1>1, <2>1, <2>2
<1>7. ASSUME NEW c \in claims, NEW u \in UserId, DeleteList(r, c, u)
      PROVE  Enters
  <2> DEFINE job == [Idle EXCEPT !.at = "deleteTokens", !.user = u]
  <2>1. Entered(job)
    BY DEF Idle, Entered, Buying, Registering
  <2>2. Goto(r, job) /\ CanStart(r, "delete") /\ UNCHANGED token
    BY <1>7 DEF DeleteList, tables
  <2> HIDE DEF job
  <2> QED BY <1>1, <2>1, <2>2
<1>8. ASSUME NEW c \in claims, NEW u \in UserId, NEW ro \in Role, RoleList(r, c, u, ro)
      PROVE  Enters
  <2> DEFINE job == [Idle EXCEPT !.at = "roleUpdate", !.user = u, !.role = ro]
  <2>1. Entered(job)
    BY DEF Idle, Entered, Buying, Registering
  <2>2. Goto(r, job) /\ CanStart(r, "role") /\ UNCHANGED token
    BY <1>8 DEF RoleList, tables
  <2> HIDE DEF job
  <2> QED BY <1>1, <2>1, <2>2
<1>9. ASSUME NEW c \in claims, NEW e \in Email, NEW ro \in Role, NEW p \in Password,
             CreateFind(r, c, e, ro, p)
      PROVE  Enters
  <2> DEFINE job == [Idle EXCEPT !.at = "createInsert", !.email = e, !.role = ro, !.pw = p]
  <2>1. Entered(job)
    BY DEF Idle, Entered, Buying, Registering
  <2>2. Goto(r, job) /\ CanStart(r, "create") /\ UNCHANGED token
    BY <1>9 DEF CreateFind, tables
  <2> HIDE DEF job
  <2> QED BY <1>1, <2>1, <2>2
<1>10. ASSUME NEW t \in Token, Logout(r, t) PROVE UNCHANGED req /\ RevokeToken(t)
  BY <1>10 DEF Logout
<1>11. ASSUME NEW c \in claims, SaveConnection(r, c) \/ DeleteConnection(r, c)
      PROVE  UNCHANGED req /\ UNCHANGED token
  BY <1>11 DEF SaveConnection, DeleteConnection
<1>12. Enters => /\ \E op : CanStart(r, op)
                 /\ \E job : Goto(r, job) /\ Entered(job)
                 /\ UNCHANGED token
  BY DEF Enters
<1> QED BY <1>2, <1>3, <1>4, <1>5, <1>6, <1>7, <1>8, <1>9, <1>10, <1>11, <1>12 DEF Start

\* No first statement writes what is known of a password change, and only the
\* start of the other process writes users.
LEMMA StartLeaves ==
  ASSUME NEW r \in Req, Start(r)
  PROVE  UNCHANGED <<settled, selfRegistered>> /\ (UNCHANGED user \/ user' = PromoteFirst(user))
BY DEF Start, RegisterCount, CliStart, LoginFind, RefreshFind, Logout, ChangeFind, DeleteList,
       RoleList, CreateFind, SaveConnection, DeleteConnection, tables, history

\* A statement after the first belongs to a request in flight.
LEMMA ContinuesInFlight ==
  ASSUME NEW r \in Req, Continue(r)
  PROVE  req[r].at # "idle" /\ \E job : Goto(r, job)
<1>1. req[r].at # "idle"
  BY DEF Continue, Issue, RegisterFind, RegisterInsert, RefreshRevoke, RefreshUser, CliFind,
         UpdatePassword, RevokeAll, RoleUpdate, DeleteTokens, DeleteUserRow, CreateInsert,
         StatementFails, RevocationFails, ErrorReturns, RevokeAllSteps
<1>2. \E job : Goto(r, job)
  <2>1. Finish(r) => \E job : Goto(r, job)
    BY DEF Finish
  <2>2. CASE RegisterFind(r) \/ RefreshRevoke(r) \/ RefreshUser(r) \/ UpdatePassword(r) \/ DeleteTokens(r)
    BY <2>1, <2>2 DEF RegisterFind, RefreshRevoke, RefreshUser, UpdatePassword, DeleteTokens
  <2>3. CASE RegisterInsert(r) \/ CliFind(r) \/ RevocationFails(r)
    BY <2>1, <2>3 DEF RegisterInsert, CliFind, RevocationFails
  <2>4. CASE Issue(r) \/ RevokeAll(r) \/ RoleUpdate(r) \/ DeleteUserRow(r) \/ CreateInsert(r) \/ StatementFails(r)
    BY <2>1, <2>4 DEF Issue, RevokeAll, RoleUpdate, DeleteUserRow, CreateInsert, StatementFails
  <2> QED BY <2>2, <2>3, <2>4 DEF Continue
<1> QED BY <1>1, <1>2

LEMMA GotoMoves ==
  ASSUME TypeOK, NEW r \in Req, NEW job, Goto(r, job)
  PROVE  req'[r] = job /\ \A q \in Req \ {r} : req'[q] = req[q]
BY DEF Goto, TypeOK

\* No handler starts while as many are in flight as may overlap.
LEMMA FlightStaysBounded ==
  ASSUME TypeOK, FlightBounded, [Next]_vars
  PROVE  FlightBounded'
<1>0. Cardinality(InFlight) <= MaxInFlight /\ IsFiniteSet(InFlight) /\ MaxInFlight \in Nat
  BY PurchasesFinite DEF FlightBounded
<1>1. ASSUME InFlight' \subseteq InFlight PROVE FlightBounded'
  <2>1. /\ Cardinality(InFlight') <= Cardinality(InFlight)
        /\ Cardinality(InFlight') \in Nat /\ Cardinality(InFlight) \in Nat
    BY <1>0, <1>1, FewerIn
  <2> QED BY <1>0, <2>1 DEF FlightBounded
<1>2. ASSUME NEW r \in Req, Start(r) PROVE FlightBounded'
  <2>1. CASE UNCHANGED req
    BY <1>1, <2>1 DEF InFlight
  <2>2. CASE (\E op : CanStart(r, op)) /\ \E job : Goto(r, job)
    <3>1. Cardinality(InFlight) < MaxInFlight
      BY <2>2 DEF CanStart
    <3>2. InFlight' \subseteq InFlight \cup {r}
      BY <2>2, GotoMoves DEF InFlight
    <3>3. /\ Cardinality(InFlight') <= Cardinality(InFlight) + 1
          /\ Cardinality(InFlight') \in Nat /\ Cardinality(InFlight) \in Nat
      BY <1>0, <3>2, OneMoreIn
    <3> QED BY <1>0, <3>1, <3>3 DEF FlightBounded
  <2>3. ASSUME NEW t \in Token, RefreshFind(r, t)
        PROVE  (\E op : CanStart(r, op)) /\ \E job : Goto(r, job)
    BY <2>3 DEF RefreshFind
  <2> QED BY <1>2, <2>1, <2>2, <2>3, StartTakes
<1>3. ASSUME NEW r \in Req, Continue(r) PROVE FlightBounded'
  <2>1. InFlight' \subseteq InFlight
    BY <1>3, ContinuesInFlight, GotoMoves DEF InFlight
  <2> QED BY <1>1, <2>1
<1>4. CASE Restart
  <2>1. \A r \in Req : req'[r] = req[r] \/ req'[r].at = "idle"
    BY <1>4, RestartTables, IdleOK
  <2> QED BY <1>1, <2>1 DEF InFlight
<1>5. CASE Tick \/ UNCHANGED vars
  BY <1>1, <1>5 DEF Tick, vars, InFlight
<1> QED BY <1>2, <1>3, <1>4, <1>5 DEF Next

\* A request that gives its token up, or keeps it for a statement that follows.
MovesOn(q) ==
  /\ req'[q].token \in {req[q].token, None}
  /\ req'[q].token # None =>
       /\ req'[q].at \in Buying
       /\ req'[q].at = "refreshRevoke" \/ token'[req'[q].token].state # "valid"

\* A row that keeps what it was exchanged for, and never becomes valid again.
Spends(t) ==
  /\ token'[t].from = token[t].from
  /\ token'[t].state = token[t].state \/ token'[t].state \in {"revoked", "deleted"}

\* Steps that issue nothing keep the bound.
LEMMA SpendingKeepsUnspent ==
  ASSUME TypeOK, Unspent, \A t \in Token : Spends(t),
         \A q \in Req : req'[q] = req[q] \/ MovesOn(q)
  PROVE  Unspent'
<1>1. \A q \in Req : req'[q].token # None => req'[q].token = req[q].token
  BY DEF MovesOn
<1>2. \A t \in Token : t # None
  BY AuthAssumption
<1>3. \A t \in Token : Bought(t)' = Bought(t) /\ Buyers(t)' \subseteq Buyers(t)
  BY <1>1, <1>2 DEF Bought, Buyers, Spends
<1>4. HoldersBuy'
  BY DEF Unspent, HoldersBuy, MovesOn
<1>5. UnissuedUnspent'
  <2> SUFFICES ASSUME NEW t \in Token, token'[t].state = "unissued"
               PROVE  Bought(t)' = {} /\ Buyers(t)' = {}
    BY DEF UnissuedUnspent
  <2>1. token[t].state = "unissued"
    BY DEF Spends
  <2> QED BY <1>3, <2>1 DEF Unspent, UnissuedUnspent
<1>6. ValidUnspent'
  <2> SUFFICES ASSUME NEW t \in Token, token'[t].state = "valid"
               PROVE  Bought(t)' = {} /\ \A q \in Buyers(t)' : req'[q].at = "refreshRevoke"
    BY DEF ValidUnspent
  <2>1. token[t].state = "valid"
    BY DEF Spends
  <2>2. Bought(t) = {} /\ \A q \in Buyers(t) : req[q].at = "refreshRevoke"
    BY <2>1 DEF Unspent, ValidUnspent
  <2>3. ASSUME NEW q \in Buyers(t)' PROVE req'[q].at = "refreshRevoke"
    <3>1. q \in Req /\ req'[q].token = t /\ t # None /\ q \in Buyers(t)
      BY <1>2, <1>3, <2>3 DEF Buyers
    <3> QED BY <2>2, <3>1 DEF MovesOn
  <2> QED BY <1>3, <2>2, <2>3
<1>7. SharedBound'
  <2> SUFFICES ASSUME NEW t \in Token
               PROVE  Cardinality(Bought(t)') + Cardinality(Buyers(t)') <= MaxInFlight
    BY DEF SharedBound
  <2>1. /\ Cardinality(Buyers(t)') \in Nat /\ Cardinality(Buyers(t)) \in Nat
        /\ Cardinality(Buyers(t)') <= Cardinality(Buyers(t))
    BY <1>3, PurchasesFinite, FewerIn
  <2>2. Cardinality(Bought(t)) \in Nat /\ Cardinality(Bought(t)) + Cardinality(Buyers(t)) <= MaxInFlight
    BY PurchasesFinite DEF Unspent, SharedBound
  <2> QED BY <1>3, <2>1, <2>2, AuthAssumption
<1> QED BY <1>4, <1>5, <1>6, <1>7 DEF Unspent

\* The step that presents a valid token: whoever holds it is in flight.
LEMMA RefreshFindKeepsUnspent ==
  ASSUME TypeOK, Unspent, FlightBounded', NEW r \in Req, NEW t0 \in Token,
         RefreshFind(r, t0), token[t0].state = "valid"
  PROVE  Unspent'
<1> DEFINE job == [Idle EXCEPT !.at = "refreshRevoke", !.user = token[t0].user, !.token = t0,
                               !.pw = token[t0].pw]
<1>1. Goto(r, job) /\ job.token = t0 /\ job.at = "refreshRevoke" /\ UNCHANGED token
  BY DEF RefreshFind, Idle, tables
<1> HIDE DEF job
<1>2. /\ req'[r].token = t0 /\ req'[r].at = "refreshRevoke"
      /\ \A q \in Req \ {r} : req'[q] = req[q]
  BY <1>1, GotoMoves
<1>3. \A t \in Token : t # None
  BY AuthAssumption
<1>4. \A t \in Token : /\ Bought(t)' = Bought(t) /\ token'[t] = token[t]
                       /\ t # t0 => Buyers(t)' \subseteq Buyers(t)
  BY <1>1, <1>2 DEF Bought, Buyers
<1>5. HoldersBuy'
  BY <1>2 DEF Unspent, HoldersBuy, Buying
<1>6. UnissuedUnspent'
  BY <1>4 DEF Unspent, UnissuedUnspent
<1>7. ValidUnspent'
  <2> SUFFICES ASSUME NEW t \in Token, token'[t].state = "valid"
               PROVE  Bought(t)' = {} /\ \A q \in Buyers(t)' : req'[q].at = "refreshRevoke"
    BY DEF ValidUnspent
  <2>1. Bought(t) = {} /\ \A q \in Buyers(t) : req[q].at = "refreshRevoke"
    BY <1>4 DEF Unspent, ValidUnspent
  <2>2. ASSUME NEW q \in Buyers(t)' PROVE req'[q].at = "refreshRevoke"
    BY <1>2, <2>1, <2>2 DEF Buyers
  <2> QED BY <1>4, <2>1, <2>2
<1>8. SharedBound'
  <2> SUFFICES ASSUME NEW t \in Token
               PROVE  Cardinality(Bought(t)') + Cardinality(Buyers(t)') <= MaxInFlight
    BY DEF SharedBound
  <2>1. CASE t # t0
    <3>1. /\ Cardinality(Buyers(t)') \in Nat /\ Cardinality(Buyers(t)) \in Nat
          /\ Cardinality(Buyers(t)') <= Cardinality(Buyers(t))
      BY <1>4, <2>1, PurchasesFinite, FewerIn
    <3>2. Cardinality(Bought(t)) \in Nat /\ Cardinality(Bought(t)) + Cardinality(Buyers(t)) <= MaxInFlight
      BY PurchasesFinite DEF Unspent, SharedBound
    <3> QED BY <1>4, <3>1, <3>2, AuthAssumption
  <2>2. CASE t = t0
    <3>1. Bought(t)' = {} /\ Cardinality({}) = 0
      BY <1>4, <2>2, FS_EmptySet DEF Unspent, ValidUnspent
    <3>2. Buyers(t)' \subseteq InFlight'
      BY <1>3, <1>5 DEF Buyers, InFlight, HoldersBuy, Buying
    <3>3. IsFiniteSet(InFlight')
      <4>1. InFlight' \in SUBSET Req
        BY DEF InFlight
      <4> QED BY <4>1, FS_Subset, AuthAssumption
    <3>4. /\ Cardinality(Buyers(t)') \in Nat /\ Cardinality(InFlight') \in Nat
          /\ Cardinality(Buyers(t)') <= Cardinality(InFlight')
      BY <3>2, <3>3, FewerIn
    <3> QED BY <3>1, <3>4, AuthAssumption DEF FlightBounded
  <2> QED BY <2>1, <2>2
<1> QED BY <1>5, <1>6, <1>7, <1>8 DEF Unspent

\* The step that issues: the request stops holding what the new token was bought with.
LEMMA IssueKeepsUnspent ==
  ASSUME TypeOK, Unspent, NEW r \in Req, Issue(r), Present(req[r].user)
  PROVE  Unspent'
<1> DEFINE p == req[r].token
<1>1. req[r].at = "issue" /\ req'[r].token = None /\ \A q \in Req \ {r} : req'[q] = req[q]
  BY GotoMoves DEF Issue, Finish, Idle
<1>2. PICK n \in FreshToken :
        token' = [token EXCEPT ![n] = [state |-> "valid", user |-> req[r].user,
                    exp |-> clock + RefreshTTL, from |-> p, pw |-> req[r].pw]]
  BY DEF Issue
<1>3. n \in Token /\ token[n].state = "unissued"
  BY <1>2 DEF FreshToken
<1>4. token'[n].state = "valid" /\ token'[n].from = p /\ \A t \in Token \ {n} : token'[t] = token[t]
  BY <1>2, <1>3 DEF TypeOK
<1>5. Bought(n) = {} /\ Buyers(n) = {}
  BY <1>3 DEF Unspent, UnissuedUnspent
<1>6. \A t \in Token : t # None
  BY AuthAssumption
<1>7. p # n
  BY <1>5 DEF Buyers
<1>8. \A t \in Token : /\ Buyers(t)' \subseteq Buyers(t) /\ r \notin Buyers(t)'
                       /\ Bought(t)' \subseteq Bought(t) \cup {n}
                       /\ t # p => Bought(t)' \subseteq Bought(t)
  BY <1>1, <1>4, <1>6 DEF Buyers, Bought
<1>9. HoldersBuy'
  BY <1>1 DEF Unspent, HoldersBuy
<1>10. UnissuedUnspent'
  <2> SUFFICES ASSUME NEW t \in Token, token'[t].state = "unissued"
               PROVE  Bought(t)' = {} /\ Buyers(t)' = {}
    BY DEF UnissuedUnspent
  <2>1. t # n /\ token[t].state = "unissued"
    BY <1>4
  <2>2. Bought(t) = {} /\ Buyers(t) = {}
    BY <2>1 DEF Unspent, UnissuedUnspent
  <2>3. t # p
    BY <2>2 DEF Buyers
  <2> QED BY <1>8, <2>2, <2>3
<1>11. ValidUnspent'
  <2> SUFFICES ASSUME NEW t \in Token, token'[t].state = "valid"
               PROVE  Bought(t)' = {} /\ \A q \in Buyers(t)' : req'[q].at = "refreshRevoke"
    BY DEF ValidUnspent
  <2>1. Bought(t) = {} /\ \A q \in Buyers(t) : req[q].at = "refreshRevoke"
    BY <1>4, <1>5 DEF Unspent, ValidUnspent
  <2>2. t # p
    BY <1>1, <2>1 DEF Buyers
  <2>3. ASSUME NEW q \in Buyers(t)' PROVE req'[q].at = "refreshRevoke"
    <3>1. q \in Req \ {r} /\ q \in Buyers(t)
      BY <1>8, <2>3 DEF Buyers
    <3> QED BY <1>1, <2>1, <3>1
  <2> QED BY <1>8, <2>1, <2>2, <2>3
<1>12. SharedBound'
  <2> SUFFICES ASSUME NEW t \in Token
               PROVE  Cardinality(Bought(t)') + Cardinality(Buyers(t)') <= MaxInFlight
    BY DEF SharedBound
  <2>1. /\ Cardinality(Bought(t)) \in Nat /\ Cardinality(Buyers(t)) \in Nat
        /\ IsFiniteSet(Bought(t)) /\ IsFiniteSet(Buyers(t))
        /\ Cardinality(Bought(t)) + Cardinality(Buyers(t)) <= MaxInFlight
    BY PurchasesFinite DEF Unspent, SharedBound
  <2>2. CASE t # p
    <3>1. Cardinality(Bought(t)') \in Nat /\ Cardinality(Bought(t)') <= Cardinality(Bought(t))
      BY <1>8, <2>1, <2>2, FewerIn
    <3>2. Cardinality(Buyers(t)') \in Nat /\ Cardinality(Buyers(t)') <= Cardinality(Buyers(t))
      BY <1>8, <2>1, FewerIn
    <3> QED BY <2>1, <3>1, <3>2, AuthAssumption
  <2>3. CASE t = p
    <3>1. Cardinality(Bought(t)') \in Nat /\ Cardinality(Bought(t)') <= Cardinality(Bought(t)) + 1
      BY <1>8, <2>1, OneMoreIn
    <3>2. Buyers(t)' \subseteq Buyers(t) \ {r} /\ r \in Buyers(t)
      BY <1>8, <2>3 DEF Buyers
    <3>3. IsFiniteSet(Buyers(t) \ {r}) /\ Cardinality(Buyers(t) \ {r}) = Cardinality(Buyers(t)) - 1
      BY <2>1, <3>2, FS_RemoveElement
    <3>4. Cardinality(Buyers(t)') \in Nat /\ Cardinality(Buyers(t)') <= Cardinality(Buyers(t) \ {r})
      BY <3>2, <3>3, FewerIn
    <3> QED BY <2>1, <3>1, <3>3, <3>4, AuthAssumption
  <2> QED BY <2>2, <2>3
<1> QED BY <1>9, <1>10, <1>11, <1>12 DEF Unspent

\* Every other statement gives up what its request holds, or keeps it on the
\* way to a new token.
LEMMA ContinueKeepsUnspent ==
  ASSUME "ignored" \notin Ops, TypeOK, Unspent, NEW r \in Req, Continue(r)
  PROVE  Unspent'
<1>0. JobOK(req[r]) /\ req[r] \in Request /\ TokensOK
  BY TypeOKParts DEF RequestsOK, JobOK
<1>1. ASSUME \A t \in Token : Spends(t), NEW job, Goto(r, job),
             /\ job.token \in {req[r].token, None}
             /\ job.token # None =>
                  job.at \in Buying /\ (job.at = "refreshRevoke" \/ token'[job.token].state # "valid")
      PROVE  Unspent'
  <2>1. req'[r] = job /\ \A q \in Req \ {r} : req'[q] = req[q]
    BY <1>1, GotoMoves
  <2>2. \A q \in Req : req'[q] = req[q] \/ MovesOn(q)
    BY <1>1, <2>1 DEF MovesOn
  <2> QED BY <1>1, <2>2, SpendingKeepsUnspent
<1>2. UNCHANGED token => \A t \in Token : Spends(t)
  BY DEF Spends
<1>3. ASSUME Finish(r), \A t \in Token : Spends(t) PROVE Unspent'
  BY <1>1, <1>3 DEF Finish, Idle
<1>4. req[r].at \notin Buying => req[r].token = None
  BY DEF Unspent, HoldersBuy
<1>5. ASSUME req[r].at \notin Buying, UNCHANGED token, NEW job, Goto(r, job), job.token = req[r].token
      PROVE  Unspent'
  BY <1>1, <1>2, <1>4, <1>5
<1>6. CASE Issue(r)
  <2>1. CASE Present(req[r].user)
    BY <1>6, <2>1, IssueKeepsUnspent
  <2>2. CASE ~Present(req[r].user)
    BY <1>2, <1>3, <1>6, <2>2 DEF Issue
  <2> QED BY <2>1, <2>2
<1>7. CASE RegisterFind(r) \/ CliFind(r) \/ UpdatePassword(r)
  <2>1. req[r].at \notin Buying /\ UNCHANGED token
    BY <1>7 DEF RegisterFind, CliFind, UpdatePassword, Buying, tables
  <2>2. Finish(r) \/ \E job : Goto(r, job) /\ job.token = req[r].token
    <3>1. CASE RegisterFind(r)
      <4>1. [req[r] EXCEPT !.at = "registerInsert"].token = req[r].token
        BY <1>0 DEF Request
      <4> QED BY <3>1, <4>1 DEF RegisterFind
    <3>2. CASE CliFind(r)
      <4>1. \A u : [req[r] EXCEPT !.at = "cliUpdate", !.user = u, !.email = None].token = req[r].token
        BY <1>0 DEF Request
      <4> QED BY <3>2, <4>1 DEF CliFind
    <3>3. CASE UpdatePassword(r)
      <4>1. [req[r] EXCEPT !.at = IF @ = "cliUpdate" THEN "cliRevokeAll" ELSE "changeRevokeAll"].token
              = req[r].token
        BY <1>0 DEF Request
      <4> QED BY <3>3, <4>1 DEF UpdatePassword
    <3> QED BY <1>7, <3>1, <3>2, <3>3
  <2> QED BY <1>2, <1>3, <1>5, <2>1, <2>2
<1>8. CASE RegisterInsert(r)
  <2>1. req[r].at \notin Buying /\ UNCHANGED token
    BY <1>8 DEF RegisterInsert, Buying
  <2>2. \A u : [req[r] EXCEPT !.at = "issue", !.user = u, !.email = None].token = req[r].token
    BY <1>0 DEF Request
  <2>3. Finish(r) \/ \E job : Goto(r, job) /\ job.token = req[r].token
    BY <1>8, <2>2 DEF RegisterInsert
  <2> QED BY <1>2, <1>3, <1>5, <2>1, <2>3
<1>9. CASE RefreshRevoke(r)
  <2> DEFINE job == [req[r] EXCEPT !.at = "refreshUser"]
             t0 == req[r].token
  <2>1. job.token = t0 /\ job.at = "refreshUser" /\ Goto(r, job)
    BY <1>0, <1>9 DEF RefreshRevoke, Request
  <2>2. t0 \in Token /\ RevokeToken(t0)
    BY <1>0, <1>9 DEF RefreshRevoke, JobOK
  <2> HIDE DEF job, t0
  <2>3. (\A t \in Token : Spends(t)) /\ token'[t0].state # "valid"
    BY <1>0, <2>2 DEF RevokeToken, RowExists, Spends, TokensOK, TokenRow
  <2> QED BY <1>1, <2>1, <2>3 DEF Buying, t0
<1>10. CASE RefreshUser(r)
  <2> DEFINE job == [req[r] EXCEPT !.at = "issue", !.role = user[req[r].user].role]
  <2>1. job.token = req[r].token /\ job.at = "issue" /\ UNCHANGED token
    BY <1>0, <1>10 DEF RefreshUser, Request, tables
  <2>2. req[r].token # None => token'[req[r].token].state # "valid"
    <3>1. ASSUME req[r].token # None, token[req[r].token].state = "valid" PROVE FALSE
      <4>1. req[r].token \in Token /\ r \in Buyers(req[r].token)
        BY <1>0, <3>1 DEF Request, Buyers
      <4>2. req[r].at = "refreshRevoke"
        BY <3>1, <4>1 DEF Unspent, ValidUnspent
      <4> QED BY <1>10, <4>2 DEF RefreshUser
    <3> QED BY <2>1, <3>1
  <2>3. Goto(r, job) \/ Finish(r)
    BY <1>10 DEF RefreshUser
  <2> HIDE DEF job
  <2> QED BY <1>1, <1>2, <1>3, <2>1, <2>2, <2>3 DEF Buying
<1>11. ASSUME DeleteTokensOf(req[r].user) PROVE \A t \in Token : Spends(t)
  BY <1>11 DEF DeleteTokensOf, Deleted, NoToken, Spends
<1>12. CASE RevokeAll(r)
  BY <1>3, <1>11, <1>12 DEF RevokeAll
<1>13. CASE DeleteTokens(r)
  <2> DEFINE job == [req[r] EXCEPT !.at = "deleteUser"]
  <2>1. job.token = req[r].token /\ Goto(r, job)
    BY <1>0, <1>13 DEF DeleteTokens, Request
  <2>2. req[r].token = None
    BY <1>4, <1>13 DEF DeleteTokens, Buying
  <2>3. \A t \in Token : Spends(t)
    BY <1>11, <1>13 DEF DeleteTokens
  <2> HIDE DEF job
  <2> QED BY <1>1, <2>1, <2>2, <2>3
<1>14. CASE RoleUpdate(r) \/ DeleteUserRow(r) \/ CreateInsert(r) \/ StatementFails(r)
  BY <1>2, <1>3, <1>14 DEF RoleUpdate, DeleteUserRow, CreateInsert, StatementFails, tables
<1>15. ~RevocationFails(r)
  BY DEF RevocationFails
<1> QED BY <1>6, <1>7, <1>8, <1>9, <1>10, <1>12, <1>13, <1>14, <1>15 DEF Continue

\* One refresh token buys no more successors than requests may overlap, and
\* exactly one when they do not, as long as no revocation fails unnoticed
\* ("ignored": RefreshToken drops the error of RevokeRefreshToken).
THEOREM AuthReplayBounded ==
  ASSUME "ignored" \notin Ops
  PROVE  Spec => []RefreshReplayBounded
<1>1. Init => FlightBounded /\ Unspent
  <2> SUFFICES ASSUME Init PROVE FlightBounded /\ Unspent
    OBVIOUS
  <2>1. /\ \A r \in Req : req[r] = Idle
        /\ \A t \in Token : token[t] = NoToken
        /\ Idle.at = "idle" /\ Idle.token = None /\ NoToken.from = None /\ NoToken.state = "unissued"
    BY DEF Init, Idle, NoToken
  <2>2. \A t \in Token : t # None
    BY AuthAssumption
  <2>3. InFlight = {} /\ \A t \in Token : Bought(t) = {} /\ Buyers(t) = {}
    BY <2>1, <2>2 DEF InFlight, Bought, Buyers
  <2>4. Cardinality({}) = 0
    BY FS_EmptySet
  <2>5. FlightBounded /\ SharedBound
    BY <2>3, <2>4, AuthAssumption DEF FlightBounded, SharedBound
  <2>6. HoldersBuy /\ UnissuedUnspent /\ ValidUnspent
    BY <2>1, <2>3 DEF HoldersBuy, UnissuedUnspent, ValidUnspent
  <2> QED BY <2>5, <2>6 DEF Unspent
<1>2. TypeOK /\ FlightBounded /\ Unspent /\ [Next]_vars => FlightBounded' /\ Unspent'
  <2> SUFFICES ASSUME TypeOK, FlightBounded, Unspent, [Next]_vars PROVE FlightBounded' /\ Unspent'
    OBVIOUS
  <2>1. FlightBounded'
    BY FlightStaysBounded
  <2>2. UNCHANGED token => \A t \in Token : Spends(t)
    BY DEF Spends
  <2>3. ASSUME NEW r \in Req, Start(r) PROVE Unspent'
    <3>1. CASE UNCHANGED req
      <4>1. ASSUME NEW t0 \in Token, RevokeToken(t0) PROVE \A t \in Token : Spends(t)
        BY <4>1 DEF RevokeToken, Spends, TypeOK, TokenRow
      <4>2. CASE \A t \in Token : Spends(t)
        BY <3>1, <4>2, SpendingKeepsUnspent
      <4>3. UNCHANGED token \/ (\E t \in Token : RevokeToken(t)) \/ (\E t \in Token : RefreshFind(r, t) /\ token[t].state = "valid")
        BY <2>3, StartTakes
      <4>4. ASSUME NEW t \in Token, RefreshFind(r, t) PROVE UNCHANGED token
        BY <4>4 DEF RefreshFind, tables
      <4> QED BY <2>2, <4>1, <4>2, <4>3, <4>4
    <3>2. CASE UNCHANGED token /\ \E job : Goto(r, job) /\ Entered(job)
      <4>1. req'[r].token = None /\ \A q \in Req \ {r} : req'[q] = req[q]
        BY <3>2, GotoMoves DEF Entered
      <4>2. \A q \in Req : req'[q] = req[q] \/ MovesOn(q)
        BY <4>1 DEF MovesOn
      <4> QED BY <2>2, <3>2, <4>2, SpendingKeepsUnspent
    <3>3. ASSUME NEW t \in Token, RefreshFind(r, t), token[t].state = "valid" PROVE Unspent'
      BY <2>1, <3>3, RefreshFindKeepsUnspent
    <3> QED BY <2>3, <3>1, <3>2, <3>3, StartTakes
  <2>4. ASSUME NEW r \in Req, Continue(r) PROVE Unspent'
    BY <2>4, ContinueKeepsUnspent
  <2>5. CASE Restart
    <3>1. \A t \in Token : Spends(t)
      BY <2>5 DEF Restart, Deleted, NoToken, Spends
    <3>2. \A q \in Req : req'[q] = req[q] \/ req'[q].token = None
      BY <2>5, RestartTables DEF Idle
    <3>3. \A q \in Req : req'[q] = req[q] \/ MovesOn(q)
      BY <3>2 DEF MovesOn
    <3> QED BY <2>1, <3>1, <3>3, SpendingKeepsUnspent
  <2>6. CASE Tick \/ UNCHANGED vars
    <3>1. UNCHANGED <<token, req>>
      BY <2>6 DEF Tick, vars, tables
    <3> QED BY <2>1, <2>2, <3>1, SpendingKeepsUnspent
  <2> QED BY <2>1, <2>3, <2>4, <2>5, <2>6 DEF Next
<1>3. Unspent => RefreshReplayBounded
  <2> SUFFICES ASSUME Unspent, NEW t \in Token PROVE Cardinality(Bought(t)) <= MaxInFlight
    BY DEF RefreshReplayBounded, Bought
  <2> QED BY PurchasesFinite, AuthAssumption DEF Unspent, SharedBound
<1> QED BY AuthTyped, <1>1, <1>2, <1>3, PTL DEF Spec

---------------------------------------------------------------------------
(* Why a password change leaves no older session, unless a request of the  *)
(* user is on its way to a token.                                          *)

\* While a change or a reset deletes the tokens of a user, no request of that
\* user has been found good for one.
SessionsWait ==
  \A r, q \in Req :
    req[r].at \in {"changeRevokeAll", "cliRevokeAll"} /\ req[q].at \in Buying
      => req[r].user # req[q].user

\* A request on the way to a token of a settled user carries the present password.
Due(job) ==
  job.at \in Buying =>
    /\ user[job.user].state # "unused"
    /\ job.user \in settled /\ Present(job.user) => job.pw = user[job.user].pw

PasswordKept == PasswordChangeEndsSessions /\ \A r \in Req : Due(req[r])

\* The valid tokens after the step were valid before it.
OpensNone == \A t \in Token : token'[t].state = "valid" =>
               /\ token[t].state = "valid"
               /\ token'[t].user = token[t].user /\ token'[t].pw = token[t].pw

\* A settled user was so before with the same password, or has no session and,
\* unless deleted, no request on the way to one.
SettlesSafely ==
  \A u \in settled' :
    \/ u \in settled /\ user'[u].pw = user[u].pw
    \/ /\ \A t \in Token : token'[t].state = "valid" => token'[t].user # u
       /\ user'[u].state = "present"
            => \A q \in Req : req[q].at \in Buying => req[q].user # u

\* An id is used once.
IdKept(u) == \/ user[u].state = "unused"
             \/ user'[u].state \in {user[u].state, "deleted"}

LEMMA IdsKept ==
  ASSUME TypeOK, [Next]_vars, NEW u \in UserId
  PROVE  IdKept(u)
<1>0. UsersOK
  BY TypeOKParts
<1>1. CASE UNCHANGED user
  BY <1>1 DEF IdKept
<1>2. ASSUME NEW r \in Req, Start(r) PROVE IdKept(u)
  BY <1>0, <1>2, StartLeaves, PromoteFirstOK DEF IdKept
<1>3. ASSUME NEW n \in FreshUser, NEW e, NEW ro, NEW p, InsertUser(n, e, ro, p) PROVE IdKept(u)
  BY <1>0, <1>3, FreshUserOK DEF InsertUser, UsersOK, IdKept
<1>4. ASSUME NEW r \in Req, Continue(r) PROVE IdKept(u)
  <2>1. CASE RegisterInsert(r) \/ CreateInsert(r)
    BY <1>1, <1>3, <2>1 DEF RegisterInsert, CreateInsert
  <2>2. CASE UpdatePassword(r)
    <3>1. UNCHANGED user \/ user' = [user EXCEPT ![req[r].user].pw = req[r].pw]
      BY <2>2 DEF UpdatePassword
    <3> QED BY <1>0, <3>1 DEF UsersOK, UserRow, IdKept
  <2>3. CASE RoleUpdate(r)
    <3>1. UNCHANGED user \/ user' = [user EXCEPT ![req[r].user].role = req[r].role]
      BY <2>3 DEF RoleUpdate
    <3> QED BY <1>0, <3>1 DEF UsersOK, UserRow, IdKept
  <2>4. CASE DeleteUserRow(r)
    <3>1. UNCHANGED user \/ user' = [user EXCEPT ![req[r].user] = [NoUser EXCEPT !.state = "deleted"]]
      BY <2>4 DEF DeleteUserRow
    <3>2. user'[u] \in {user[u], [NoUser EXCEPT !.state = "deleted"]}
      BY <1>0, <3>1 DEF UsersOK
    <3> QED BY <3>2 DEF NoUser, IdKept
  <2>5. CASE \/ Issue(r) \/ RegisterFind(r) \/ RefreshRevoke(r) \/ RefreshUser(r) \/ CliFind(r)
             \/ RevokeAll(r) \/ DeleteTokens(r) \/ StatementFails(r) \/ RevocationFails(r)
    BY <1>1, <2>5 DEF Issue, RegisterFind, RefreshRevoke, RefreshUser, CliFind, RevokeAll,
                      DeleteTokens, StatementFails, RevocationFails, tables
  <2> QED BY <1>4, <2>1, <2>2, <2>3, <2>4, <2>5 DEF Continue
<1>5. CASE Restart
  <2> DEFINE rows == PromoteFirst(user)
             provision == Provisions
                            /\ \A w \in UserId : ~(rows[w].state = "present" /\ rows[w].email = AdminEmail)
             new == IF provision THEN FreshUser ELSE {}
  <2>1. user'[u] = IF u \in new THEN ProvisionedRow ELSE rows[u]
    BY <1>5 DEF Restart
  <2>2. u \in new => user[u].state = "unused"
    BY FreshUserOK
  <2> HIDE DEF new
  <2> QED BY <1>0, <2>1, <2>2, PromoteFirstOK DEF IdKept
<1>6. CASE Tick \/ UNCHANGED vars
  BY <1>1, <1>6 DEF Tick, vars, tables
<1> QED BY <1>2, <1>4, <1>5, <1>6 DEF Next

LEMMA SessionsEnd ==
  ASSUME PasswordChangeEndsSessions, OpensNone, SettlesSafely
  PROVE  PasswordChangeEndsSessions'
<1> SUFFICES ASSUME NEW t \in Token, token'[t].state = "valid", token'[t].user \in settled'
             PROVE  token'[t].pw = user'[token'[t].user].pw
  BY DEF PasswordChangeEndsSessions
<1>1. token[t].state = "valid" /\ token'[t].user = token[t].user /\ token'[t].pw = token[t].pw
  BY DEF OpensNone
<1>2. token[t].user \in settled /\ user'[token[t].user].pw = user[token[t].user].pw
  BY <1>1 DEF SettlesSafely
<1> QED BY <1>1, <1>2 DEF PasswordChangeEndsSessions

\* A request that stays where it is still carries the present password.
LEMMA StaysDue ==
  ASSUME TypeOK, PasswordKept, SettlesSafely, \A u \in UserId : IdKept(u),
         NEW q \in Req, req'[q] = req[q]
  PROVE  Due(req[q])'
<1> DEFINE u == req[q].user
<1> SUFFICES ASSUME req[q].at \in Buying
             PROVE  /\ user'[u].state # "unused"
                    /\ u \in settled' /\ user'[u].state = "present" => req[q].pw = user'[u].pw
  BY DEF Due, Present
<1>1. u \in UserId
  BY DEF TypeOK, Buying, UsesUser
<1>2. user[u].state # "unused" /\ (u \in settled /\ Present(u) => req[q].pw = user[u].pw)
  BY DEF PasswordKept, Due
<1>3. user'[u].state \in {user[u].state, "deleted"}
  BY <1>1, <1>2 DEF IdKept
<1>4. ASSUME u \in settled', user'[u].state = "present" PROVE req[q].pw = user'[u].pw
  <2>1. u \in settled /\ user'[u].pw = user[u].pw
    BY <1>4 DEF SettlesSafely
  <2> QED BY <1>2, <1>3, <1>4, <2>1 DEF Present
<1> QED BY <1>2, <1>3, <1>4

LEMMA MoveKeepsPassword ==
  ASSUME TypeOK, PasswordKept, SettlesSafely, \A u \in UserId : IdKept(u),
         PasswordChangeEndsSessions',
         NEW r \in Req, NEW job, Goto(r, job),
         job.at \in Buying => /\ user'[job.user].state # "unused"
                              /\ job.user \in settled' /\ user'[job.user].state = "present"
                                   => job.pw = user'[job.user].pw
  PROVE  PasswordKept'
<1>1. req'[r] = job /\ \A q \in Req \ {r} : req'[q] = req[q]
  BY GotoMoves
<1>2. Due(req[r])'
  BY <1>1 DEF Due, Present
<1>3. \A q \in Req \ {r} : Due(req[q])'
  BY <1>1, StaysDue
<1> QED BY <1>2, <1>3 DEF PasswordKept

\* Starting the program changes no password.
LEMMA PromotionKeepsPassword == TypeOK => \A u \in UserId : PromoteFirst(user)[u].pw = user[u].pw
BY DEF PromoteFirst, TypeOK, UserRow

\* An id nobody has used has no session.
LEMMA FreshHasNoSession ==
  ASSUME NoOrphanSession, NEW u \in FreshUser, NEW t \in Token, token[t].state = "valid"
  PROVE  token[t].user # u
BY DEF NoOrphanSession, FreshUser, Present, RowExists

LEMMA StartKeepsPassword ==
  ASSUME TypeOK, NoOrphanSession, PasswordKept, NEW r \in Req, Start(r)
  PROVE  PasswordKept'
<1>1. /\ settled' = settled
      /\ \A u \in UserId : user'[u].pw = user[u].pw /\ user'[u].state = user[u].state
  BY StartLeaves, PromotionKeepsPassword, PromoteFirstOK, TypeOKParts
<1>2. settled \subseteq UserId
  BY DEF TypeOK
<1>3. SettlesSafely /\ \A u \in UserId : IdKept(u)
  BY <1>1, <1>2 DEF SettlesSafely, IdKept
<1>4. ASSUME OpensNone PROVE PasswordChangeEndsSessions'
  BY <1>3, <1>4, SessionsEnd DEF PasswordKept
<1>5. UNCHANGED token => OpensNone
  BY DEF OpensNone
<1>6. ASSUME NEW t0 \in Token, RevokeToken(t0) PROVE OpensNone
  BY <1>6 DEF RevokeToken, OpensNone, TypeOK, TokenRow
<1>7. CASE UNCHANGED req /\ (UNCHANGED token \/ \E t \in Token : RevokeToken(t))
  <2>1. PasswordChangeEndsSessions'
    BY <1>4, <1>5, <1>6, <1>7
  <2>2. \A q \in Req : Due(req[q])'
    BY <1>3, <1>7, StaysDue
  <2> QED BY <2>1, <2>2 DEF PasswordKept
<1>8. CASE (\E job : Goto(r, job) /\ Entered(job)) /\ UNCHANGED token
  <2>1. PICK job : Goto(r, job) /\ Entered(job)
    BY <1>8
  <2>2. job.at \in Buying => user'[job.user].state # "unused" /\ job.pw = user'[job.user].pw
    BY <1>1, <2>1 DEF Entered, Present
  <2> QED BY <1>3, <1>4, <1>5, <1>8, <2>1, <2>2, MoveKeepsPassword
<1>9. ASSUME NEW t \in Token, RefreshFind(r, t), token[t].state = "valid" PROVE PasswordKept'
  <2> DEFINE job == [Idle EXCEPT !.at = "refreshRevoke", !.user = token[t].user, !.token = t,
                                 !.pw = token[t].pw]
  <2>1. Goto(r, job) /\ job.user = token[t].user /\ job.pw = token[t].pw /\ UNCHANGED <<user, token, settled>>
    BY <1>9 DEF RefreshFind, Idle, tables, history
  <2> HIDE DEF job
  <2>2. Present(job.user)
    BY <1>9, <2>1 DEF NoOrphanSession, RowExists
  <2>3. job.user \in settled' => job.pw = user'[job.user].pw
    BY <1>9, <2>1 DEF PasswordKept, PasswordChangeEndsSessions
  <2> QED BY <1>3, <1>4, <1>5, <2>1, <2>2, <2>3, MoveKeepsPassword DEF Present
<1> QED BY <1>7, <1>8, <1>9, StartTakes

LEMMA ContinueKeepsPassword ==
  ASSUME "ignored" \notin Ops, TypeOK, NoOrphanSession, SessionsWait, PasswordKept,
         \A u \in UserId : IdKept(u), NEW r \in Req, Continue(r)
  PROVE  PasswordKept'
<1>0. JobOK(req[r]) /\ req[r] \in Request /\ TokensOK /\ UsersOK /\ settled \subseteq UserId
  BY TypeOKParts DEF RequestsOK, JobOK, HistoryOK
<1>1. ASSUME NEW u \in UserId, user[u].state # "unused"
      PROVE  /\ user'[u].state # "unused"
             /\ user'[u].state = "present" => Present(u)
  BY <1>1 DEF IdKept, Present
<1>2. ASSUME NEW job, Goto(r, job), OpensNone, SettlesSafely,
             job.at \in Buying => /\ user'[job.user].state # "unused"
                                  /\ job.user \in settled' /\ user'[job.user].state = "present"
                                       => job.pw = user'[job.user].pw
      PROVE  PasswordKept'
  BY <1>2, SessionsEnd, MoveKeepsPassword DEF PasswordKept
<1>3. ASSUME Finish(r), OpensNone, SettlesSafely PROVE PasswordKept'
  BY <1>2, <1>3 DEF Finish, Idle, Buying
<1>4. UNCHANGED token => OpensNone
  BY DEF OpensNone
<1>5. UNCHANGED <<user, settled>> => SettlesSafely
  BY DEF SettlesSafely
<1>6. Due(req[r]) /\ (req[r].at \in Buying => req[r].user \in UserId)
  BY <1>0 DEF PasswordKept, JobOK, Buying, UsesUser
<1>7. CASE Issue(r)
  <2> DEFINE u == req[r].user
  <2>1. u \in UserId /\ req[r].at = "issue" /\ Finish(r) /\ UNCHANGED <<user, settled>>
    BY <1>0, <1>7 DEF Issue, JobOK, UsesUser, history
  <2>2. CASE ~Present(u)
    BY <1>3, <1>4, <1>5, <1>7, <2>1, <2>2 DEF Issue
  <2>3. CASE Present(u)
    <3>1. PICK n \in FreshToken :
            token' = [token EXCEPT ![n] = [state |-> "valid", user |-> u,
                        exp |-> clock + RefreshTTL, from |-> req[r].token, pw |-> req[r].pw]]
      BY <1>7, <2>3 DEF Issue
    <3>2. n \in Token
      BY DEF FreshToken
    <3>3. token'[n].user = u /\ token'[n].pw = req[r].pw /\ \A t \in Token \ {n} : token'[t] = token[t]
      BY <3>1, <3>2 DEF TypeOK
    <3>4. u \in settled => req[r].pw = user[u].pw
      BY <1>6, <2>1, <2>3 DEF Due, Buying
    <3>5. PasswordChangeEndsSessions'
      BY <2>1, <3>3, <3>4 DEF PasswordKept, PasswordChangeEndsSessions
    <3>6. Goto(r, Idle) /\ Idle.at \notin Buying
      BY <2>1 DEF Finish, Idle, Buying
    <3>7. SettlesSafely
      BY <1>5, <2>1
    <3> QED BY <3>5, <3>6, <3>7, MoveKeepsPassword
  <2> QED BY <2>2, <2>3
<1>8. CASE RegisterFind(r)
  <2>1. [req[r] EXCEPT !.at = "registerInsert"].at \notin Buying
    BY <1>0 DEF Request, Buying
  <2> QED BY <1>2, <1>3, <1>4, <1>5, <1>8, <2>1 DEF RegisterFind, tables, history
<1>9. ASSUME NEW u \in FreshUser, NEW e, NEW ro, NEW p, InsertUser(u, e, ro, p), UNCHANGED token
      PROVE  SettlesSafely /\ user'[u].pw = p /\ user'[u].state = "present"
  <2>1. u \in UserId /\ user \in [UserId -> UserRow]
    BY <1>0 DEF FreshUser, UsersOK
  <2>2. user'[u].pw = p /\ user'[u].state = "present" /\ \A v \in UserId \ {u} : user'[v] = user[v]
    BY <1>9, <2>1 DEF InsertUser
  <2>3. settled' = settled \cup {u} /\ \A t \in Token : token'[t].state = "valid" => token'[t].user # u
    BY <1>9, FreshHasNoSession DEF InsertUser
  <2>4. \A q \in Req : req[q].at \in Buying => req[q].user # u
    BY FreshUserOK DEF PasswordKept, Due
  <2> QED BY <1>0, <2>2, <2>3, <2>4 DEF SettlesSafely
<1>10. CASE RegisterInsert(r)
  <2>1. CASE Finish(r) /\ UNCHANGED <<user, history>>
    BY <1>3, <1>4, <1>5, <1>10, <2>1 DEF RegisterInsert, history
  <2>2. CASE \E u \in FreshUser : /\ InsertUser(u, req[r].email, req[r].role, req[r].pw)
                                  /\ Goto(r, [req[r] EXCEPT !.at = "issue", !.user = u, !.email = None])
    <3>1. PICK u \in FreshUser : /\ InsertUser(u, req[r].email, req[r].role, req[r].pw)
                                 /\ Goto(r, [req[r] EXCEPT !.at = "issue", !.user = u, !.email = None])
      BY <2>2
    <3> DEFINE job == [req[r] EXCEPT !.at = "issue", !.user = u, !.email = None]
    <3>2. job.user = u /\ job.pw = req[r].pw /\ Goto(r, job) /\ UNCHANGED token
      BY <1>0, <1>10, <3>1 DEF Request, RegisterInsert
    <3>3. SettlesSafely /\ user'[u].pw = req[r].pw /\ user'[u].state = "present"
      BY <1>9, <3>1, <3>2
    <3> HIDE DEF job
    <3> QED BY <1>2, <1>4, <3>2, <3>3
  <2> QED BY <1>10, <2>1, <2>2 DEF RegisterInsert
<1>11. CASE RefreshRevoke(r)
  <2> DEFINE job == [req[r] EXCEPT !.at = "refreshUser"]
  <2>1. job.user = req[r].user /\ job.pw = req[r].pw /\ Goto(r, job) /\ UNCHANGED <<user, settled>>
    BY <1>0, <1>11 DEF RefreshRevoke, Request, history
  <2>2. OpensNone
    BY <1>0, <1>11 DEF RefreshRevoke, RevokeToken, OpensNone, TokensOK, TokenRow
  <2>3. req[r].at \in Buying
    BY <1>11 DEF RefreshRevoke, Buying
  <2> HIDE DEF job
  <2> QED BY <1>1, <1>2, <1>5, <1>6, <2>1, <2>2, <2>3 DEF Due, Present
<1>12. CASE RefreshUser(r)
  <2> DEFINE job == [req[r] EXCEPT !.at = "issue", !.role = user[req[r].user].role]
  <2>1. job.user = req[r].user /\ job.pw = req[r].pw /\ UNCHANGED <<user, settled, token>>
    BY <1>0, <1>12 DEF RefreshUser, Request, tables, history
  <2>2. req[r].at \in Buying /\ (Goto(r, job) \/ Finish(r))
    BY <1>12 DEF RefreshUser, Buying
  <2> HIDE DEF job
  <2> QED BY <1>1, <1>2, <1>3, <1>4, <1>5, <1>6, <2>1, <2>2 DEF Due, Present
<1>13. CASE CliFind(r)
  <2>1. \A u : [req[r] EXCEPT !.at = "cliUpdate", !.user = u, !.email = None].at \notin Buying
    BY <1>0 DEF Request, Buying
  <2> QED BY <1>2, <1>3, <1>4, <1>5, <1>13, <2>1 DEF CliFind, tables, history
<1>14. CASE UpdatePassword(r)
  <2> DEFINE u == req[r].user
             job == [req[r] EXCEPT !.at = IF @ = "cliUpdate" THEN "cliRevokeAll" ELSE "changeRevokeAll"]
  <2>1. Goto(r, job) /\ job.at \notin Buying /\ UNCHANGED token /\ settled' = settled \ {u}
    BY <1>0, <1>14 DEF UpdatePassword, Request, Buying
  <2>2. user' = [user EXCEPT ![u].pw = req[r].pw] \/ user' = user
    BY <1>14 DEF UpdatePassword
  <2>3. \A v \in UserId \ {u} : user'[v] = user[v]
    BY <1>0, <2>2 DEF UsersOK
  <2>4. SettlesSafely
    BY <1>0, <2>1, <2>3 DEF SettlesSafely
  <2> HIDE DEF job
  <2> QED BY <1>2, <1>4, <2>1, <2>4
<1>15. ASSUME DeleteTokensOf(req[r].user)
       PROVE  /\ OpensNone
              /\ \A t \in Token : token'[t].state = "valid" => token'[t].user # req[r].user
  BY <1>15 DEF DeleteTokensOf, Deleted, NoToken, OpensNone, TokensOf, RowExists
<1>16. CASE RevokeAll(r)
  <2>1. DeleteTokensOf(req[r].user) /\ Finish(r) /\ UNCHANGED user
    BY <1>16 DEF RevokeAll
  <2>2. CASE settled' = settled
    BY <1>3, <1>5, <1>15, <2>1, <2>2
  <2>3. CASE settled' = settled \cup {req[r].user} /\ req[r].at # "reuseRevokeAll"
    <3>1. \A q \in Req : req[q].at \in Buying => req[q].user # req[r].user
      BY <1>16, <2>3 DEF RevokeAll, RevokeAllSteps, SessionsWait
    <3>2. SettlesSafely
      BY <1>15, <2>1, <2>3, <3>1 DEF SettlesSafely
    <3> QED BY <1>3, <1>15, <2>1, <3>2
  <2> QED BY <1>16, <2>2, <2>3 DEF RevokeAll
<1>17. CASE RoleUpdate(r)
  <2>1. UNCHANGED <<token, settled>> /\ Finish(r)
    BY <1>17 DEF RoleUpdate
  <2>2. \A u \in UserId : user'[u].pw = user[u].pw
    BY <1>0, <1>17 DEF RoleUpdate, UsersOK, UserRow
  <2> QED BY <1>0, <1>3, <1>4, <2>1, <2>2 DEF SettlesSafely
<1>18. CASE DeleteTokens(r)
  <2>1. [req[r] EXCEPT !.at = "deleteUser"].at \notin Buying
    BY <1>0 DEF Request, Buying
  <2> QED BY <1>2, <1>5, <1>15, <1>18, <2>1 DEF DeleteTokens, history
<1>19. CASE DeleteUserRow(r)
  <2> DEFINE u == req[r].user
  <2>1. UNCHANGED <<token, settled>> /\ Finish(r)
    BY <1>19 DEF DeleteUserRow, history
  <2>2. \/ user' = user
        \/ TokensOf(u) = {} /\ user' = [user EXCEPT ![u] = [NoUser EXCEPT !.state = "deleted"]]
    BY <1>19 DEF DeleteUserRow
  <2>3. [NoUser EXCEPT !.state = "deleted"].state # "present"
    BY DEF NoUser
  <2>4. ASSUME NEW v \in UserId
        PROVE  \/ user'[v] = user[v]
               \/ v = u /\ TokensOf(u) = {} /\ user'[v].state # "present"
    <3>1. user \in [UserId -> UserRow]
      BY <1>0 DEF UsersOK
    <3>2. user'[v] = user[v] \/ (v = u /\ TokensOf(u) = {} /\ user'[v] = [NoUser EXCEPT !.state = "deleted"])
      BY <2>2, <3>1
    <3> QED BY <2>3, <3>2
  <2>5. SettlesSafely
    BY <1>0, <2>1, <2>4 DEF SettlesSafely, TokensOf, RowExists
  <2> QED BY <1>3, <1>4, <2>1, <2>5
<1>20. CASE CreateInsert(r)
  <2>1. UNCHANGED token /\ Finish(r)
    BY <1>20 DEF CreateInsert
  <2>2. SettlesSafely
    BY <1>5, <1>9, <1>20, <2>1 DEF CreateInsert
  <2> QED BY <1>3, <1>4, <2>1, <2>2
<1>21. CASE StatementFails(r)
  BY <1>3, <1>4, <1>5, <1>21 DEF StatementFails, tables, history
<1>22. ~RevocationFails(r)
  BY DEF RevocationFails
<1> QED BY <1>7, <1>8, <1>10, <1>11, <1>12, <1>13, <1>14, <1>16, <1>17, <1>18, <1>19, <1>20,
           <1>21, <1>22 DEF Continue

\* However requests overlap, and wherever the server restarts: once a password
\* change has been reported, the user's sessions are those opened with it, as
\* long as no request of the user is on its way to a token while the change
\* deletes them.  Such a request may open an older one, which the run
\* auth_password shows, and so may a revocation whose failure is dropped
\* ("ignored").
THEOREM AuthPasswordChangeEndsSessions ==
  ASSUME "ignored" \notin Ops
  PROVE  Spec /\ []SessionsWait => []PasswordChangeEndsSessions
<1>1. Init => PasswordKept
  BY DEF Init, Idle, PasswordKept, PasswordChangeEndsSessions, Due, Buying, NoToken
<1>2. TypeOK /\ NoOrphanSession /\ SessionsWait /\ PasswordKept /\ [Next]_vars => PasswordKept'
  <2> SUFFICES ASSUME TypeOK, NoOrphanSession, SessionsWait, PasswordKept, [Next]_vars
               PROVE  PasswordKept'
    OBVIOUS
  <2>1. \A u \in UserId : IdKept(u)
    BY IdsKept
  <2>2. ASSUME NEW r \in Req, Start(r) \/ Continue(r) PROVE PasswordKept'
    BY <2>1, <2>2, StartKeepsPassword, ContinueKeepsPassword
  <2>3. CASE Restart
    <3> DEFINE rows == PromoteFirst(user)
               provision == Provisions
                              /\ \A u \in UserId : ~(rows[u].state = "present" /\ rows[u].email = AdminEmail)
               new == IF provision THEN FreshUser ELSE {}
    <3>1. /\ \A u \in UserId : user'[u] = IF u \in new THEN ProvisionedRow ELSE rows[u]
          /\ settled' = settled \cup new
      BY <2>3 DEF Restart
    <3>2. OpensNone
      BY <2>3 DEF Restart, OpensNone, Deleted, NoToken
    <3>3. \A u \in new : \A t \in Token : token'[t].state = "valid" => token'[t].user # u
      BY <3>2, FreshHasNoSession DEF OpensNone
    <3>4. \A u \in UserId \ new : user'[u].pw = user[u].pw
      BY <3>1, PromotionKeepsPassword
    <3>5. new \subseteq FreshUser
      OBVIOUS
    <3> HIDE DEF new
    <3>6. \A u \in new : \A q \in Req : req[q].at \in Buying => req[q].user # u
      BY <3>5, FreshUserOK DEF PasswordKept, Due
    <3>7. settled \subseteq UserId
      BY DEF TypeOK
    <3>8. SettlesSafely
      BY <3>1, <3>3, <3>4, <3>6, <3>7 DEF SettlesSafely
    <3>9. PasswordChangeEndsSessions'
      BY <3>2, <3>8, SessionsEnd DEF PasswordKept
    <3>10. \A r \in Req : req'[r].at \notin Buying
      BY <2>3, RestartTables, IdleOK DEF CliSteps, Buying
    <3>11. PasswordKept'
      BY <3>9, <3>10 DEF PasswordKept, Due
    <3> QED BY <3>11
  <2>4. CASE Tick \/ UNCHANGED vars
    <3>1. UNCHANGED <<user, token, req, settled>>
      BY <2>4 DEF Tick, vars, tables
    <3>2. PasswordKept'
      BY <3>1 DEF PasswordKept, PasswordChangeEndsSessions, Due, Present
    <3> QED BY <3>2
  <2> QED BY <2>2, <2>3, <2>4 DEF Next
<1>3. PasswordKept => PasswordChangeEndsSessions
  BY DEF PasswordKept
<1> QED BY AuthTyped, AuthNoOrphanSession, <1>1, <1>2, <1>3, PTL DEF Spec

---------------------------------------------------------------------------
(* Why registration closes behind the first, unless two of them overlap.   *)

\* No two requests are between the count of the users and the insert.
RegistrationsAlone ==
  \A r, q \in Req : req[r].at \in Registering /\ req[q].at \in Registering => r = q

\* Whoever has registered has left somebody there, and nobody is registering any more.
RegisteredOnce ==
  ~RegistrationOpen =>
    \/ selfRegistered = {}
    \/ /\ \E u \in UserId : selfRegistered = {u}
       /\ \E u \in UserId : Present(u)
       /\ \A r \in Req : req[r].at \notin Registering

\* Somebody is always left: the only row a statement deletes is not the last admin's.
LEMMA SomebodyStays ==
  ASSUME TypeOK, AdminKept, [Next]_vars, \E u \in UserId : Present(u)
  PROVE  \E u \in UserId : user'[u].state = "present"
<1>0. UsersOK /\ \A u \in UserId : user[u] \in UserRow
  BY TypeOKParts DEF UsersOK
<1>1. CASE \A u \in UserId : Present(u) => user'[u].state = "present"
  BY <1>1
<1>2. ASSUME NEW r \in Req, Start(r), NEW u \in UserId, Present(u)
      PROVE  user'[u].state = "present"
  BY <1>0, <1>2, StartLeaves, PromoteFirstOK DEF Present
<1>3. ASSUME NEW r \in Req, DeleteUserRow(r) PROVE \E u \in UserId : user'[u].state = "present"
  <2> DEFINE d == req[r].user
  <2>1. PICK w \in UserId \ {d} : IsAdmin(user[w])
    BY <1>3 DEF AdminKept, Checked, Demotes, DeleteUserRow
  <2>2. user'[w] = user[w]
    BY <1>0, <1>3, <2>1 DEF DeleteUserRow, UsersOK
  <2> QED BY <2>1, <2>2 DEF IsAdmin
<1>4. ASSUME NEW r \in Req, Continue(r), ~DeleteUserRow(r), NEW u \in UserId, Present(u)
      PROVE  user'[u].state = "present"
  <2>1. CASE RegisterInsert(r) \/ CreateInsert(r)
    <3>1. \/ UNCHANGED user
          \/ \E n \in FreshUser : InsertUser(n, req[r].email, req[r].role, req[r].pw)
      BY <2>1 DEF RegisterInsert, CreateInsert
    <3> QED BY <1>0, <1>4, <3>1, FreshUserOK DEF InsertUser, UsersOK, Present
  <2>2. CASE UpdatePassword(r)
    <3>1. UNCHANGED user \/ user' = [user EXCEPT ![req[r].user].pw = req[r].pw]
      BY <2>2 DEF UpdatePassword
    <3> QED BY <1>0, <1>4, <3>1 DEF UsersOK, UserRow, Present
  <2>3. CASE RoleUpdate(r)
    <3>1. UNCHANGED user \/ user' = [user EXCEPT ![req[r].user].role = req[r].role]
      BY <2>3 DEF RoleUpdate
    <3> QED BY <1>0, <1>4, <3>1 DEF UsersOK, UserRow, Present
  <2>4. CASE \/ Issue(r) \/ RegisterFind(r) \/ RefreshRevoke(r) \/ RefreshUser(r) \/ CliFind(r)
             \/ RevokeAll(r) \/ DeleteTokens(r) \/ StatementFails(r) \/ RevocationFails(r)
    <3>1. UNCHANGED user
      BY <2>4 DEF Issue, RegisterFind, RefreshRevoke, RefreshUser, CliFind, RevokeAll,
                  DeleteTokens, StatementFails, RevocationFails, tables
    <3> QED BY <1>4, <3>1 DEF Present
  <2> QED BY <1>4, <2>1, <2>2, <2>3, <2>4 DEF Continue
<1>5. ASSUME Restart, NEW u \in UserId, Present(u) PROVE user'[u].state = "present"
  BY <1>5, RestartTables DEF Present
<1>6. ASSUME Tick \/ UNCHANGED vars, NEW u \in UserId, Present(u) PROVE user'[u].state = "present"
  BY <1>6 DEF Tick, vars, tables, Present
<1> QED BY <1>1, <1>2, <1>3, <1>4, <1>5, <1>6 DEF Next

\* Registration goes from its count to its insert, and no other statement goes there.
LEMMA RegisteringMoves ==
  ASSUME TypeOK, NEW r \in Req, Continue(r), req'[r].at \in Registering
  PROVE  RegisterFind(r)
<1>0. req[r] \in Request
  BY DEF TypeOK
<1>1. ASSUME Finish(r) PROVE FALSE
  <2>1. req'[r] = Idle
    BY <1>1, GotoMoves DEF Finish
  <2> QED BY <2>1 DEF Registering, Idle
<1>2. ASSUME NEW job, Goto(r, job), job.at \notin Registering PROVE FALSE
  BY <1>2, GotoMoves
<1>3. CASE RegisterInsert(r)
  <2>1. \A u : [req[r] EXCEPT !.at = "issue", !.user = u, !.email = None].at = "issue"
    BY <1>0 DEF Request
  <2> QED BY <1>1, <1>2, <1>3, <2>1 DEF RegisterInsert, Registering
<1>4. CASE RefreshRevoke(r) \/ RevocationFails(r)
  <2>1. [req[r] EXCEPT !.at = "refreshUser"].at = "refreshUser"
    BY <1>0 DEF Request
  <2> QED BY <1>1, <1>2, <1>4, <2>1 DEF RefreshRevoke, RevocationFails, Registering
<1>5. CASE RefreshUser(r)
  <2>1. [req[r] EXCEPT !.at = "issue", !.role = user[req[r].user].role].at = "issue"
    BY <1>0 DEF Request
  <2> QED BY <1>1, <1>2, <1>5, <2>1 DEF RefreshUser, Registering
<1>6. CASE CliFind(r)
  <2>1. \A u : [req[r] EXCEPT !.at = "cliUpdate", !.user = u, !.email = None].at = "cliUpdate"
    BY <1>0 DEF Request
  <2> QED BY <1>1, <1>2, <1>6, <2>1 DEF CliFind, Registering
<1>7. CASE UpdatePassword(r)
  <2>1. [req[r] EXCEPT !.at = IF @ = "cliUpdate" THEN "cliRevokeAll" ELSE "changeRevokeAll"].at
          \in {"cliRevokeAll", "changeRevokeAll"}
    BY <1>0 DEF Request
  <2> QED BY <1>2, <1>7, <2>1 DEF UpdatePassword, Registering
<1>8. CASE DeleteTokens(r)
  <2>1. [req[r] EXCEPT !.at = "deleteUser"].at = "deleteUser"
    BY <1>0 DEF Request
  <2> QED BY <1>2, <1>8, <2>1 DEF DeleteTokens, Registering
<1>9. CASE Issue(r) \/ RevokeAll(r) \/ RoleUpdate(r) \/ DeleteUserRow(r) \/ CreateInsert(r) \/ StatementFails(r)
  BY <1>1, <1>9 DEF Issue, RevokeAll, RoleUpdate, DeleteUserRow, CreateInsert, StatementFails
<1> QED BY <1>3, <1>4, <1>5, <1>6, <1>7, <1>8, <1>9 DEF Continue

\* A request begins to register only where registration is open, or nobody is there.
LEMMA RegisteringBegins ==
  ASSUME TypeOK, NEW r \in Req, Start(r), \E u \in UserId : Present(u), ~RegistrationOpen
  PROVE  \A q \in Req : req'[q].at \in Registering => req[q].at \in Registering
<1>1. CASE UNCHANGED req
  BY <1>1
<1>2. CASE \E job : Goto(r, job) /\ Entered(job)
  <2>1. PICK job : Goto(r, job) /\ Entered(job)
    BY <1>2
  <2>2. job.at \notin Registering
    BY <2>1 DEF Entered, Registering
  <2> QED BY <2>1, <2>2, GotoMoves
<1>3. ASSUME NEW t \in Token, RefreshFind(r, t), token[t].state = "valid"
      PROVE  \A q \in Req : req'[q].at \in Registering => req[q].at \in Registering
  <2> DEFINE job == [Idle EXCEPT !.at = "refreshRevoke", !.user = token[t].user, !.token = t,
                                 !.pw = token[t].pw]
  <2>1. Goto(r, job) /\ job.at \notin Registering
    BY <1>3 DEF RefreshFind, Idle, Registering
  <2> HIDE DEF job
  <2> QED BY <2>1, GotoMoves
<1> QED BY <1>1, <1>2, <1>3, StartTakes

\* With registration disabled one account at most registers itself, as long as
\* no two registrations are between their count and their insert, and the last
\* admin stays (DemotionsAgree).  Two requests that overlap on an empty table may
\* both pass.
THEOREM AuthSelfRegistrationOnce ==
  Spec /\ []DemotionsAgree /\ []RegistrationsAlone => []SelfRegistrationOnce
<1>1. Init => RegisteredOnce
  BY DEF Init, RegisteredOnce
<1>2. TypeOK /\ AdminKept /\ RegistrationsAlone /\ RegisteredOnce /\ [Next]_vars => RegisteredOnce'
  <2> SUFFICES ASSUME TypeOK, AdminKept, RegistrationsAlone, RegisteredOnce, [Next]_vars
               PROVE  RegisteredOnce'
    OBVIOUS
  <2>2. ASSUME selfRegistered' = selfRegistered,
               \/ RegistrationOpen \/ ~\E u \in UserId : Present(u)
               \/ \A q \in Req : req'[q].at \in Registering => req[q].at \in Registering
        PROVE  RegisteredOnce'
    <3>1. CASE RegistrationOpen \/ selfRegistered = {}
      BY <2>2, <3>1 DEF RegisteredOnce
    <3>2. CASE ~RegistrationOpen /\ selfRegistered # {}
      <4>1. /\ \E u \in UserId : selfRegistered = {u}
            /\ \E u \in UserId : Present(u)
            /\ \A r \in Req : req[r].at \notin Registering
        BY <3>2 DEF RegisteredOnce
      <4>2. \E u \in UserId : user'[u].state = "present"
        BY <4>1, SomebodyStays
      <4>3. \A q \in Req : req'[q].at \notin Registering
        BY <2>2, <3>2, <4>1
      <4> QED BY <2>2, <4>1, <4>2, <4>3 DEF RegisteredOnce, Present
    <3> QED BY <3>1, <3>2
  <2>3. ASSUME NEW r \in Req, Start(r) PROVE RegisteredOnce'
    BY <2>2, <2>3, StartLeaves, RegisteringBegins
  <2>4. ASSUME NEW r \in Req, Continue(r), selfRegistered' = selfRegistered PROVE RegisteredOnce'
    <3>1. req'[r].at \in Registering => req[r].at \in Registering
      BY <2>4, RegisteringMoves DEF RegisterFind, Registering
    <3>2. \A q \in Req \ {r} : req'[q] = req[q]
      BY <2>4, ContinuesInFlight, GotoMoves
    <3>3. \A q \in Req : req'[q].at \in Registering => req[q].at \in Registering
      BY <3>1, <3>2
    <3> QED BY <2>2, <2>4, <3>3
  <2>5. ASSUME NEW r \in Req, RegisterInsert(r), selfRegistered' # selfRegistered PROVE RegisteredOnce'
    <3>1. PICK u \in FreshUser :
            /\ InsertUser(u, req[r].email, req[r].role, req[r].pw)
            /\ selfRegistered' = selfRegistered \cup {u}
      BY <2>5 DEF RegisterInsert, history
    <3>2. req[r].at = "registerInsert" /\ req[r].at \in Registering
      BY <2>5 DEF RegisterInsert, Registering
    <3>3. RegistrationOpen \/ selfRegistered = {}
      BY <3>2 DEF RegisteredOnce
    <3>4. u \in UserId /\ user'[u].state = "present"
      BY <3>1, FreshUserOK DEF InsertUser, TypeOK
    <3>5. \A q \in Req \ {r} : req'[q].at \notin Registering
      <4>1. Continue(r)
        BY <2>5 DEF Continue
      <4>2. \A q \in Req \ {r} : req'[q] = req[q]
        BY <4>1, ContinuesInFlight, GotoMoves
      <4> QED BY <3>2, <4>2 DEF RegistrationsAlone
    <3>6. req'[r].at \notin Registering
      <4>1. Continue(r) /\ req[r].at # "registerFind"
        BY <2>5, <3>2 DEF Continue
      <4> QED BY <4>1, RegisteringMoves DEF RegisterFind
    <3>7. \A q \in Req : req'[q].at \notin Registering
      BY <3>5, <3>6
    <3> QED BY <3>1, <3>3, <3>4, <3>7 DEF RegisteredOnce, Present
  <2>6. ASSUME NEW r \in Req, Continue(r), ~RegisterInsert(r) PROVE selfRegistered' = selfRegistered
    BY <2>6 DEF Continue, Issue, RegisterFind, RefreshRevoke, RefreshUser, CliFind, UpdatePassword,
                RevokeAll, RoleUpdate, DeleteTokens, DeleteUserRow, CreateInsert, StatementFails,
                RevocationFails, history
  <2>7. CASE Restart
    <3>1. selfRegistered' = selfRegistered
      BY <2>7 DEF Restart
    <3>2. \A q \in Req : req'[q].at \in Registering => req[q].at \in Registering
      BY <2>7, RestartTables, IdleOK DEF Registering
    <3> QED BY <2>2, <3>1, <3>2
  <2>8. CASE Tick \/ UNCHANGED vars
    BY <2>2, <2>8 DEF Tick, vars
  <2> QED BY <2>3, <2>4, <2>5, <2>6, <2>7, <2>8 DEF Next
<1>3. RegisteredOnce => SelfRegistrationOnce
  <2>1. Cardinality({}) = 0 /\ \A u \in UserId : Cardinality({u}) = 1
    BY FS_EmptySet, FS_Singleton
  <2> QED BY <2>1 DEF RegisteredOnce, SelfRegistrationOnce
<1> QED BY AuthTyped, AdminIsKept, <1>1, <1>2, <1>3, PTL DEF Spec

===========================================================================
