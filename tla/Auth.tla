------------------------------- MODULE Auth -------------------------------
(***************************************************************************)
(* The accounts and sessions of socAdmin: the tables users and             *)
(* refresh_tokens (core/auth/repository.go), the handlers that read and    *)
(* write them (core/controller/auth_controller.go over                     *)
(* core/service/auth_service.go), the access tokens they issue             *)
(* (core/auth/jwt.go), the start of the program (main.go) and the          *)
(* password reset that a second process runs (cli_reset.go).               *)
(*                                                                         *)
(* Every request is a goroutine of its own and no transaction spans two    *)
(* statements, so an action is ONE SQL statement together with the         *)
(* computation up to the next one; what a handler has read stays in        *)
(* req[r] while other requests run.  A request that ends without having    *)
(* written anything (a wrong password, an unknown token) is a stutter and  *)
(* has no action.  The table login_attempts is in module LoginThrottle:    *)
(* here a login may be refused at any time.                                *)
(***************************************************************************)
EXTENDS Integers, FiniteSets

CONSTANTS
  Req,              \* slots for requests (and CLI resets) in flight
  UserId,           \* rowids of users; AUTOINCREMENT never gives one twice
  Email,
  Password,
  Token,            \* refresh tokens, in the order they are issued
  None,             \* SQL NULL, or a field a request does not use
  Ops,              \* the operations a run exercises
  MaxInFlight,      \* how many requests may overlap; 1 runs them in turn
  AccessTTL,        \* AccessTokenDuration, in ticks
  RefreshTTL,       \* RefreshTokenDuration, in ticks
  MaxTime,          \* bound of the clock
  RegistrationOpen, \* what registrationEnabled() answers
  AdminEmail,       \* ADMIN_EMAIL, None when it is not set
  AdminPassword     \* ADMIN_PASSWORD

Role == {"admin", "readonly"}

AllOps == {"register", "login", "refresh", "logout", "password", "cli", "role",
           "delete", "create", "saved", "ignored", "restart"}

ASSUME AuthAssumption ==
  /\ UserId \subseteq Nat /\ IsFiniteSet(UserId)
  /\ Token \subseteq Nat /\ IsFiniteSet(Token)
  /\ IsFiniteSet(Req)
  /\ None \notin UserId /\ None \notin Token
  /\ Ops \subseteq AllOps
  /\ MaxInFlight \in Nat \ {0}
  /\ AccessTTL \in Nat \ {0} /\ RefreshTTL \in Nat \ {0} /\ MaxTime \in Nat
  /\ RegistrationOpen \in BOOLEAN
  /\ AdminEmail \in Email \cup {None} /\ AdminPassword \in Password \cup {None}

VARIABLES
  user,           \* users: the row of each id, and the ids never used
  token,          \* refresh_tokens: the row of each token; a deleted row keeps its history
  saved,          \* ids that own rows of saved_connections
  claims,         \* the access tokens issued that have not expired
  req,            \* where each request stands and what it has read
  clock,
  \* History, read by no action:
  settled,        \* users whose last password change has been reported as done
  lastAdmin,      \* when each id last was an admin
  selfRegistered  \* ids created by Register

vars == <<user, token, saved, claims, req, clock, settled, lastAdmin, selfRegistered>>
tables == <<user, token, saved>>
history == <<settled, lastAdmin, selfRegistered>>

---------------------------------------------------------------------------
(* Rows and requests. *)

UserRow == [state : {"unused", "present", "deleted"}, email : Email \cup {None},
            role : Role \cup {None}, pw : Password \cup {None}]

\* from and pw are history: the token this one was exchanged for, and the
\* password that opened the session.
TokenRow == [state : {"unissued", "valid", "revoked", "deleted"}, user : UserId \cup {None},
             exp : Nat, from : Token \cup {None}, pw : Password \cup {None}]

NoUser == [state |-> "unused", email |-> None, role |-> None, pw |-> None]
NoToken == [state |-> "unissued", user |-> None, exp |-> 0, from |-> None, pw |-> None]

CliSteps == {"cliFind", "cliUpdate", "cliRevokeAll"}
\* The statements whose error makes the handler return it.
ErrorReturns == {"registerFind", "registerInsert", "issue", "refreshUser", "changeUpdate",
                 "cliFind", "cliUpdate", "roleUpdate", "deleteTokens", "deleteUser",
                 "createInsert"}
RevokeAllSteps == {"reuseRevokeAll", "changeRevokeAll", "cliRevokeAll"}
Steps == {"idle", "refreshRevoke"} \cup RevokeAllSteps \cup CliSteps \cup ErrorReturns

Request == [at : Steps, user : UserId \cup {None}, email : Email \cup {None},
            role : Role \cup {None}, pw : Password \cup {None}, token : Token \cup {None}]

UsesUser == RevokeAllSteps \cup {"issue", "refreshRevoke", "refreshUser", "changeUpdate",
                                 "cliUpdate", "roleUpdate", "deleteTokens", "deleteUser"}
UsesEmail == {"registerFind", "registerInsert", "createInsert", "cliFind"}
UsesRole == {"registerFind", "registerInsert", "createInsert", "roleUpdate", "issue"}
UsesPassword == UsesEmail \cup {"changeUpdate", "cliUpdate"}

Idle == [at |-> "idle", user |-> None, email |-> None, role |-> None, pw |-> None,
         token |-> None]

Claim == [user : UserId, role : Role, exp : Nat]

---------------------------------------------------------------------------
(* Reading the tables. *)

Present(u) == user[u].state = "present"
IsAdmin(row) == row.state = "present" /\ row.role = "admin"
Admins == {u \in UserId : IsAdmin(user[u])}
HasEmail(u, e) == Present(u) /\ user[u].email = e
EmailTaken(e) == \E u \in UserId : HasEmail(u, e)

RowExists(t) == token[t].state \in {"valid", "revoked"}
TokensOf(u) == {t \in Token : RowExists(t) /\ token[t].user = u}

\* The next rowid and the next random token: the least that was never used.
FreshUser == {u \in UserId : user[u].state = "unused"
                               /\ \A v \in UserId : v < u => user[v].state # "unused"}
FreshToken == {t \in Token : token[t].state = "unissued"
                               /\ \A s \in Token : s < t => token[s].state # "unissued"}

---------------------------------------------------------------------------
(* Steps that several handlers share. *)

InFlight == {r \in Req : req[r].at # "idle"}
CanStart(r, op) == op \in Ops /\ req[r].at = "idle" /\ Cardinality(InFlight) < MaxInFlight

Goto(r, job) == req' = [req EXCEPT ![r] = job]
Finish(r) == Goto(r, Idle)

NoteAdmins ==
  lastAdmin' = [u \in UserId |-> IF IsAdmin(user'[u]) THEN clock ELSE lastAdmin[u]]

InsertUser(u, e, ro, p) ==
  /\ user' = [user EXCEPT ![u] = [state |-> "present", email |-> e, role |-> ro, pw |-> p]]
  /\ settled' = settled \cup {u}
  /\ NoteAdmins

\* A deleted row leaves only what it was exchanged for.
Deleted(t) == [NoToken EXCEPT !.state = "deleted", !.from = token[t].from]

\* DELETE FROM refresh_tokens WHERE user_id = u
DeleteTokensOf(u) ==
  token' = [t \in Token |-> IF t \in TokensOf(u) THEN Deleted(t) ELSE token[t]]

\* UPDATE refresh_tokens SET revoked_at = CURRENT_TIMESTAMP WHERE token = t
RevokeToken(t) ==
  token' = IF RowExists(t) THEN [token EXCEPT ![t].state = "revoked", ![t].pw = None] ELSE token

\* NewRepository: UPDATE users SET role = 'admin' on the lowest id, on every start.
PromoteFirst(rows) ==
  [u \in UserId |-> IF /\ rows[u].state = "present" /\ rows[u].role = "readonly"
                       /\ \A v \in UserId : v < u => rows[v].state # "present"
                    THEN [rows[u] EXCEPT !.role = "admin"] ELSE rows[u]]

\* A bug: one tick too long.
AccessExpiryMutant == clock + AccessTTL + 1
AccessExpiry == clock + AccessTTL

\* generateTokenPair: sign the claims of the row read earlier, INSERT the token.
\* The foreign key refuses it when the user has been deleted meanwhile; then
\* neither token reaches the client.
Issue(r) ==
  LET u == req[r].user IN
  /\ req[r].at = "issue"
  /\ IF Present(u)
     THEN \E t \in FreshToken :
            /\ token' = [token EXCEPT ![t] = [state |-> "valid", user |-> u,
                           exp |-> clock + RefreshTTL, from |-> req[r].token, pw |-> req[r].pw]]
            /\ claims' = claims \cup {[user |-> u, role |-> req[r].role, exp |-> AccessExpiry]}
     ELSE UNCHANGED <<token, claims>>
  /\ Finish(r)
  /\ UNCHANGED <<user, saved, clock, history>>

---------------------------------------------------------------------------
(* Register: count the users, look for the email, insert, issue. *)

\* A bug: the registration switch is not looked at.
RegisterCountMutant(r, e, p) ==
  /\ CanStart(r, "register")
  /\ Goto(r, [Idle EXCEPT !.at = "registerFind", !.email = e, !.pw = p,
                !.role = IF \E u \in UserId : Present(u) THEN "readonly" ELSE "admin"])
  /\ UNCHANGED <<tables, claims, clock, history>>

RegisterCount(r, e, p) ==
  LET empty == \A u \in UserId : ~Present(u) IN
  /\ CanStart(r, "register")
  /\ empty \/ RegistrationOpen
  /\ Goto(r, [Idle EXCEPT !.at = "registerFind", !.email = e, !.pw = p,
                !.role = IF empty THEN "admin" ELSE "readonly"])
  /\ UNCHANGED <<tables, claims, clock, history>>

RegisterFind(r) ==
  /\ req[r].at = "registerFind"
  /\ IF EmailTaken(req[r].email) THEN Finish(r)
                                 ELSE Goto(r, [req[r] EXCEPT !.at = "registerInsert"])
  /\ UNCHANGED <<tables, claims, clock, history>>

RegisterInsert(r) ==
  /\ req[r].at = "registerInsert"
  /\ IF EmailTaken(req[r].email)   \* UNIQUE
     THEN Finish(r) /\ UNCHANGED <<user, history>>
     ELSE \E u \in FreshUser :
            /\ InsertUser(u, req[r].email, req[r].role, req[r].pw)
            /\ selfRegistered' = selfRegistered \cup {u}
            /\ Goto(r, [req[r] EXCEPT !.at = "issue", !.user = u, !.email = None])
  /\ UNCHANGED <<token, saved, claims, clock>>

(* Login: find the row of the email, compare the password, issue. *)

LoginFind(r, u) ==
  /\ CanStart(r, "login")
  /\ Present(u)
  /\ Goto(r, [Idle EXCEPT !.at = "issue", !.user = u, !.role = user[u].role, !.pw = user[u].pw])
  /\ UNCHANGED <<tables, claims, clock, history>>

(* RefreshToken: find the presented token, revoke it, read its user, issue. *)

\* A bug: revoked_at is not looked at.
RefreshFindMutant(r, t) ==
  /\ CanStart(r, "refresh")
  /\ RowExists(t) /\ token[t].exp > clock
  /\ Goto(r, [Idle EXCEPT !.at = "refreshRevoke", !.user = token[t].user, !.token = t,
                          !.pw = token[t].pw])
  /\ UNCHANGED <<tables, claims, clock, history>>

RefreshFind(r, t) ==
  /\ CanStart(r, "refresh")
  /\ RowExists(t) /\ token[t].exp > clock
  /\ Goto(r, IF token[t].state = "valid"
             THEN [Idle EXCEPT !.at = "refreshRevoke", !.user = token[t].user, !.token = t,
                               !.pw = token[t].pw]
             ELSE [Idle EXCEPT !.at = "reuseRevokeAll", !.user = token[t].user])
  /\ UNCHANGED <<tables, claims, clock, history>>

RefreshRevoke(r) ==
  /\ req[r].at = "refreshRevoke"
  /\ RevokeToken(req[r].token)
  /\ Goto(r, [req[r] EXCEPT !.at = "refreshUser"])
  /\ UNCHANGED <<user, saved, claims, clock, history>>

RefreshUser(r) ==
  /\ req[r].at = "refreshUser"
  /\ IF Present(req[r].user)
     THEN Goto(r, [req[r] EXCEPT !.at = "issue", !.role = user[req[r].user].role])
     ELSE Finish(r)
  /\ UNCHANGED <<tables, claims, clock, history>>

\* Logout runs behind AuthMiddleware and is one statement.
Logout(r, t) ==
  /\ CanStart(r, "logout")
  /\ claims # {}
  /\ token[t].state = "valid"
  /\ RevokeToken(t)
  /\ UNCHANGED <<user, saved, claims, req, clock, history>>

---------------------------------------------------------------------------
(* ChangePassword and the CLI reset: verify, UPDATE the hash, delete the   *)
(* user's refresh tokens.                                                  *)

ChangeFind(r, c, p) ==
  /\ CanStart(r, "password")
  /\ c \in claims
  /\ Present(c.user) /\ p # user[c.user].pw
  /\ Goto(r, [Idle EXCEPT !.at = "changeUpdate", !.user = c.user, !.pw = p])
  /\ UNCHANGED <<tables, claims, clock, history>>

\* The second process opens the repository first: that promotes the first user.
CliStart(r, e, p) ==
  /\ CanStart(r, "cli")
  /\ user' = PromoteFirst(user)
  /\ NoteAdmins
  /\ Goto(r, [Idle EXCEPT !.at = "cliFind", !.email = e, !.pw = p])
  /\ UNCHANGED <<token, saved, claims, clock, settled, selfRegistered>>

CliFind(r) ==
  /\ req[r].at = "cliFind"
  /\ \/ \E u \in UserId :
          /\ HasEmail(u, req[r].email)
          /\ Goto(r, [req[r] EXCEPT !.at = "cliUpdate", !.user = u, !.email = None])
     \/ ~EmailTaken(req[r].email) /\ Finish(r)
  /\ UNCHANGED <<tables, claims, clock, history>>

UpdatePassword(r) ==
  LET u == req[r].user IN
  /\ req[r].at \in {"changeUpdate", "cliUpdate"}
  /\ user' = IF Present(u) THEN [user EXCEPT ![u].pw = req[r].pw] ELSE user
  /\ settled' = settled \ {u}
  /\ Goto(r, [req[r] EXCEPT !.at = IF @ = "cliUpdate" THEN "cliRevokeAll" ELSE "changeRevokeAll"])
  /\ UNCHANGED <<token, saved, claims, clock, lastAdmin, selfRegistered>>

\* A bug: the sessions stay.
RevokeAllMutant(r) ==
  /\ req[r].at \in RevokeAllSteps
  /\ settled' = IF req[r].at = "reuseRevokeAll" THEN settled ELSE settled \cup {req[r].user}
  /\ Finish(r)
  /\ UNCHANGED <<tables, claims, clock, lastAdmin, selfRegistered>>

RevokeAll(r) ==
  /\ req[r].at \in RevokeAllSteps
  /\ DeleteTokensOf(req[r].user)
  /\ settled' = IF req[r].at = "reuseRevokeAll" THEN settled ELSE settled \cup {req[r].user}
  /\ Finish(r)
  /\ UNCHANGED <<user, saved, claims, clock, lastAdmin, selfRegistered>>

---------------------------------------------------------------------------
(* The admin handlers: RequireAdmin looks at the claims, not at the table. *)

AdminClaim(c) == c \in claims /\ c.role = "admin"

\* A bug: the check is missing.
LastAdminMutant(u) == FALSE

\* targetIsAdmin && admins <= 1
LastAdmin(u) == Admins = {u}

RoleList(r, c, u, ro) ==
  /\ CanStart(r, "role")
  /\ AdminClaim(c)
  /\ ro = "readonly" => ~LastAdmin(u)
  /\ Goto(r, [Idle EXCEPT !.at = "roleUpdate", !.user = u, !.role = ro])
  /\ UNCHANGED <<tables, claims, clock, history>>

RoleUpdate(r) ==
  LET u == req[r].user IN
  /\ req[r].at = "roleUpdate"
  /\ user' = IF Present(u) THEN [user EXCEPT ![u].role = req[r].role] ELSE user
  /\ NoteAdmins
  /\ Finish(r)
  /\ UNCHANGED <<token, saved, claims, clock, settled, selfRegistered>>

DeleteList(r, c, u) ==
  /\ CanStart(r, "delete")
  /\ AdminClaim(c) /\ c.user # u
  /\ ~LastAdmin(u)
  /\ Goto(r, [Idle EXCEPT !.at = "deleteTokens", !.user = u])
  /\ UNCHANGED <<tables, claims, clock, history>>

DeleteTokens(r) ==
  /\ req[r].at = "deleteTokens"
  /\ DeleteTokensOf(req[r].user)
  /\ Goto(r, [req[r] EXCEPT !.at = "deleteUser"])
  /\ UNCHANGED <<user, saved, claims, clock, history>>

\* A bug: DELETE FROM users without the foreign key.
DeleteUserRowMutant(r) ==
  LET u == req[r].user IN
  /\ req[r].at = "deleteUser"
  /\ user' = IF Present(u) THEN [user EXCEPT ![u] = [NoUser EXCEPT !.state = "deleted"]] ELSE user
  /\ Finish(r)
  /\ UNCHANGED <<token, saved, claims, clock, history>>

\* The foreign keys refuse it while a session or a saved connection remains.
DeleteUserRow(r) ==
  LET u == req[r].user IN
  /\ req[r].at = "deleteUser"
  /\ user' = IF Present(u) /\ TokensOf(u) = {} /\ u \notin saved
             THEN [user EXCEPT ![u] = [NoUser EXCEPT !.state = "deleted"]] ELSE user
  /\ Finish(r)
  /\ UNCHANGED <<token, saved, claims, clock, history>>

\* A bug: the role is lost.
CreateFindMutant(r, c, e, ro, p) ==
  /\ CanStart(r, "create")
  /\ AdminClaim(c)
  /\ ~EmailTaken(e)
  /\ Goto(r, [Idle EXCEPT !.at = "createInsert", !.email = e, !.pw = p])
  /\ UNCHANGED <<tables, claims, clock, history>>

CreateFind(r, c, e, ro, p) ==
  /\ CanStart(r, "create")
  /\ AdminClaim(c)
  /\ ~EmailTaken(e)
  /\ Goto(r, [Idle EXCEPT !.at = "createInsert", !.email = e, !.role = ro, !.pw = p])
  /\ UNCHANGED <<tables, claims, clock, history>>

CreateInsert(r) ==
  /\ req[r].at = "createInsert"
  /\ IF EmailTaken(req[r].email)
     THEN UNCHANGED <<user, settled, lastAdmin>>
     ELSE \E u \in FreshUser : InsertUser(u, req[r].email, req[r].role, req[r].pw)
  /\ Finish(r)
  /\ UNCHANGED <<token, saved, claims, clock, selfRegistered>>

\* The first saved connection of a user, and the removal of the last one.
SaveConnection(r, c) ==
  /\ CanStart(r, "saved")
  /\ c \in claims /\ Present(c.user) /\ c.user \notin saved
  /\ saved' = saved \cup {c.user}
  /\ UNCHANGED <<user, token, claims, req, clock, history>>

DeleteConnection(r, c) ==
  /\ CanStart(r, "saved")
  /\ c \in claims /\ c.user \in saved
  /\ saved' = saved \ {c.user}
  /\ UNCHANGED <<user, token, claims, req, clock, history>>

---------------------------------------------------------------------------
(* Faults, restarts and time. *)

\* A statement fails and its handler returns the error.
StatementFails(r) ==
  /\ req[r].at \in ErrorReturns
  /\ Finish(r)
  /\ UNCHANGED <<tables, claims, clock, history>>

\* A revocation fails and its handler, which drops the error, goes on.
RevocationFails(r) ==
  /\ "ignored" \in Ops
  /\ \/ req[r].at = "refreshRevoke" /\ Goto(r, [req[r] EXCEPT !.at = "refreshUser"])
     \/ req[r].at \in RevokeAllSteps /\ Finish(r)
  /\ settled' = IF req[r].at \in {"changeRevokeAll", "cliRevokeAll"}
                THEN settled \cup {req[r].user} ELSE settled
  /\ UNCHANGED <<tables, claims, clock, lastAdmin, selfRegistered>>

Provisions == AdminEmail # None /\ AdminPassword # None

ProvisionedRow ==
  [state |-> "present", email |-> AdminEmail, role |-> "admin", pw |-> AdminPassword]

\* The server stops, at any point of any request, and starts again: the
\* migration promotes the first user, CleanExpiredTokens, ADMIN_EMAIL.  A
\* reset in the other process goes on.
Restart ==
  LET rows == PromoteFirst(user)
      provision == Provisions
                     /\ \A u \in UserId : ~(rows[u].state = "present" /\ rows[u].email = AdminEmail)
      new == IF provision THEN FreshUser ELSE {}
  IN
  /\ "restart" \in Ops
  /\ user' = [u \in UserId |->
                IF u \in new THEN ProvisionedRow ELSE rows[u]]
  /\ token' = [t \in Token |-> IF RowExists(t) /\ token[t].exp <= clock
                               THEN Deleted(t) ELSE token[t]]
  /\ req' = [r \in Req |-> IF req[r].at \in CliSteps THEN req[r] ELSE Idle]
  /\ settled' = settled \cup new
  /\ NoteAdmins
  /\ UNCHANGED <<saved, claims, clock, selfRegistered>>

\* ValidateAccessToken accepts a token until its exp.
Unexpired(c, now) == c.exp > now

\* A tick is minutes long, so no request holds the row it is about to sign for
\* across one.  An access token that has expired is of no use to any handler.
Tick ==
  /\ clock < MaxTime
  /\ \A r \in Req : req[r].at # "issue"
  /\ clock' = clock + 1
  /\ claims' = {c \in claims : Unexpired(c, clock')}
  /\ lastAdmin' = [u \in UserId |-> IF IsAdmin(user[u]) THEN clock' ELSE lastAdmin[u]]
  /\ UNCHANGED <<tables, req, settled, selfRegistered>>

---------------------------------------------------------------------------
\* The program after its first start: an empty table, or the account of ADMIN_EMAIL.
Provisioned(u) == Provisions /\ \A v \in UserId : u <= v

Init ==
  /\ user = [u \in UserId |->
               IF Provisioned(u) THEN ProvisionedRow ELSE NoUser]
  /\ token = [t \in Token |-> NoToken]
  /\ saved = {}
  /\ claims = {}
  /\ req = [r \in Req |-> Idle]
  /\ clock = 0
  /\ settled = {u \in UserId : Provisioned(u)}
  /\ lastAdmin = [u \in UserId |-> IF Provisioned(u) THEN 0 ELSE 0 - AccessTTL]
  /\ selfRegistered = {}

Start(r) ==
  \/ \E e \in Email, p \in Password : RegisterCount(r, e, p) \/ CliStart(r, e, p)
  \/ \E u \in UserId : LoginFind(r, u)
  \/ \E t \in Token : RefreshFind(r, t) \/ Logout(r, t)
  \/ \E c \in claims, p \in Password : ChangeFind(r, c, p)
  \/ \E c \in claims, u \in UserId : DeleteList(r, c, u) \/ \E ro \in Role : RoleList(r, c, u, ro)
  \/ \E c \in claims, e \in Email, ro \in Role, p \in Password : CreateFind(r, c, e, ro, p)
  \/ \E c \in claims : SaveConnection(r, c) \/ DeleteConnection(r, c)

Continue(r) ==
  \/ Issue(r) \/ RegisterFind(r) \/ RegisterInsert(r)
  \/ RefreshRevoke(r) \/ RefreshUser(r)
  \/ CliFind(r) \/ UpdatePassword(r) \/ RevokeAll(r)
  \/ RoleUpdate(r) \/ DeleteTokens(r) \/ DeleteUserRow(r) \/ CreateInsert(r)
  \/ StatementFails(r) \/ RevocationFails(r)

Next == (\E r \in Req : Start(r) \/ Continue(r)) \/ Restart \/ Tick

Spec == Init /\ [][Next]_vars

---------------------------------------------------------------------------
(* Properties. *)

\* Every column has its type and is NOT NULL where the schema says so, and a
\* request has read whatever its next statement uses.
TypeOK ==
  /\ user \in [UserId -> UserRow]
  /\ \A u \in UserId : Present(u) => /\ user[u].email \in Email
                                     /\ user[u].role \in Role
                                     /\ user[u].pw \in Password
  /\ token \in [Token -> TokenRow]
  /\ \A t \in Token : RowExists(t) => token[t].user \in UserId
  /\ saved \subseteq UserId
  /\ claims \subseteq Claim
  /\ req \in [Req -> Request]
  /\ \A r \in Req : /\ req[r].at \in UsesUser => req[r].user \in UserId
                    /\ req[r].at \in UsesEmail => req[r].email \in Email
                    /\ req[r].at \in UsesRole => req[r].role \in Role
                    /\ req[r].at \in UsesPassword => req[r].pw \in Password
                    /\ req[r].at = "refreshRevoke" => req[r].token \in Token
  /\ clock \in Nat
  /\ settled \subseteq UserId
  /\ lastAdmin \in [UserId -> Int]
  /\ selfRegistered \subseteq UserId

\* No session or saved connection outlives its user, whatever logins, refreshes
\* and saves are in flight while DeleteUser runs its two statements.
NoOrphanSession ==
  /\ \A t \in Token : RowExists(t) => Present(token[t].user)
  /\ \A u \in saved : Present(u)

\* README "refresh token rotation": one refresh token buys at most as many
\* successors as there are requests that can overlap; exactly one when they
\* do not.  Presenting it once more ends the sessions instead.
RefreshReplayBounded ==
  \A t \in Token : Cardinality({s \in Token : token[s].from = t}) <= MaxInFlight

\* The handlers believe the role in the claims: whoever holds an unexpired admin
\* claim was an admin less than AccessTokenDuration ago, also after a
\* demotion, a deletion, or refreshes that overlap them.
StaleAuthorityBounded ==
  \A c \in claims : c.role = "admin" => clock - lastAdmin[c.user] < AccessTTL

\* UpdateUserRole and DeleteUser "prevent removing the last admin": as long as
\* there are accounts, one is an admin.
AlwaysAnAdmin == (\E u \in UserId : Present(u)) => Admins # {}

\* ChangePassword "revokes all refresh tokens (forces re-login on other
\* devices)": once it has reported success, every valid token of the user comes from
\* a session opened with the new password.
PasswordChangeEndsSessions ==
  \A t \in Token : token[t].state = "valid" /\ token[t].user \in settled
                     => token[t].pw = user[token[t].user].pw

\* With registration disabled only the first account registers itself.
SelfRegistrationOnce == ~RegistrationOpen => Cardinality(selfRegistered) <= 1
===========================================================================
