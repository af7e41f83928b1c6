--------------------------- MODULE LoginThrottle ---------------------------
(***************************************************************************)
(* The brake on password guessing: AuthService.Login counts the rows of    *)
(* login_attempts for an (email, IP) pair inside the window, refuses at    *)
(* maxLoginAttempts, records the attempt, compares the password and, on    *)
(* success, deletes the pair's rows (core/service/auth_service.go over     *)
(* core/auth/repository.go).  The four statements are no transaction, so   *)
(* logins of one pair overlap between them.                                *)
(*                                                                         *)
(* Only a row's age matters.  age[k][i] is the age of row i of pair k in   *)
(* ticks; at Window it is outside the query's range for good and the slot  *)
(* stands for no row.  What the password comparison answers is free.       *)
(***************************************************************************)
EXTENDS Integers, FiniteSets

CONSTANTS
  Req,           \* logins that may be in flight
  Key,           \* (email, IP) pairs
  Row,           \* slots for the rows of a pair inside the window: the bound of the table
  None,
  MaxAttempts,   \* maxLoginAttempts
  Window         \* rateLimitWindow, in ticks

ASSUME ThrottleAssumption ==
  /\ IsFiniteSet(Req) /\ Req # {}
  /\ IsFiniteSet(Row)
  /\ None \notin Key
  /\ MaxAttempts \in Nat \ {0}
  /\ Window \in Nat \ {0}

VARIABLES
  age,   \* [Key -> [Row -> 0 .. Window]]
  req    \* where each login stands and for which pair

vars == <<age, req>>

Idle == [at |-> "idle", key |-> None]

Recent(k) == {i \in Row : age[k][i] < Window}

\* A pair is blocked while CountRecentAttempts reaches maxLoginAttempts.
BlockedMutant(k) == Cardinality(Recent(k)) > MaxAttempts
Blocked(k) == Cardinality(Recent(k)) >= MaxAttempts

---------------------------------------------------------------------------
\* The slot a new row takes.
NewRow(k) == CHOOSE i \in Row : i \notin Recent(k)

\* A bug: the attempt is recorded before the check, so a refused one counts too.
CountRecentMutant(r, k) ==
  /\ req[r].at = "idle"
  /\ Recent(k) # Row
  /\ age' = [age EXCEPT ![k][NewRow(k)] = 0]
  /\ req' = IF Blocked(k) THEN req ELSE [req EXCEPT ![r] = [at |-> "verify", key |-> k]]

\* CountRecentAttempts; a refused attempt is not recorded.
CountRecent(r, k) ==
  /\ req[r].at = "idle"
  /\ ~Blocked(k)
  /\ req' = [req EXCEPT ![r] = [at |-> "record", key |-> k]]
  /\ UNCHANGED age

\* RecordLoginAttempt; Login goes on when the INSERT fails.
Record(r) ==
  LET k == req[r].key IN
  /\ req[r].at = "record"
  /\ \/ Recent(k) # Row /\ age' = [age EXCEPT ![k][NewRow(k)] = 0]
     \/ UNCHANGED age
  /\ req' = [req EXCEPT ![r].at = "verify"]

\* FindByEmail and the bcrypt comparison, which runs even for an unknown email.
Verify(r) ==
  /\ req[r].at = "verify"
  /\ \/ req' = [req EXCEPT ![r] = Idle]
     \/ req' = [req EXCEPT ![r].at = "clear"]
  /\ UNCHANGED age

\* ClearLoginAttempts; Login goes on when the DELETE fails.
Clear(r) ==
  /\ req[r].at = "clear"
  /\ \/ age' = [age EXCEPT ![req[r].key] = [i \in Row |-> Window]]
     \/ UNCHANGED age
  /\ req' = [req EXCEPT ![r] = Idle]

\* The server restarts: the rows stay, the logins in flight are gone.
Restart ==
  /\ req' = [r \in Req |-> Idle]
  /\ UNCHANGED age

Tick ==
  /\ age' = [k \in Key |-> [i \in Row |-> IF age[k][i] < Window THEN age[k][i] + 1 ELSE Window]]
  /\ UNCHANGED req

Init ==
  /\ age = [k \in Key |-> [i \in Row |-> Window]]
  /\ req = [r \in Req |-> Idle]

Next ==
  \/ \E r \in Req : (\E k \in Key : CountRecent(r, k)) \/ Record(r) \/ Verify(r) \/ Clear(r)
  \/ Restart
  \/ Tick

\* Time passes; no request is obliged to arrive or to finish.
Spec == Init /\ [][Next]_vars /\ WF_vars(Tick)

---------------------------------------------------------------------------
\* The tables and requests are well typed.
TypeOK ==
  /\ age \in [Key -> [Row -> 0 .. Window]]
  /\ req \in [Req -> [at : {"idle", "record", "verify", "clear"}, key : Key \cup {None}]]
  /\ \A r \in Req : req[r].at # "idle" => req[r].key \in Key

\* README "5 attempts before temporary block": the logins that passed the
\* check together can overshoot the limit, by at most one per other login in
\* flight, however they interleave with expiry, success and restarts.
AttemptsBounded ==
  \A k \in Key : Cardinality(Recent(k)) <= MaxAttempts - 1 + Cardinality(Req)

\* The block is temporary: attempts made while a pair is blocked do not prolong it.
BlockIsTemporary == \A k \in Key : []<>(~Blocked(k))
===========================================================================
