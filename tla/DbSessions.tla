---------------------------- MODULE DbSessions ----------------------------
(***************************************************************************)
(* The database connection each user holds through the server: the map of  *)
(* sessions in core/service/database_service.go, filled by Connect, emptied *)
(* by Disconnect and by the cleanup of idle sessions, and read again by    *)
(* every statement of a request.                                           *)
(*                                                                         *)
(* Connect holds the mutex while it dials, so it is two actions; every     *)
(* other critical section is one.  A connection got from the map is used   *)
(* after the mutex is released.  A Conn is a connector object; one that is *)
(* closed and forgotten by everybody may stand for a new one.              *)
(***************************************************************************)
EXTENDS Integers, FiniteSets

CONSTANTS
  Req,       \* requests in flight
  User,
  Conn,      \* connectors alive or remembered at one time
  None,
  MaxSteps,  \* bound: statements of one request
  MaxLeaks,  \* bound: clients that failed dials leave behind
  Timeout    \* sessionTimeout, in ticks

ASSUME SessionsAssumption ==
  /\ IsFiniteSet(Conn)
  /\ None \notin Conn /\ None \notin User /\ None \notin Req
  /\ MaxSteps \in Nat \ {0} /\ MaxLeaks \in Nat /\ Timeout \in Nat

VARIABLES
  sessions,  \* [User -> Conn or None]
  idle,      \* ticks since lastActivity of each session, 0 without one
  open,      \* the connectors whose client or pool is running
  mutex,     \* the request that dials while it holds the mutex, or None
  req,
  failed,    \* history: users whose last Connect failed
  leaked     \* history: clients a failed dial left running

vars == <<sessions, idle, open, mutex, req, failed, leaked>>

\* used, cut and age are history: the connectors this request got from
\* the map, whether its own user called Connect or Disconnect since it began, and
\* the ticks since it last read the map.
Request == [at : {"done", "fetch", "use", "dial"}, user : User \cup {None},
            conn : Conn \cup {None}, left : 0 .. MaxSteps, used : SUBSET Conn,
            cut : BOOLEAN, age : 0 .. Timeout + 1]
Done == [at |-> "done", user |-> None, conn |-> None, left |-> 0, used |-> {},
         cut |-> FALSE, age |-> 0]

Goto(r, job) == req' = [req EXCEPT ![r] = job]

\* r takes job; every other request of user u learns that u changed the session.
CutOthers(r, u, job) ==
  req' = [q \in Req |-> IF q = r THEN job
                        ELSE IF req[q].user = u THEN [req[q] EXCEPT !.cut = TRUE] ELSE req[q]]

Later(n) == IF n > Timeout THEN n ELSE n + 1
Referenced == {sessions[u] : u \in User} \cup {req[r].conn : r \in Req}
                \cup UNION {req[r].used : r \in Req}
Unlocked == mutex = None

---------------------------------------------------------------------------
(* A request: one or more statements, each of which reads the map anew. *)

\* A handler of one statement, of two (ListDatabasesWithStats) or of many (ImportCSV).
Begin(r, u, n) ==
  /\ req[r].at = "done"
  /\ Goto(r, [Done EXCEPT !.at = "fetch", !.user = u, !.left = n])
  /\ UNCHANGED <<sessions, idle, open, mutex, failed, leaked>>

NextStatement(job) ==
  IF job.left = 1 THEN Done ELSE [job EXCEPT !.at = "fetch", !.left = @ - 1, !.conn = None, !.age = 0]

Fetched(r, u) ==
  [req[r] EXCEPT !.at = "use", !.conn = sessions[u], !.age = 0, !.used = @ \cup {sessions[u]}]

\* A bug: reading the map is not activity.
getSessionMutant(r) ==
  LET u == req[r].user IN
  /\ req[r].at = "fetch" /\ Unlocked
  /\ \/ sessions[u] = None /\ (Goto(r, NextStatement(req[r])) \/ Goto(r, Done))
     \/ sessions[u] # None /\ Goto(r, Fetched(r, u))
  /\ UNCHANGED <<sessions, idle, open, mutex, failed, leaked>>

\* "not connected" ends a request; an import goes on with the next row.
getSession(r) ==
  LET u == req[r].user IN
  /\ req[r].at = "fetch" /\ Unlocked
  /\ \/ /\ sessions[u] = None
        /\ Goto(r, NextStatement(req[r])) \/ Goto(r, Done)
        /\ UNCHANGED idle
     \/ /\ sessions[u] # None
        /\ Goto(r, Fetched(r, u))
        /\ idle' = [idle EXCEPT ![u] = 0]
  /\ UNCHANGED <<sessions, open, mutex, failed, leaked>>

\* The statement ends, with the driver's error when the connection was closed.
Statement(r) ==
  /\ req[r].at = "use"
  /\ Goto(r, NextStatement(req[r])) \/ Goto(r, Done)
  /\ UNCHANGED <<sessions, idle, open, mutex, failed, leaked>>

---------------------------------------------------------------------------
(* Connect, Disconnect, the cleanup goroutine. *)

\* Close the old connection and dial, the mutex held.
Connect(r, u) ==
  /\ req[r].at = "done" /\ Unlocked
  /\ mutex' = r
  /\ open' = open \ {sessions[u]}
  /\ CutOthers(r, u, [Done EXCEPT !.at = "dial", !.user = u])
  /\ UNCHANGED <<sessions, idle, failed, leaked>>

\* A bug: the session is registered under another user's id.
ConnectedMutant(r) ==
  /\ req[r].at = "dial"
  /\ \E c \in (Conn \ open) \ Referenced, v \in User :
       /\ sessions' = [sessions EXCEPT ![v] = c]
       /\ open' = open \cup {c}
       /\ idle' = [idle EXCEPT ![v] = 0]
  /\ failed' = failed \ {req[r].user}
  /\ mutex' = None
  /\ CutOthers(r, req[r].user, Done)
  /\ UNCHANGED leaked

Connected(r) ==
  LET u == req[r].user IN
  /\ req[r].at = "dial"
  /\ \E c \in (Conn \ open) \ Referenced :
       /\ sessions' = [sessions EXCEPT ![u] = c]
       /\ open' = open \cup {c}
  /\ idle' = [idle EXCEPT ![u] = 0]
  /\ failed' = failed \ {u}
  /\ mutex' = None
  /\ CutOthers(r, u, Done)
  /\ UNCHANGED leaked

\* The Ping fails in a driver that has started its client or pool by then, and the
\* error return does not close it: MongoDB and MySQL.  PostgreSQL's does.
FailedPing ==
  /\ Cardinality(leaked) < MaxLeaks
  /\ \E c \in (Conn \ open) \ Referenced :
       /\ open' = open \cup {c}
       /\ leaked' = leaked \cup {c}

\* A bug: the error path returns without unlocking.
ConnectFailsMutant(r) ==
  /\ req[r].at = "dial"
  /\ failed' = failed \cup {req[r].user}
  /\ Goto(r, Done)
  /\ FailedPing \/ UNCHANGED <<open, leaked>>
  /\ UNCHANGED <<sessions, idle, mutex>>

\* An unsupported type or a failed dial: the session keeps the closed connection,
\* and the connector that failed is dropped.
ConnectFails(r) ==
  /\ req[r].at = "dial"
  /\ failed' = failed \cup {req[r].user}
  /\ mutex' = None
  /\ Goto(r, Done)
  /\ FailedPing \/ UNCHANGED <<open, leaked>>
  /\ UNCHANGED <<sessions, idle>>

\* A bug: the connection is closed, the entry stays.
DisconnectMutant(r, u) ==
  /\ req[r].at = "done" /\ Unlocked /\ sessions[u] # None
  /\ open' = open \ {sessions[u]}
  /\ CutOthers(r, u, Done)
  /\ UNCHANGED <<sessions, idle, mutex, failed, leaked>>

Disconnect(r, u) ==
  /\ req[r].at = "done" /\ Unlocked /\ sessions[u] # None
  /\ open' = open \ {sessions[u]}
  /\ sessions' = [sessions EXCEPT ![u] = None]
  /\ failed' = failed \ {u}
  /\ idle' = [idle EXCEPT ![u] = 0]
  /\ CutOthers(r, u, Done)
  /\ UNCHANGED <<mutex, leaked>>

\* A bug: sessions whose connection is gone already are passed over.
StaleMutant == {u \in User : sessions[u] \in open /\ idle[u] > Timeout}

Stale == {u \in User : sessions[u] # None /\ idle[u] > Timeout}

\* A bug: the entry goes, the connection stays up.
cleanupMutant ==
  /\ Unlocked
  /\ sessions' = [u \in User |-> IF u \in Stale THEN None ELSE sessions[u]]
  /\ failed' = failed \ Stale
  /\ UNCHANGED <<idle, open, mutex, req, leaked>>

cleanupStaleSessions ==
  /\ Unlocked
  /\ open' = open \ {sessions[u] : u \in Stale}
  /\ sessions' = [u \in User |-> IF u \in Stale THEN None ELSE sessions[u]]
  /\ idle' = [u \in User |-> IF u \in Stale THEN 0 ELSE idle[u]]
  /\ failed' = failed \ Stale
  /\ UNCHANGED <<mutex, req, leaked>>

Tick ==
  /\ idle' = [u \in User |-> IF sessions[u] # None THEN Later(idle[u]) ELSE idle[u]]
  /\ req' = [r \in Req |-> IF req[r].at = "use" THEN [req[r] EXCEPT !.age = Later(@)] ELSE req[r]]
  /\ UNCHANGED <<sessions, open, mutex, failed, leaked>>

\* Shutdown closes every session; the process that starts next knows none.
Restart ==
  /\ sessions' = [u \in User |-> None]
  /\ idle' = [u \in User |-> 0]
  /\ open' = {}
  /\ mutex' = None
  /\ req' = [r \in Req |-> Done]
  /\ failed' = {}
  /\ leaked' = {}

Init ==
  /\ sessions = [u \in User |-> None]
  /\ idle = [u \in User |-> 0]
  /\ open = {}
  /\ mutex = None
  /\ req = [r \in Req |-> Done]
  /\ failed = {}
  /\ leaked = {}

Next ==
  \/ \E r \in Req :
       \/ \E u \in User, n \in 1 .. MaxSteps : Begin(r, u, n)
       \/ getSession(r) \/ Statement(r)
       \/ \E u \in User : Connect(r, u) \/ Disconnect(r, u)
       \/ Connected(r) \/ ConnectFails(r)
  \/ cleanupStaleSessions
  \/ Tick
  \/ Restart

\* The clock and the ticker of StartCleanup run, a dial ends (the drivers time
\* out after 10 s), and Go's mutex lets no waiter starve.  A statement may
\* run for ever: a MongoDB watch does.
Fairness ==
  /\ WF_vars(Tick)
  /\ SF_vars(cleanupStaleSessions)
  /\ \A r \in Req : WF_vars(Connected(r) \/ ConnectFails(r)) /\ SF_vars(getSession(r))

Spec == Init /\ [][Next]_vars /\ Fairness

---------------------------------------------------------------------------
(* Properties. *)

\* The map, the requests and the mutex are well typed; the mutex is held by who dials.
TypeOK ==
  /\ sessions \in [User -> Conn \cup {None}]
  /\ idle \in [User -> 0 .. Timeout + 1]
  /\ open \subseteq Conn
  /\ req \in [Req -> Request]
  /\ failed \subseteq User
  /\ leaked \subseteq Conn
  /\ \A r \in Req : /\ req[r].at = "dial" <=> mutex = r
                    /\ req[r].at # "done" => req[r].user \in User
                    /\ req[r].at = "use" => req[r].conn \in Conn
  /\ mutex \in Req \cup {None}

\* The only clients that nobody can close any more are those a failed Ping left
\* running: no overlap of reconnects, disconnects, cleanups and failures loses a
\* session's own connection, and none takes over a client that was left behind.
OnlyFailedPingLeaks ==
  /\ leaked \subseteq open
  /\ \A u \in User : sessions[u] \notin leaked
  /\ \A c \in open \ leaked : \E u \in User : sessions[u] = c

\* The status page says "connected" of a closed connection only after a Connect
\* of that user failed (it had closed the previous one first).
DeadSessionExplained ==
  \A u \in User : sessions[u] # None /\ sessions[u] \notin open
                    => u \in failed \/ \E r \in Req : mutex = r /\ req[r].user = u

\* A connection is closed under a running statement only by its own user, or
\* by the cleanup when the statement alone has outlasted sessionTimeout: the
\* statements of other users, and the other statements of this one, keep it.
ClosedUnderStatementExplained ==
  \A r \in Req : req[r].at = "use" /\ req[r].conn \notin open
                   => req[r].cut \/ req[r].age > Timeout \/ req[r].user \in failed

\* The statements of one request (the rows of an import) run on one
\* connection, unless the same user connected elsewhere meanwhile: the cleanup,
\* failed dials and other users never move an import to another server.
OneRequestOneConnection ==
  \A r \in Req : ~req[r].cut => Cardinality(req[r].used) <= 1

\* An idle session is closed in the end, however often other users dial.
IdleSessionCloses ==
  \A u \in User : (sessions[u] # None /\ idle[u] > Timeout) ~> (sessions[u] = None \/ idle[u] <= Timeout)

\* A dial delays the requests of all users but starves none of them.
NoStarvation == \A r \in Req : (req[r].at = "fetch") ~> (req[r].at # "fetch")
===========================================================================
