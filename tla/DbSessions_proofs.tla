------------------------ MODULE DbSessions_proofs ------------------------
(***************************************************************************)
(* DbSessions for any number of users, of requests in flight and of         *)
(* connectors, any number of statements and any sessionTimeout.            *)
(***************************************************************************)
EXTENDS DbSessions, FiniteSetTheorems, TLAPS

USE SessionsAssumption

\* The jobs of the requests: a statement is counted, and a request that has not
\* begun, or that dials, got nothing from the map.
JobsOK ==
  \A r \in Req : /\ req[r].at \in {"fetch", "use"} => req[r].left >= 1
                 /\ req[r].at \in {"done", "dial"} => req[r].used = {}

Typed == TypeOK /\ JobsOK

LEMMA DoneIsRequest == Done \in Request /\ Done.at = "done" /\ Done.used = {}
  BY DEF Done, Request

\* The jobs a request is given are requests.
LEMMA BegunIsRequest ==
  ASSUME NEW u \in User, NEW n \in 1 .. MaxSteps
  PROVE  LET job == [Done EXCEPT !.at = "fetch", !.user = u, !.left = n]
         IN  /\ job \in Request /\ job.at = "fetch" /\ job.user = u /\ job.left >= 1
             /\ job.used = {}
<1>1. Done \in Request /\ n \in 0 .. MaxSteps /\ Done.used = {}
  BY DoneIsRequest
<1>2. [Done EXCEPT !.at = "fetch", !.user = u, !.left = n] \in Request
  BY <1>1 DEF Request
<1>3. LET job == [Done EXCEPT !.at = "fetch", !.user = u, !.left = n]
      IN  job.at = "fetch" /\ job.user = u /\ job.left >= 1 /\ job.used = {}
  BY <1>1 DEF Request
<1> QED BY <1>2, <1>3

LEMMA DialIsRequest ==
  ASSUME NEW u \in User
  PROVE  LET job == [Done EXCEPT !.at = "dial", !.user = u]
         IN  job \in Request /\ job.at = "dial" /\ job.user = u /\ job.used = {}
  BY DoneIsRequest DEF Request

Got(job, c, a, used) == [job EXCEPT !.at = "use", !.conn = c, !.age = a, !.used = used]

Following(job, n, c, a) == [job EXCEPT !.at = "fetch", !.left = n, !.conn = c, !.age = a]

LEMMA GotIsRequest ==
  ASSUME NEW job \in Request, NEW c \in Conn, NEW a \in 0 .. Timeout + 1, NEW used \in SUBSET Conn
  PROVE  LET got == Got(job, c, a, used)
         IN  /\ got \in Request
             /\ got.at = "use" /\ got.conn = c /\ got.age = a /\ got.used = used
             /\ got.user = job.user /\ got.cut = job.cut /\ got.left = job.left
  BY DEF Request, Got

LEMMA FollowingIsRequest ==
  ASSUME NEW job \in Request, NEW n \in 0 .. MaxSteps, NEW c \in Conn \cup {None},
         NEW a \in 0 .. Timeout + 1
  PROVE  LET next == Following(job, n, c, a)
         IN  /\ next \in Request
             /\ next.at = "fetch" /\ next.left = n
             /\ next.user = job.user /\ next.used = job.used /\ next.cut = job.cut
  BY DEF Request, Following

\* What getSession puts in a request, from a session the user has.
LEMMA FetchedIsRequest ==
  ASSUME NEW r \in Req, NEW u \in User, req[r] \in Request, sessions[u] \in Conn
  PROVE  /\ Fetched(r, u) \in Request
         /\ Fetched(r, u).at = "use" /\ Fetched(r, u).conn = sessions[u]
         /\ Fetched(r, u).age = 0 /\ Fetched(r, u).used = req[r].used \cup {sessions[u]}
         /\ Fetched(r, u).user = req[r].user /\ Fetched(r, u).cut = req[r].cut
         /\ Fetched(r, u).left = req[r].left
<1>1. req[r].used \cup {sessions[u]} \in SUBSET Conn /\ 0 \in 0 .. Timeout + 1
  BY DEF Request
<1>2. Fetched(r, u) = Got(req[r], sessions[u], 0, req[r].used \cup {sessions[u]})
  BY DEF Fetched, Got
<1> QED BY <1>1, <1>2, GotIsRequest

\* The statement that follows, if there is one.
LEMMA NextStatementIsRequest ==
  ASSUME NEW job \in Request, job.left >= 1
  PROVE  /\ NextStatement(job) \in Request
         /\ NextStatement(job).at \in {"done", "fetch"}
         /\ NextStatement(job).at = "fetch" =>
              /\ NextStatement(job).user = job.user /\ NextStatement(job).used = job.used
              /\ NextStatement(job).cut = job.cut /\ NextStatement(job).left >= 1
         /\ NextStatement(job).at = "done" => NextStatement(job).used = {}
<1>1. CASE job.left = 1
  BY <1>1, DoneIsRequest DEF NextStatement
<1>2. CASE job.left # 1
  <2>1. job.left - 1 \in 0 .. MaxSteps /\ job.left - 1 >= 1 /\ 0 \in 0 .. Timeout + 1
    BY <1>2 DEF Request
  <2>2. NextStatement(job) = Following(job, job.left - 1, None, 0)
    BY <1>2 DEF NextStatement, Following
  <2>3. None \in Conn \cup {None}
    OBVIOUS
  <2> QED BY <2>1, <2>2, <2>3, FollowingIsRequest
<1> QED BY <1>1, <1>2

\* What CutOthers leaves: r takes its job, another request changes its cut alone.
LEMMA CutOthersEffect ==
  ASSUME NEW r \in Req, NEW u, NEW job \in Request, req \in [Req -> Request], CutOthers(r, u, job)
  PROVE  /\ req' \in [Req -> Request]
         /\ req'[r] = job
         /\ \A q \in Req \ {r} :
              /\ req'[q].at = req[q].at /\ req'[q].user = req[q].user
              /\ req'[q].conn = req[q].conn /\ req'[q].left = req[q].left
              /\ req'[q].used = req[q].used /\ req'[q].age = req[q].age
              /\ req[q].user = u => req'[q].cut
              /\ req[q].user # u => req'[q].cut = req[q].cut
  BY DEF CutOthers, Request

\* What a tick leaves of a request: its age alone changes.
LEMMA TickEffect ==
  ASSUME req \in [Req -> Request], Tick
  PROVE  /\ req' \in [Req -> Request]
         /\ \A q \in Req :
              /\ req'[q].at = req[q].at /\ req'[q].user = req[q].user
              /\ req'[q].conn = req[q].conn /\ req'[q].left = req[q].left
              /\ req'[q].used = req[q].used /\ req'[q].cut = req[q].cut
              /\ req[q].at = "use" => req'[q].age = Later(req[q].age)
  BY DEF Tick, Later, Request

\* No step writes a job, a session or an entry of the clock outside its type; a
\* handler ends the statement it counted, and the mutex is held by who dials.
LEMMA TypedStep == Typed /\ [Next]_vars => Typed'
<1> SUFFICES ASSUME Typed, [Next]_vars PROVE Typed'
  OBVIOUS
<1> USE DEF Typed, TypeOK, JobsOK
<1>1. ASSUME NEW r \in Req, NEW u \in User, NEW n \in 1 .. MaxSteps, Begin(r, u, n) PROVE Typed'
  <2> DEFINE job == [Done EXCEPT !.at = "fetch", !.user = u, !.left = n]
  <2>1. job \in Request /\ job.at = "fetch" /\ job.user = u /\ job.left >= 1
    BY BegunIsRequest
  <2>2. Goto(r, job) /\ UNCHANGED <<sessions, idle, open, mutex, failed, leaked>> /\ req[r].at = "done"
    BY <1>1 DEF Begin
  <2> HIDE DEF job
  <2> QED BY <2>1, <2>2 DEF Goto
<1>2. ASSUME NEW r \in Req, getSession(r) PROVE Typed'
  <2>1. CASE UNCHANGED idle /\ (Goto(r, NextStatement(req[r])) \/ Goto(r, Done))
    BY <1>2, <2>1, NextStatementIsRequest, DoneIsRequest DEF getSession, Goto
  <2>2. CASE /\ sessions[req[r].user] # None /\ Goto(r, Fetched(r, req[r].user))
             /\ idle' = [idle EXCEPT ![req[r].user] = 0]
    <3>1. sessions[req[r].user] \in Conn
      BY <1>2, <2>2 DEF getSession
    <3> QED BY <1>2, <2>2, <3>1, FetchedIsRequest DEF getSession, Goto
  <2> QED BY <1>2, <2>1, <2>2 DEF getSession
<1>3. ASSUME NEW r \in Req, Statement(r) PROVE Typed'
  BY <1>3, NextStatementIsRequest, DoneIsRequest DEF Statement, Goto
<1>4. ASSUME NEW r \in Req, NEW u \in User, Connect(r, u) PROVE Typed'
  <2> DEFINE job == [Done EXCEPT !.at = "dial", !.user = u]
  <2>1. job \in Request /\ job.at = "dial" /\ job.user = u /\ job.used = {}
    BY DialIsRequest
  <2>2. /\ CutOthers(r, u, job) /\ mutex = None /\ mutex' = r
        /\ open' = open \ {sessions[u]} /\ UNCHANGED <<sessions, idle, failed, leaked>>
    BY <1>4 DEF Connect, Unlocked
  <2> HIDE DEF job
  <2> QED BY <2>1, <2>2, CutOthersEffect
<1>5. ASSUME NEW r \in Req, Connected(r) PROVE Typed'
  BY <1>5, CutOthersEffect, DoneIsRequest DEF Connected
<1>6. ASSUME NEW r \in Req, ConnectFails(r) PROVE Typed'
  BY <1>6, DoneIsRequest DEF ConnectFails, FailedPing, Goto
<1>7. ASSUME NEW r \in Req, NEW u \in User, Disconnect(r, u) PROVE Typed'
  BY <1>7, CutOthersEffect, DoneIsRequest DEF Disconnect
<1>8. CASE cleanupStaleSessions
  BY <1>8 DEF cleanupStaleSessions
<1>9. CASE Tick
  <2>1. idle' \in [User -> 0 .. Timeout + 1]
    BY <1>9 DEF Tick, Later
  <2> QED BY <1>9, <2>1, TickEffect DEF Tick
<1>10. CASE Restart
  BY <1>10, DoneIsRequest DEF Restart
<1>11. CASE UNCHANGED vars
  BY <1>11 DEF vars
<1> QED BY <1>1, <1>2, <1>3, <1>4, <1>5, <1>6, <1>7, <1>8, <1>9, <1>10, <1>11 DEF Next

LEMMA TypedInit == Init => Typed
  BY DoneIsRequest DEF Init, Typed, TypeOK, JobsOK

\* The map, the requests and the mutex are well typed.
THEOREM SessionsTyped == Spec => []TypeOK
<1>1. Typed => TypeOK
  BY DEF Typed
<1> QED BY <1>1, TypedInit, TypedStep, PTL DEF Spec

---------------------------------------------------------------------------
(* The map against the connections that are up. *)

\* Two users never share a connector.
SessionsDistinct ==
  \A u, v \in User : u # v /\ sessions[u] # None => sessions[u] # sessions[v]

\* Connect has closed the session it replaces before it dials.
DialClosesFirst == \A r \in Req : req[r].at = "dial" => sessions[req[r].user] \notin open

MapOK == SessionsDistinct /\ DialClosesFirst /\ OnlyFailedPingLeaks /\ DeadSessionExplained

\* A step that leaves the map, the connections, the mutex and the dials alone.
LEMMA MapKept ==
  ASSUME Typed, Typed', MapOK, UNCHANGED <<sessions, open, mutex, failed, leaked>>,
         \A q \in Req : req[q].at = "dial" => req'[q].user = req[q].user
  PROVE  MapOK'
<1>1. \A q \in Req : req'[q].at = "dial" <=> req[q].at = "dial"
  BY DEF Typed, TypeOK
<1> QED BY <1>1 DEF MapOK, SessionsDistinct, DialClosesFirst, OnlyFailedPingLeaks,
                     DeadSessionExplained, Typed, TypeOK

LEMMA MapStep == Typed /\ Typed' /\ MapOK /\ [Next]_vars => MapOK'
<1> SUFFICES ASSUME Typed, Typed', MapOK, [Next]_vars PROVE MapOK'
  OBVIOUS
<1> USE DEF Typed, TypeOK
<1> DEFINE Goal == SessionsDistinct' /\ DialClosesFirst' /\ OnlyFailedPingLeaks' /\ DeadSessionExplained'
<1>0. Goal => MapOK'
  BY DEF MapOK
<1>1. ASSUME NEW r \in Req, NEW u \in User, NEW n \in 1 .. MaxSteps, Begin(r, u, n) PROVE MapOK'
  BY <1>1, MapKept DEF Begin, Goto
<1>2. ASSUME NEW r \in Req, getSession(r) PROVE MapOK'
  BY <1>2, MapKept DEF getSession, Goto
<1>3. ASSUME NEW r \in Req, Statement(r) PROVE MapOK'
  BY <1>3, MapKept DEF Statement, Goto
<1>4. ASSUME NEW r \in Req, NEW u \in User, Connect(r, u) PROVE MapOK'
  <2> DEFINE job == [Done EXCEPT !.at = "dial", !.user = u]
  <2>1. job \in Request /\ job.at = "dial" /\ job.user = u /\ job.used = {}
    BY DialIsRequest
  <2>2. /\ CutOthers(r, u, job) /\ mutex = None /\ mutex' = r
        /\ open' = open \ {sessions[u]} /\ UNCHANGED <<sessions, idle, failed, leaked>>
    BY <1>4 DEF Connect, Unlocked
  <2> HIDE DEF job
  <2>3. req'[r] = job /\ \A q \in Req \ {r} : req[q].at # "dial"
    BY <2>1, <2>2, CutOthersEffect
  <2>4. SessionsDistinct' /\ OnlyFailedPingLeaks'
    BY <2>2 DEF MapOK, SessionsDistinct, OnlyFailedPingLeaks
  <2>5. DialClosesFirst'
    BY <2>1, <2>2, <2>3 DEF DialClosesFirst
  <2>6. DeadSessionExplained'
    BY <2>1, <2>2, <2>3 DEF MapOK, DeadSessionExplained, SessionsDistinct
  <2> QED BY <1>0, <2>4, <2>5, <2>6
<1>5. ASSUME NEW r \in Req, Connected(r) PROVE MapOK'
  <2> DEFINE u == req[r].user
  <2>1. /\ req[r].at = "dial" /\ mutex = r /\ mutex' = None /\ u \in User
        /\ failed' = failed \ {u} /\ UNCHANGED leaked
    BY <1>5 DEF Connected
  <2>2. PICK c \in (Conn \ open) \ Referenced :
          sessions' = [sessions EXCEPT ![u] = c] /\ open' = open \cup {c}
    BY <1>5 DEF Connected
  <2>3. \A v \in User : sessions[v] # c
    BY <2>2 DEF Referenced
  <2>4. \A q \in Req : req'[q].at # "dial"
    BY <2>1
  <2>5. SessionsDistinct'
    BY <2>1, <2>2, <2>3 DEF MapOK, SessionsDistinct
  <2>6. DialClosesFirst'
    BY <2>4 DEF DialClosesFirst
  <2>7. OnlyFailedPingLeaks'
    BY <2>1, <2>2 DEF MapOK, OnlyFailedPingLeaks, DialClosesFirst
  <2>8. DeadSessionExplained'
    BY <2>1, <2>2, <2>3 DEF MapOK, DeadSessionExplained
  <2> QED BY <1>0, <2>5, <2>6, <2>7, <2>8
<1>6. ASSUME NEW r \in Req, ConnectFails(r) PROVE MapOK'
  <2>1. /\ req[r].at = "dial" /\ mutex = r /\ mutex' = None /\ failed' = failed \cup {req[r].user}
        /\ UNCHANGED <<sessions, idle>>
    BY <1>6 DEF ConnectFails
  <2>2. \A q \in Req : req'[q].at # "dial"
    BY <2>1
  <2>3. \/ UNCHANGED <<open, leaked>>
        \/ \E c \in Conn \ open : /\ \A v \in User : sessions[v] # c
                                   /\ open' = open \cup {c} /\ leaked' = leaked \cup {c}
    BY <1>6 DEF ConnectFails, FailedPing, Referenced
  <2>4. SessionsDistinct' /\ DialClosesFirst'
    BY <2>1, <2>2 DEF MapOK, SessionsDistinct, DialClosesFirst
  <2>5. OnlyFailedPingLeaks'
    BY <2>1, <2>3 DEF MapOK, OnlyFailedPingLeaks
  <2>6. DeadSessionExplained'
    BY <2>1, <2>3 DEF MapOK, DeadSessionExplained
  <2> QED BY <1>0, <2>4, <2>5, <2>6
<1>7. ASSUME NEW r \in Req, NEW u \in User, Disconnect(r, u) PROVE MapOK'
  <2>1. /\ mutex = None /\ UNCHANGED mutex /\ open' = open \ {sessions[u]}
        /\ sessions' = [sessions EXCEPT ![u] = None] /\ failed' = failed \ {u} /\ UNCHANGED leaked
    BY <1>7 DEF Disconnect, Unlocked
  <2>2. \A q \in Req : req'[q].at # "dial"
    BY <2>1
  <2>3. SessionsDistinct'
    BY <2>1 DEF MapOK, SessionsDistinct
  <2>4. OnlyFailedPingLeaks' /\ DialClosesFirst'
    BY <2>1, <2>2 DEF MapOK, OnlyFailedPingLeaks, DialClosesFirst
  <2>5. DeadSessionExplained'
    BY <2>1 DEF MapOK, DeadSessionExplained, SessionsDistinct
  <2> QED BY <1>0, <2>3, <2>4, <2>5
<1>8. CASE cleanupStaleSessions
  <2>1. /\ mutex = None /\ UNCHANGED <<mutex, req, leaked>> /\ failed' = failed \ Stale
        /\ open' = open \ {sessions[u] : u \in Stale}
        /\ sessions' = [u \in User |-> IF u \in Stale THEN None ELSE sessions[u]]
    BY <1>8 DEF cleanupStaleSessions, Unlocked
  <2>2. Stale \subseteq User /\ \A q \in Req : req'[q].at # "dial"
    BY <2>1 DEF Stale
  <2>3. SessionsDistinct'
    BY <2>1 DEF MapOK, SessionsDistinct
  <2>4. DialClosesFirst'
    BY <2>1, <2>2 DEF DialClosesFirst
  <2>6. OnlyFailedPingLeaks'
    <3>1. leaked \subseteq open' /\ \A u \in User : sessions'[u] \notin leaked
      BY <2>1, <2>2 DEF MapOK, OnlyFailedPingLeaks
    <3>2. \A c \in open' \ leaked : \E u \in User : sessions'[u] = c
      BY <2>1, <2>2 DEF MapOK, OnlyFailedPingLeaks
    <3> QED BY <2>1, <3>1, <3>2 DEF OnlyFailedPingLeaks
  <2>5. DeadSessionExplained'
    BY <2>1, <2>2 DEF MapOK, DeadSessionExplained, SessionsDistinct
  <2> QED BY <1>0, <2>3, <2>4, <2>5, <2>6
<1>9. CASE Tick
  BY <1>9, MapKept, TickEffect DEF Tick
<1>10. CASE Restart
  BY <1>0, <1>10, DoneIsRequest
     DEF Restart, SessionsDistinct, DialClosesFirst, OnlyFailedPingLeaks, DeadSessionExplained
<1>11. CASE UNCHANGED vars
  BY <1>11, MapKept DEF vars
<1> QED BY <1>1, <1>2, <1>3, <1>4, <1>5, <1>6, <1>7, <1>8, <1>9, <1>10, <1>11 DEF Next

LEMMA MapInit == Init => MapOK
  BY DoneIsRequest DEF Init, MapOK, SessionsDistinct, DialClosesFirst, OnlyFailedPingLeaks,
     DeadSessionExplained

\* The only clients nobody can close any more are those a failed Ping left
\* running, whatever Connect, Disconnect and the cleanup do in whatever order.
THEOREM SessionsOnlyPingLeaks == Spec => []OnlyFailedPingLeaks
<1>1. MapOK => OnlyFailedPingLeaks
  BY DEF MapOK
<1> QED BY <1>1, TypedInit, TypedStep, MapInit, MapStep, PTL DEF Spec

\* A session whose connection is closed is that of a user whose last Connect
\* failed, or who dials.
THEOREM SessionsDeadExplained == Spec => []DeadSessionExplained
<1>1. MapOK => DeadSessionExplained
  BY DEF MapOK
<1> QED BY <1>1, TypedInit, TypedStep, MapInit, MapStep, PTL DEF Spec

---------------------------------------------------------------------------
(* The map against the requests that read it. *)

\* A running statement has the session of its user, and keeps it from looking
\* stale, until its user reconnects or it has run longer than sessionTimeout.
StatementHoldsSession ==
  \A r \in Req : req[r].at = "use" /\ ~req[r].cut /\ req[r].age <= Timeout
                   => req[r].conn = sessions[req[r].user] /\ idle[req[r].user] <= req[r].age

\* A dial has told the running statements of its user.
DialTellsStatements ==
  \A r, d \in Req : mutex = d /\ req[r].at = "use" /\ req[r].user = req[d].user => req[r].cut

\* What a request got from the map is what the map has, or it was cleaned up.
RequestHoldsSession ==
  \A r \in Req : ~req[r].cut =>
    \/ req[r].used = {}
    \/ /\ req[r].at \in {"fetch", "use"}
       /\ \E c \in Conn : req[r].used = {c} /\ sessions[req[r].user] \in {c, None}

JobsHold == StatementHoldsSession /\ DialTellsStatements /\ RequestHoldsSession

\* One request moves: the others keep their hold if the map, the clock of the
\* running statements and the mutex allow it.
LEMMA OthersHold ==
  ASSUME NEW r \in Req, Typed, Typed', JobsHold, UNCHANGED sessions, mutex' \in {mutex, None},
         \A u \in User : idle'[u] <= idle[u],
         \A q \in Req \ {r} : req'[q] = req[q],
         req[r].at = "dial" => mutex' = None, req'[r].at # "dial",
         req'[r].at = "use" => mutex = None,
         req'[r].at = "use" /\ ~req'[r].cut /\ req'[r].age <= Timeout
           => req'[r].conn = sessions[req'[r].user] /\ idle'[req'[r].user] <= req'[r].age,
         ~req'[r].cut =>
           \/ req'[r].used = {}
           \/ /\ req'[r].at \in {"fetch", "use"}
              /\ \E c \in Conn : req'[r].used = {c} /\ sessions[req'[r].user] \in {c, None}
  PROVE  JobsHold'
<1> USE DEF Typed, TypeOK
<1>1. StatementHoldsSession'
  <2> SUFFICES ASSUME NEW q \in Req, req'[q].at = "use" /\ ~req'[q].cut /\ req'[q].age <= Timeout
               PROVE  req'[q].conn = sessions[req'[q].user] /\ idle'[req'[q].user] <= req'[q].age
    BY DEF StatementHoldsSession
  <2>1. CASE q = r
    BY <2>1
  <2>2. CASE q # r
    <3>1. /\ req'[q] = req[q] /\ req[q].user \in User
          /\ req[q].conn = sessions[req[q].user] /\ idle[req[q].user] <= req[q].age
      BY <2>2 DEF JobsHold, StatementHoldsSession
    <3>2. idle'[req[q].user] \in Int /\ idle[req[q].user] \in Int /\ req[q].age \in Int
      BY <3>1 DEF Request
    <3> QED BY <3>1, <3>2
  <2> QED BY <2>1, <2>2
<1>2. DialTellsStatements'
  <2> SUFFICES ASSUME NEW q \in Req, NEW d \in Req, mutex' = d, req'[q].at = "use",
                      req'[q].user = req'[d].user
               PROVE  req'[q].cut
    BY DEF DialTellsStatements
  <2>1. d # r /\ q # r
    OBVIOUS
  <2> QED BY <2>1 DEF JobsHold, DialTellsStatements
<1>3. RequestHoldsSession'
  BY DEF JobsHold, RequestHoldsSession
<1> QED BY <1>1, <1>2, <1>3 DEF JobsHold

KeptBut(u) == \A v \in User \ {u} : sessions'[v] = sessions[v] /\ idle'[v] = idle[v]

\* A user's session changes hands: the other requests of that user are cut.
LEMMA OthersCut ==
  ASSUME NEW r \in Req, NEW u \in User, NEW job \in Request, Typed, Typed', JobsHold,
         CutOthers(r, u, job), job.at \in {"done", "dial"}, job.used = {},
         KeptBut(u),
         mutex' = None \/ (mutex' = r /\ job.user = u)
  PROVE  JobsHold'
<1> USE DEF Typed, TypeOK
<1>1. /\ req'[r] = job
      /\ \A q \in Req \ {r} :
           /\ req'[q].at = req[q].at /\ req'[q].user = req[q].user
           /\ req'[q].conn = req[q].conn /\ req'[q].used = req[q].used
           /\ req'[q].age = req[q].age
           /\ req[q].user = u => req'[q].cut
           /\ req[q].user # u => req'[q].cut = req[q].cut
  BY CutOthersEffect
<1>2. StatementHoldsSession'
  BY <1>1 DEF JobsHold, StatementHoldsSession, KeptBut
<1>3. DialTellsStatements'
  BY <1>1 DEF DialTellsStatements
<1>4. RequestHoldsSession'
  BY <1>1 DEF JobsHold, RequestHoldsSession, KeptBut
<1> QED BY <1>2, <1>3, <1>4 DEF JobsHold

LEMMA JobsStep == Typed /\ Typed' /\ MapOK /\ JobsHold /\ [Next]_vars => JobsHold'
<1> SUFFICES ASSUME Typed, Typed', MapOK, JobsHold, [Next]_vars PROVE JobsHold'
  OBVIOUS
<1> USE DEF Typed, TypeOK
<1> DEFINE Goal == StatementHoldsSession' /\ DialTellsStatements' /\ RequestHoldsSession'
<1>0. Goal => JobsHold'
  BY DEF JobsHold
<1>1. ASSUME NEW r \in Req, NEW u \in User, NEW n \in 1 .. MaxSteps, Begin(r, u, n) PROVE JobsHold'
  <2> DEFINE job == [Done EXCEPT !.at = "fetch", !.user = u, !.left = n]
  <2>1. job \in Request /\ job.at = "fetch" /\ job.used = {}
    BY BegunIsRequest
  <2>2. Goto(r, job) /\ UNCHANGED <<sessions, idle, open, mutex, failed, leaked>> /\ req[r].at = "done"
    BY <1>1 DEF Begin
  <2> HIDE DEF job
  <2>3. req'[r] = job /\ \A q \in Req \ {r} : req'[q] = req[q]
    BY <2>2 DEF Goto
  <2>4. \A v \in User : idle'[v] <= idle[v]
    BY <2>2
  <2> QED BY <2>1, <2>2, <2>3, <2>4, OthersHold
<1>2. ASSUME NEW r \in Req, getSession(r) PROVE JobsHold'
  <2> DEFINE u == req[r].user
  <2>1. req[r].at = "fetch" /\ mutex = None /\ UNCHANGED <<sessions, open, mutex, failed, leaked>> /\ u \in User
    BY <1>2 DEF getSession, Unlocked
  <2>2. CASE UNCHANGED idle /\ (Goto(r, NextStatement(req[r])) \/ Goto(r, Done))
    <3>1. \A q \in Req \ {r} : req'[q] = req[q]
      BY <2>2 DEF Goto
    <3>2. \A v \in User : idle'[v] <= idle[v]
      BY <2>2
    <3>3. req'[r] = NextStatement(req[r]) \/ req'[r] = Done
      BY <2>2 DEF Goto
    <3>4. /\ req'[r].at \in {"done", "fetch"}
          /\ req'[r].at = "fetch" => /\ req'[r].user = u /\ req'[r].used = req[r].used
                                     /\ req'[r].cut = req[r].cut
          /\ req'[r].at = "done" => req'[r].used = {}
      BY <2>1, <3>3, NextStatementIsRequest, DoneIsRequest DEF JobsOK
    <3> QED BY <2>1, <3>1, <3>2, <3>4, OthersHold DEF JobsHold, RequestHoldsSession
  <2>3. CASE /\ sessions[u] # None /\ Goto(r, Fetched(r, u)) /\ idle' = [idle EXCEPT ![u] = 0]
    <3>1. sessions[u] \in Conn
      BY <2>1, <2>3
    <3>2. \A q \in Req \ {r} : req'[q] = req[q]
      BY <2>3 DEF Goto
    <3>3. \A v \in User : idle'[v] <= idle[v]
      BY <2>3
    <3>4. req'[r] = Fetched(r, u)
      BY <2>3 DEF Goto
    <3>5. /\ req'[r].at = "use" /\ req'[r].conn = sessions[u] /\ req'[r].age = 0
          /\ req'[r].used = req[r].used \cup {sessions[u]} /\ req'[r].user = u
          /\ req'[r].cut = req[r].cut
      BY <2>1, <3>1, <3>4, FetchedIsRequest
    <3>6. ~req[r].cut => req'[r].used = {sessions[u]}
      BY <2>1, <3>1, <3>5 DEF JobsHold, RequestHoldsSession
    <3>7. idle'[u] = 0
      BY <2>1, <2>3
    <3> QED BY <2>1, <3>1, <3>2, <3>3, <3>5, <3>6, <3>7, OthersHold
  <2> QED BY <1>2, <2>2, <2>3 DEF getSession
<1>3. ASSUME NEW r \in Req, Statement(r) PROVE JobsHold'
  <2>1. req[r].at = "use" /\ UNCHANGED <<sessions, idle, open, mutex, failed, leaked>>
    BY <1>3 DEF Statement
  <2>2. \A q \in Req \ {r} : req'[q] = req[q]
    BY <1>3 DEF Statement, Goto
  <2>3. req'[r] = NextStatement(req[r]) \/ req'[r] = Done
    BY <1>3 DEF Statement, Goto
  <2>4. /\ req'[r].at \in {"done", "fetch"}
        /\ req'[r].at = "fetch" => /\ req'[r].user = req[r].user /\ req'[r].used = req[r].used
                                   /\ req'[r].cut = req[r].cut
        /\ req'[r].at = "done" => req'[r].used = {}
    BY <2>1, <2>3, NextStatementIsRequest, DoneIsRequest DEF JobsOK
  <2>5. \A v \in User : idle'[v] <= idle[v]
    BY <2>1
  <2> QED BY <2>1, <2>2, <2>4, <2>5, OthersHold DEF JobsHold, RequestHoldsSession
<1>4. ASSUME NEW r \in Req, NEW u \in User, Connect(r, u) PROVE JobsHold'
  <2> DEFINE job == [Done EXCEPT !.at = "dial", !.user = u]
  <2>1. job \in Request /\ job.at = "dial" /\ job.user = u /\ job.used = {}
    BY DialIsRequest
  <2>2. CutOthers(r, u, job) /\ mutex' = r /\ UNCHANGED <<sessions, idle>>
    BY <1>4 DEF Connect
  <2>3. KeptBut(u)
    BY <2>2 DEF KeptBut
  <2> HIDE DEF job
  <2> QED BY <2>1, <2>2, <2>3, OthersCut
<1>5. ASSUME NEW r \in Req, Connected(r) PROVE JobsHold'
  <2> DEFINE u == req[r].user
  <2>1. u \in User /\ CutOthers(r, u, Done) /\ mutex' = None
    BY <1>5 DEF Connected
  <2>2. KeptBut(u)
    BY <1>5 DEF Connected, KeptBut
  <2>3. Done \in Request /\ Done.at \in {"done", "dial"} /\ Done.used = {}
    BY DoneIsRequest
  <2> HIDE DEF u, Typed, TypeOK
  <2> QED BY <2>1, <2>2, <2>3, OthersCut
<1>6. ASSUME NEW r \in Req, ConnectFails(r) PROVE JobsHold'
  <2>1. /\ req[r].at = "dial" /\ mutex' = None /\ UNCHANGED <<sessions, idle>>
        /\ req'[r] = Done
    BY <1>6 DEF ConnectFails, Goto
  <2>2. \A q \in Req \ {r} : req'[q] = req[q]
    BY <1>6 DEF ConnectFails, Goto
  <2>3. \A v \in User : idle'[v] <= idle[v]
    BY <2>1
  <2> QED BY <2>1, <2>2, <2>3, OthersHold, DoneIsRequest
<1>7. ASSUME NEW r \in Req, NEW u \in User, Disconnect(r, u) PROVE JobsHold'
  <2>1. CutOthers(r, u, Done) /\ mutex' = None
    BY <1>7 DEF Disconnect, Unlocked
  <2>2. KeptBut(u)
    BY <1>7 DEF Disconnect, KeptBut
  <2>3. Done \in Request /\ Done.at \in {"done", "dial"} /\ Done.used = {}
    BY DoneIsRequest
  <2> HIDE DEF Typed, TypeOK
  <2> QED BY <2>1, <2>2, <2>3, OthersCut
<1>8. CASE cleanupStaleSessions
  <2>1. /\ mutex' = None /\ UNCHANGED req
        /\ sessions' = [u \in User |-> IF u \in Stale THEN None ELSE sessions[u]]
        /\ idle' = [u \in User |-> IF u \in Stale THEN 0 ELSE idle[u]]
    BY <1>8 DEF cleanupStaleSessions, Unlocked
  <2>2. StatementHoldsSession'
    <3> SUFFICES ASSUME NEW r \in Req, req[r].at = "use", ~req[r].cut, req[r].age <= Timeout
                 PROVE  req[r].conn = sessions'[req[r].user] /\ idle'[req[r].user] <= req[r].age
      BY <2>1 DEF StatementHoldsSession
    <3>1. /\ req[r].user \in User /\ req[r].conn = sessions[req[r].user]
          /\ idle[req[r].user] <= req[r].age
      BY DEF JobsHold, StatementHoldsSession
    <3>2. req[r].user \notin Stale
      <4>1. idle[req[r].user] \in Int /\ req[r].age \in Int
        BY <3>1 DEF Request
      <4> QED BY <3>1, <4>1 DEF Stale
    <3> QED BY <2>1, <3>1, <3>2
  <2>3. DialTellsStatements'
    BY <2>1 DEF DialTellsStatements
  <2>4. RequestHoldsSession'
    BY <2>1 DEF JobsHold, RequestHoldsSession
  <2> QED BY <1>0, <2>2, <2>3, <2>4
<1>9. CASE Tick
  <2>1. /\ UNCHANGED <<sessions, mutex>>
        /\ idle' = [u \in User |-> IF sessions[u] # None THEN Later(idle[u]) ELSE idle[u]]
        /\ \A q \in Req :
             /\ req'[q].at = req[q].at /\ req'[q].user = req[q].user
             /\ req'[q].conn = req[q].conn /\ req'[q].used = req[q].used
             /\ req'[q].cut = req[q].cut
             /\ req[q].at = "use" => req'[q].age = Later(req[q].age)
    BY <1>9, TickEffect DEF Tick
  <2>2. StatementHoldsSession'
    <3> SUFFICES ASSUME NEW r \in Req, req[r].at = "use", ~req[r].cut, Later(req[r].age) <= Timeout
                 PROVE  req[r].conn = sessions[req[r].user] /\ idle'[req[r].user] <= Later(req[r].age)
      BY <2>1 DEF StatementHoldsSession
    <3>1. req[r].user \in User /\ req[r].age \in Nat
      BY DEF Request
    <3>2. idle[req[r].user] \in Nat
      BY <3>1
    <3>3. req[r].age <= Timeout /\ Later(req[r].age) = req[r].age + 1
      BY <3>1 DEF Later
    <3>4. req[r].conn = sessions[req[r].user] /\ idle[req[r].user] <= req[r].age
      BY <3>3 DEF JobsHold, StatementHoldsSession
    <3>5. idle'[req[r].user] \in {idle[req[r].user], idle[req[r].user] + 1}
      BY <2>1, <3>1 DEF Later
    <3> QED BY <3>1, <3>2, <3>3, <3>4, <3>5
  <2>3. DialTellsStatements' /\ RequestHoldsSession'
    BY <2>1 DEF JobsHold, DialTellsStatements, RequestHoldsSession
  <2> QED BY <1>0, <2>2, <2>3
<1>10. CASE Restart
  <2>1. \A q \in Req : req'[q] = Done
    BY <1>10 DEF Restart
  <2> QED BY <1>0, <2>1, DoneIsRequest
       DEF StatementHoldsSession, DialTellsStatements, RequestHoldsSession
<1>11. CASE UNCHANGED vars
  BY <1>0, <1>11 DEF vars, JobsHold, StatementHoldsSession, DialTellsStatements, RequestHoldsSession
<1> QED BY <1>1, <1>2, <1>3, <1>4, <1>5, <1>6, <1>7, <1>8, <1>9, <1>10, <1>11 DEF Next

LEMMA JobsInit == Init => JobsHold
  BY DoneIsRequest
     DEF Init, JobsHold, StatementHoldsSession, DialTellsStatements, RequestHoldsSession

\* A statement loses its connection only to its own user, or to the cleanup
\* once the statement alone has outlasted sessionTimeout.
THEOREM SessionsClosedExplained == Spec => []ClosedUnderStatementExplained
<1>1. Typed /\ MapOK /\ JobsHold => ClosedUnderStatementExplained
  <2> SUFFICES ASSUME Typed, MapOK, JobsHold, NEW r \in Req,
                      req[r].at = "use", req[r].conn \notin open,
                      ~req[r].cut, ~(req[r].age > Timeout)
               PROVE  req[r].user \in failed
    BY DEF ClosedUnderStatementExplained
  <2> USE DEF Typed, TypeOK
  <2>1. req[r].user \in User /\ req[r].conn \in Conn /\ req[r].age <= Timeout
    BY DEF Request
  <2>2. req[r].conn = sessions[req[r].user]
    BY <2>1 DEF JobsHold, StatementHoldsSession
  <2>3. req[r].user \in failed \/ \E d \in Req : mutex = d /\ req[d].user = req[r].user
    BY <2>1, <2>2 DEF MapOK, DeadSessionExplained
  <2> QED BY <2>3 DEF JobsHold, DialTellsStatements
<1> QED BY <1>1, TypedInit, TypedStep, MapInit, MapStep, JobsInit, JobsStep, PTL DEF Spec

\* The statements of a request run on one connection, unless its own user
\* connected or disconnected since it began.
THEOREM SessionsOneConnection == Spec => []OneRequestOneConnection
<1>1. JobsHold => OneRequestOneConnection
  <2> SUFFICES ASSUME JobsHold, NEW r \in Req, ~req[r].cut
               PROVE  Cardinality(req[r].used) <= 1
    BY DEF OneRequestOneConnection
  <2>1. CASE req[r].used = {}
    <3>1. Cardinality({}) = 0
      BY FS_EmptySet
    <3> QED BY <2>1, <3>1
  <2>2. CASE \E c \in Conn : req[r].used = {c}
    <3>1. PICK c \in Conn : req[r].used = {c}
      BY <2>2
    <3>2. Cardinality({c}) = 1
      BY FS_Singleton
    <3> QED BY <3>1, <3>2
  <2> QED BY <2>1, <2>2 DEF JobsHold, RequestHoldsSession
<1> QED BY <1>1, TypedInit, TypedStep, MapInit, MapStep, JobsInit, JobsStep, PTL DEF Spec
===========================================================================
