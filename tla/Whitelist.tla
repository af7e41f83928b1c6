----------------------------- MODULE Whitelist -----------------------------
(***************************************************************************)
(* The IP whitelist: the set the middleware consults                       *)
(* (core/security/ip_whitelist.go), the tables ip_whitelist and settings   *)
(* it is loaded from at start (core/auth/repository.go, main.go), and the  *)
(* admin handlers that write first the one and then the other              *)
(* (core/controller/security_controller.go).                               *)
(*                                                                         *)
(* An action is one critical section of the RWMutex or one SQL statement.  *)
(* The set holds normalized addresses, the table the spelling the admin    *)
(* typed; Norm is NormalizeIP.  Which role sends a request is not modelled, *)
(* only whether the middleware lets its client in.                         *)
(***************************************************************************)
EXTENDS FiniteSets

CONSTANTS
  Req,       \* admin requests that may be in flight
  Ip,        \* normalized addresses
  Spelling,  \* what an admin may type
  Norm,      \* NormalizeIP, [Spelling -> Ip]
  None

ASSUME WhitelistAssumption ==
  /\ Ip \subseteq Spelling
  /\ Norm \in [Spelling -> Ip]
  /\ \A ip \in Ip : Norm[ip] = ip
  /\ None \notin Spelling

VARIABLES
  enabled, allowed,  \* the IPWhitelist of the process
  dbEnabled, dbIps,  \* settings and ip_whitelist
  req,
  added, removed     \* history: addresses last added, last removed

memory == <<enabled, allowed>>
database == <<dbEnabled, dbIps>>
vars == <<memory, database, req, added, removed>>

\* undone is history: somebody removed ip after this request began.
Request == [at : {"idle", "add", "insert", "setEnabled", "saveEnabled", "delete"},
            ip : Spelling \cup {None}, todo : SUBSET Spelling,
            enable : BOOLEAN, toggle : BOOLEAN, undone : BOOLEAN]
Idle == [at |-> "idle", ip |-> None, todo |-> {}, enable |-> FALSE, toggle |-> FALSE,
         undone |-> FALSE]

Goto(r, job) == req' = [req EXCEPT ![r] = job]

IsAllowed(ip) == ~enabled \/ allowed = {} \/ ip \in allowed

\* The middleware lets some client send the request.
CanStart(r) == req[r].at = "idle" /\ \E ip \in Ip : IsAllowed(ip)

---------------------------------------------------------------------------
(* Adding: the set first, then the table, one address after the other. *)

AddIP(r, ip) ==
  /\ CanStart(r)
  /\ Goto(r, [Idle EXCEPT !.at = "add", !.todo = {ip}])
  /\ UNCHANGED <<memory, database, added, removed>>

BulkAddIPs(r, ips) ==
  /\ CanStart(r)
  /\ ips # {}
  /\ Goto(r, [Idle EXCEPT !.at = "add", !.todo = ips])
  /\ UNCHANGED <<memory, database, added, removed>>

\* A bug: the client's own address is added only to an empty whitelist.
ToggleWhitelistMutant(r, client, enable) ==
  /\ CanStart(r) /\ IsAllowed(client)
  /\ Goto(r, [Idle EXCEPT !.at = IF enable /\ allowed = {} THEN "add" ELSE "setEnabled",
                          !.ip = client, !.todo = IF enable /\ allowed = {} THEN {client} ELSE {},
                          !.enable = enable, !.toggle = TRUE])
  /\ UNCHANGED <<memory, database, added, removed>>

\* Enabling adds the client's own address before anything else.
ToggleWhitelist(r, client, enable) ==
  /\ CanStart(r) /\ IsAllowed(client)
  /\ Goto(r, [Idle EXCEPT !.at = IF enable THEN "add" ELSE "setEnabled",
                          !.ip = client, !.todo = IF enable THEN {client} ELSE {},
                          !.enable = enable, !.toggle = TRUE])
  /\ UNCHANGED <<memory, database, added, removed>>

AddToMemory(r) ==
  /\ req[r].at = "add"
  /\ \E ip \in req[r].todo :
       /\ allowed' = allowed \cup {Norm[ip]}
       /\ added' = added \cup {Norm[ip]}
       /\ removed' = removed \ {Norm[ip]}
       /\ Goto(r, [req[r] EXCEPT !.at = "insert", !.ip = ip, !.todo = @ \ {ip}])
  /\ UNCHANGED <<enabled, database>>

AfterInsert(r) ==
  IF req[r].toggle THEN [req[r] EXCEPT !.at = "setEnabled"]
  ELSE IF req[r].todo # {} THEN [req[r] EXCEPT !.at = "add"] ELSE Idle

\* A bug: the row is not written.
AddWhitelistedIPMutant(r) ==
  /\ req[r].at = "insert"
  /\ removed' = removed \ {Norm[req[r].ip]}
  /\ Goto(r, AfterInsert(r))
  /\ UNCHANGED <<memory, database, added>>

\* INSERT OR IGNORE; when it fails, AddIP answers 500 and the other two go on.
AddWhitelistedIP(r) ==
  LET ip == req[r].ip IN
  /\ req[r].at = "insert"
  /\ \/ dbIps' = dbIps \cup {ip} /\ UNCHANGED added
     \/ UNCHANGED dbIps /\ added' = added \ {Norm[ip]}
  /\ removed' = removed \ {Norm[ip]}
  /\ Goto(r, AfterInsert(r))
  /\ UNCHANGED <<memory, dbEnabled>>

SetEnabled(r) ==
  /\ req[r].at = "setEnabled"
  /\ enabled' = req[r].enable
  /\ Goto(r, [req[r] EXCEPT !.at = "saveEnabled"])
  /\ UNCHANGED <<allowed, database, added, removed>>

SetIPWhitelistEnabled(r) ==
  /\ req[r].at = "saveEnabled"
  /\ dbEnabled' \in {req[r].enable, dbEnabled}   \* the statement may fail
  /\ Goto(r, Idle)
  /\ UNCHANGED <<memory, dbIps, added, removed>>

---------------------------------------------------------------------------
(* Removing: the set by the normalized address, the table by the spelling. *)

RemoveIP(r, ip) ==
  /\ CanStart(r)
  /\ allowed' = allowed \ {Norm[ip]}
  /\ added' = added \ {Norm[ip]}
  /\ removed' = removed \cup {Norm[ip]}
  /\ req' = [q \in Req |->
               IF q = r THEN [Idle EXCEPT !.at = "delete", !.ip = ip]
               ELSE IF req[q].ip # None /\ Norm[req[q].ip] = Norm[ip]
                    THEN [req[q] EXCEPT !.undone = TRUE] ELSE req[q]]
  /\ UNCHANGED <<enabled, database>>

\* A bug: the row stays.
RemoveWhitelistedIPMutant(r) ==
  /\ req[r].at = "delete"
  /\ Goto(r, Idle)
  /\ UNCHANGED <<memory, database, added, removed>>

RemoveWhitelistedIP(r) ==
  LET ip == req[r].ip IN
  /\ req[r].at = "delete"
  /\ \/ dbIps' = dbIps \ {ip} /\ UNCHANGED removed
     \/ UNCHANGED dbIps /\ removed' = removed \ {Norm[ip]}
  /\ added' = added \ {Norm[ip]}
  /\ Goto(r, Idle)
  /\ UNCHANGED <<memory, dbEnabled>>

---------------------------------------------------------------------------
\* main.go loads the whitelist before it listens; when the table cannot be
\* read the set stays empty.  A request that was writing makes no promise.
Restart ==
  /\ enabled' = dbEnabled
  /\ \/ /\ allowed' = {Norm[ip] : ip \in dbIps}
        /\ added' = added \ {Norm[req[r].ip] : r \in {q \in Req : req[q].at = "insert"}}
     \/ allowed' = {} /\ added' = {}
  /\ removed' = removed \ {Norm[req[r].ip] : r \in {q \in Req : req[q].at = "delete"}}
  /\ req' = [r \in Req |-> Idle]
  /\ UNCHANGED database

Init ==
  /\ enabled = FALSE /\ allowed = {}
  /\ dbEnabled = FALSE /\ dbIps = {}
  /\ req = [r \in Req |-> Idle]
  /\ added = {} /\ removed = {}

Start(r) ==
  \/ \E ip \in Spelling : AddIP(r, ip) \/ RemoveIP(r, ip)
  \/ \E ips \in SUBSET Spelling : BulkAddIPs(r, ips)
  \/ \E client \in Ip, enable \in BOOLEAN : ToggleWhitelist(r, client, enable)

Continue(r) ==
  \/ AddToMemory(r) \/ AddWhitelistedIP(r)
  \/ SetEnabled(r) \/ SetIPWhitelistEnabled(r)
  \/ RemoveWhitelistedIP(r)

Next == (\E r \in Req : Start(r) \/ Continue(r)) \/ Restart

Spec == Init /\ [][Next]_vars

---------------------------------------------------------------------------
(* Properties. *)

\* The set holds normalized addresses, the table spellings.
TypeOK ==
  /\ enabled \in BOOLEAN /\ dbEnabled \in BOOLEAN
  /\ allowed \subseteq Ip /\ dbIps \subseteq Spelling
  /\ req \in [Req -> Request]
  /\ \A r \in Req : req[r].at \notin {"idle", "add"} => req[r].ip \in Spelling
  /\ added \subseteq Ip /\ removed \subseteq Ip

\* An address that was added and not removed since is let in, whatever other
\* admins do meanwhile and also after a restart (unless a statement failed).
AddedStaysIn == \A ip \in added : IsAllowed(ip)

\* ToggleWhitelist "when enabling, the client's own IP is automatically added to
\* prevent self-lockout": when it answers, its client can go on, unless
\* another admin removed that very address meanwhile.
NoSelfLockout ==
  \A r \in Req : req[r].at = "saveEnabled" /\ req[r].enable /\ ~req[r].undone
                   => IsAllowed(req[r].ip)

\* RemoveIP "removes an IP from the whitelist": an address that was removed and
\* not added since is not on the list, also after a restart.
RemovedStaysOut == removed \cap allowed = {}
===========================================================================
