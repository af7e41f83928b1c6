-------------------------- MODULE Whitelist_proofs --------------------------
(***************************************************************************)
(* Whitelist for any number of admins, addresses and spellings.  No        *)
(* invariant below counts on requests running one after the other.         *)
(***************************************************************************)
EXTENDS Whitelist, TLAPS

USE WhitelistAssumption

\* The part of TypeOK about requests.
RequestsOK ==
  /\ req \in [Req -> Request]
  /\ \A r \in Req : req[r].at \notin {"idle", "add"} => req[r].ip \in Spelling

JobOK(job) == job \in Request /\ (job.at \notin {"idle", "add"} => job.ip \in Spelling)

\* A request that does nothing is well typed.
LEMMA IdleOK == JobOK(Idle) /\ Idle \in Request /\ Idle.at = "idle"
BY DEF JobOK, Idle, Request

\* Sending a request to a well-typed step keeps the requests well typed.
LEMMA GotoOK ==
  ASSUME RequestsOK, NEW r \in Req, NEW job, JobOK(job), Goto(r, job)
  PROVE  /\ RequestsOK'
         /\ req'[r] = job /\ \A q \in Req \ {r} : req'[q] = req[q]
<1>1. req' = [req EXCEPT ![r] = job] /\ req \in [Req -> Request]
  BY DEF Goto, RequestsOK
<1>2. req'[r] = job /\ \A q \in Req \ {r} : req'[q] = req[q]
  BY <1>1
<1>3. req' \in [Req -> Request]
  BY <1>1 DEF JobOK
<1>4. ASSUME NEW q \in Req PROVE req'[q].at \notin {"idle", "add"} => req'[q].ip \in Spelling
  <2>1. CASE q = r
    BY <1>2, <2>1 DEF JobOK
  <2>2. CASE q # r
    BY <1>2, <2>2 DEF RequestsOK
  <2> QED BY <2>1, <2>2
<1> QED BY <1>2, <1>3, <1>4 DEF RequestsOK

\* Typing is inductive.
THEOREM WhitelistTyped == Spec => []TypeOK
<1>1. Init => TypeOK
  BY IdleOK DEF Init, TypeOK
<1>2. TypeOK /\ [Next]_vars => TypeOK'
  <2> SUFFICES ASSUME TypeOK, [Next]_vars PROVE TypeOK'
    OBVIOUS
  <2> DEFINE Sets == /\ enabled \in BOOLEAN /\ dbEnabled \in BOOLEAN
                     /\ allowed \subseteq Ip /\ dbIps \subseteq Spelling
                     /\ added \subseteq Ip /\ removed \subseteq Ip
  <2>0. Sets /\ RequestsOK /\ (Sets' /\ RequestsOK' => TypeOK')
    BY DEF TypeOK, RequestsOK
  <2>1. ASSUME NEW r \in Req, NEW ips \in SUBSET Spelling,
               Goto(r, [Idle EXCEPT !.at = "add", !.todo = ips]),
               UNCHANGED <<memory, database, added, removed>>
        PROVE  TypeOK'
    <3>1. JobOK([Idle EXCEPT !.at = "add", !.todo = ips])
      BY DEF JobOK, Idle, Request
    <3> QED BY <2>0, <2>1, <3>1, GotoOK DEF memory, database
  <2>2. ASSUME NEW r \in Req, NEW client \in Ip, NEW enable \in BOOLEAN,
               ToggleWhitelist(r, client, enable)
        PROVE  TypeOK'
    <3> DEFINE job == [Idle EXCEPT !.at = IF enable THEN "add" ELSE "setEnabled",
                          !.ip = client, !.todo = IF enable THEN {client} ELSE {},
                          !.enable = enable, !.toggle = TRUE]
    <3>1. JobOK(job)
      BY DEF JobOK, Idle, Request
    <3>2. Goto(r, job) /\ Sets'
      BY <2>0, <2>2 DEF ToggleWhitelist, memory, database
    <3> QED BY <2>0, <3>1, <3>2, GotoOK
  <2>3. ASSUME NEW r \in Req, NEW ip \in Spelling, RemoveIP(r, ip) PROVE TypeOK'
    <3>1. \A q \in Req : JobOK(req'[q])
      <4> SUFFICES ASSUME NEW q \in Req PROVE JobOK(req'[q])
        OBVIOUS
      <4>1. CASE q = r
        <5>1. req'[q] = [Idle EXCEPT !.at = "delete", !.ip = ip]
          BY <2>3, <4>1 DEF RemoveIP
        <5> QED BY <5>1 DEF JobOK, Idle, Request
      <4>2. CASE q # r
        <5>1. req'[q] = req[q] \/ req'[q] = [req[q] EXCEPT !.undone = TRUE]
          BY <2>3, <4>2 DEF RemoveIP
        <5>2. JobOK(req[q])
          BY <2>0 DEF RequestsOK, JobOK
        <5>3. JobOK([req[q] EXCEPT !.undone = TRUE])
          BY <5>2 DEF JobOK, Request
        <5> QED BY <5>1, <5>2, <5>3
      <4> QED BY <4>1, <4>2
    <3>2. RequestsOK'
      BY <2>3, <3>1 DEF RemoveIP, RequestsOK, JobOK
    <3>3. Sets'
      BY <2>0, <2>3 DEF RemoveIP, database
    <3> QED BY <2>0, <3>2, <3>3
  <2>4. ASSUME NEW r \in Req, AddToMemory(r) PROVE TypeOK'
    <3>1. PICK ip \in req[r].todo :
            /\ Goto(r, [req[r] EXCEPT !.at = "insert", !.ip = ip, !.todo = @ \ {ip}])
            /\ allowed' = allowed \cup {Norm[ip]}
            /\ added' = added \cup {Norm[ip]}
            /\ removed' = removed \ {Norm[ip]}
      BY <2>4 DEF AddToMemory
    <3>2. req[r] \in Request
      BY <2>0 DEF RequestsOK
    <3>3. ip \in Spelling
      BY <3>2 DEF Request
    <3>4. JobOK([req[r] EXCEPT !.at = "insert", !.ip = ip, !.todo = @ \ {ip}])
      BY <3>2, <3>3 DEF JobOK, Request
    <3>5. Sets'
      BY <2>0, <2>4, <3>1, <3>3 DEF AddToMemory, database
    <3> QED BY <2>0, <3>1, <3>4, <3>5, GotoOK
  <2>5. ASSUME NEW r \in Req, AddWhitelistedIP(r) PROVE TypeOK'
    <3>1. req[r] \in Request /\ req[r].ip \in Spelling
      BY <2>0, <2>5 DEF RequestsOK, AddWhitelistedIP
    <3>2. JobOK([req[r] EXCEPT !.at = "setEnabled"]) /\ JobOK([req[r] EXCEPT !.at = "add"])
      BY <3>1 DEF JobOK, Request
    <3>3. JobOK(AfterInsert(r))
      BY <3>2, IdleOK DEF AfterInsert
    <3>4. Sets'
      BY <2>0, <2>5, <3>1 DEF AddWhitelistedIP, memory
    <3> QED BY <2>0, <2>5, <3>3, <3>4, GotoOK DEF AddWhitelistedIP
  <2>6. ASSUME NEW r \in Req, SetEnabled(r) PROVE TypeOK'
    <3>1. req[r] \in Request /\ req[r].ip \in Spelling
      BY <2>0, <2>6 DEF RequestsOK, SetEnabled
    <3>2. JobOK([req[r] EXCEPT !.at = "saveEnabled"]) /\ req[r].enable \in BOOLEAN
      BY <3>1 DEF JobOK, Request
    <3> QED BY <2>0, <2>6, <3>2, GotoOK DEF SetEnabled, database
  <2>7. ASSUME NEW r \in Req, SetIPWhitelistEnabled(r) PROVE TypeOK'
    <3>1. req[r].enable \in BOOLEAN
      BY <2>0 DEF RequestsOK, Request
    <3> QED BY <2>0, <2>7, <3>1, IdleOK, GotoOK DEF SetIPWhitelistEnabled, memory
  <2>8. ASSUME NEW r \in Req, RemoveWhitelistedIP(r) PROVE TypeOK'
    <3>1. Goto(r, Idle) /\ RequestsOK'
      BY <2>0, <2>8, IdleOK, GotoOK DEF RemoveWhitelistedIP
    <3>2. Norm[req[r].ip] \in Ip
      BY <2>0, <2>8 DEF RemoveWhitelistedIP, RequestsOK
    <3>3. Sets'
      BY <2>0, <2>8, <3>2 DEF RemoveWhitelistedIP, memory
    <3> QED BY <2>0, <3>1, <3>3
  <2>9. CASE Restart
    <3>1. RequestsOK'
      BY <2>9, IdleOK DEF Restart, RequestsOK, JobOK
    <3>2. Sets'
      BY <2>0, <2>9 DEF Restart, database
    <3> QED BY <2>0, <3>1, <3>2
  <2>10. CASE UNCHANGED vars
    BY <2>10 DEF vars, memory, database, TypeOK
  <2> QED
    <3>1. ASSUME NEW r \in Req, NEW ip \in Spelling, AddIP(r, ip) PROVE TypeOK'
      <4>1. {ip} \in SUBSET Spelling
        OBVIOUS
      <4> QED BY <2>1, <3>1, <4>1 DEF AddIP
    <3>2. ASSUME NEW r \in Req, NEW ips \in SUBSET Spelling, BulkAddIPs(r, ips) PROVE TypeOK'
      BY <2>1, <3>2 DEF BulkAddIPs
    <3> QED BY <2>2, <2>3, <2>4, <2>5, <2>6, <2>7, <2>8, <2>9, <2>10, <3>1, <3>2
            DEF Next, Start, Continue
<1> QED BY <1>1, <1>2, PTL DEF Spec

---------------------------------------------------------------------------
\* Which steps there are, seen from the tables: a request begins, or one of
\* the steps that write.
Begin(r, job) ==
  /\ req[r].at = "idle" /\ job.at \in {"add", "setEnabled"} /\ ~job.undone
  /\ job.enable => job.at = "add" /\ job.toggle /\ job.ip \in Ip /\ job.todo = {job.ip}
  /\ Goto(r, job)
  /\ UNCHANGED <<memory, database, added, removed>>

\* A step begins a request, writes, restarts the process, or does nothing.
LEMMA StepCases ==
  ASSUME [Next]_vars
  PROVE  \/ \E r \in Req : \/ \E job : Begin(r, job)
                           \/ \E ip \in Spelling : RemoveIP(r, ip)
                           \/ Continue(r)
         \/ Restart
         \/ UNCHANGED vars
<1>1. ASSUME NEW r \in Req, NEW ips,
             CanStart(r), Goto(r, [Idle EXCEPT !.at = "add", !.todo = ips]),
             UNCHANGED <<memory, database, added, removed>>
      PROVE  Begin(r, [Idle EXCEPT !.at = "add", !.todo = ips])
  BY <1>1 DEF Begin, Idle, CanStart
<1>2. ASSUME NEW r \in Req, NEW client \in Ip, NEW enable \in BOOLEAN,
             ToggleWhitelist(r, client, enable)
      PROVE  \E job : Begin(r, job)
  <2> DEFINE job == [Idle EXCEPT !.at = IF enable THEN "add" ELSE "setEnabled",
                          !.ip = client, !.todo = IF enable THEN {client} ELSE {},
                          !.enable = enable, !.toggle = TRUE]
  <2>1. Goto(r, job) /\ req[r].at = "idle" /\ UNCHANGED <<memory, database, added, removed>>
    BY <1>2 DEF ToggleWhitelist, CanStart
  <2>2. Begin(r, job)
    BY <2>1 DEF Begin, Idle
  <2> QED BY <2>2
<1>3. ASSUME NEW r \in Req, Start(r)
      PROVE  \/ \E job : Begin(r, job)
             \/ \E ip \in Spelling : RemoveIP(r, ip)
  <2>1. CASE \E ip \in Spelling : AddIP(r, ip)
    BY <1>1, <2>1 DEF AddIP
  <2>2. CASE \E ips \in SUBSET Spelling : BulkAddIPs(r, ips)
    BY <1>1, <2>2 DEF BulkAddIPs
  <2> QED BY <1>2, <1>3, <2>1, <2>2 DEF Start
<1>4. CASE \E r \in Req : Start(r)
  <2>1. PICK r \in Req : Start(r)
    BY <1>4
  <2> QED BY <1>3, <2>1
<1>5. \/ \E r \in Req : Start(r)
      \/ \E r \in Req : Continue(r)
      \/ Restart
      \/ UNCHANGED vars
  BY DEF Next
<1> QED BY <1>4, <1>5

\* Where the requests stand after RemoveIP: r deletes the row, the others go on.
LEMMA RemoveIPReq ==
  ASSUME RequestsOK, NEW r \in Req, NEW ip \in Spelling, RemoveIP(r, ip)
  PROVE  /\ req[r].at = "idle"
         /\ req'[r].at = "delete" /\ req'[r].ip = ip /\ ~req'[r].enable
         /\ \A q \in Req \ {r} :
              /\ req'[q].at = req[q].at /\ req'[q].ip = req[q].ip
              /\ req'[q].todo = req[q].todo
              /\ req'[q].enable = req[q].enable /\ req'[q].toggle = req[q].toggle
              /\ req'[q].undone \/ /\ req'[q].undone = req[q].undone
                                   /\ ~(req[q].ip # None /\ Norm[req[q].ip] = Norm[ip])
<1>1. req'[r] = [Idle EXCEPT !.at = "delete", !.ip = ip]
  BY DEF RemoveIP
<1>2. req[r].at = "idle" /\ req'[r].at = "delete" /\ req'[r].ip = ip /\ ~req'[r].enable
  BY <1>1 DEF RemoveIP, CanStart, Idle
<1>3. ASSUME NEW q \in Req \ {r}
      PROVE  /\ req'[q].at = req[q].at /\ req'[q].ip = req[q].ip
             /\ req'[q].todo = req[q].todo
             /\ req'[q].enable = req[q].enable /\ req'[q].toggle = req[q].toggle
             /\ req'[q].undone \/ /\ req'[q].undone = req[q].undone
                                  /\ ~(req[q].ip # None /\ Norm[req[q].ip] = Norm[ip])
  <2>1. req[q] \in Request
    BY DEF RequestsOK
  <2>2. \/ req'[q] = req[q] /\ ~(req[q].ip # None /\ Norm[req[q].ip] = Norm[ip])
        \/ req'[q] = [req[q] EXCEPT !.undone = TRUE]
    BY DEF RemoveIP
  <2>3. CASE req'[q] = [req[q] EXCEPT !.undone = TRUE]
    BY <2>1, <2>3 DEF Request
  <2> QED BY <2>2, <2>3
<1> QED BY <1>2, <1>3

\* What AddToMemory does to its request.
LEMMA AddToMemoryReq ==
  ASSUME RequestsOK, NEW r \in Req, AddToMemory(r)
  PROVE  \E ip \in req[r].todo :
           /\ req[r].at = "add" /\ ip \in Spelling
           /\ req'[r] = [req[r] EXCEPT !.at = "insert", !.ip = ip, !.todo = @ \ {ip}]
           /\ req'[r].at = "insert" /\ req'[r].ip = ip
           /\ req'[r].todo = req[r].todo \ {ip}
           /\ req'[r].enable = req[r].enable /\ req'[r].toggle = req[r].toggle
           /\ \A q \in Req \ {r} : req'[q] = req[q]
           /\ allowed' = allowed \cup {Norm[ip]}
           /\ added' = added \cup {Norm[ip]}
           /\ removed' = removed \ {Norm[ip]}
<1>1. PICK ip \in req[r].todo :
        /\ Goto(r, [req[r] EXCEPT !.at = "insert", !.ip = ip, !.todo = @ \ {ip}])
        /\ allowed' = allowed \cup {Norm[ip]}
        /\ added' = added \cup {Norm[ip]}
        /\ removed' = removed \ {Norm[ip]}
  BY DEF AddToMemory
<1>2. req[r] \in Request /\ req \in [Req -> Request]
  BY DEF RequestsOK
<1>3. /\ req'[r] = [req[r] EXCEPT !.at = "insert", !.ip = ip, !.todo = @ \ {ip}]
      /\ \A q \in Req \ {r} : req'[q] = req[q]
  BY <1>1, <1>2 DEF Goto
<1>4. /\ req'[r].at = "insert" /\ req'[r].ip = ip
      /\ req'[r].todo = req[r].todo \ {ip}
      /\ req'[r].enable = req[r].enable /\ req'[r].toggle = req[r].toggle
  BY <1>2, <1>3 DEF Request
<1>5. ip \in Spelling /\ req[r].at = "add"
  BY <1>1, <1>2 DEF AddToMemory, Request
<1> QED BY <1>1, <1>3, <1>4, <1>5

---------------------------------------------------------------------------
\* Why an address that was added stays in: it is in the set, and its row is in
\* the table or about to be inserted.
Inserting(ip) == \E r \in Req : req[r].at = "insert" /\ Norm[req[r].ip] = ip
Stored(ip) == \E s \in dbIps : Norm[s] = ip

AddedIsStored == \A ip \in added : ip \in allowed /\ (Stored(ip) \/ Inserting(ip))

\* AddIP, BulkAddIPs and ToggleWhitelist write the set before the table; an
\* address they added survives every interleaving and a restart.
THEOREM WhitelistAddedStaysIn == Spec => []AddedStaysIn
<1>1. Init => AddedIsStored
  BY DEF Init, AddedIsStored
<1>2. TypeOK /\ AddedIsStored /\ [Next]_vars => AddedIsStored'
  <2> SUFFICES ASSUME TypeOK, AddedIsStored, [Next]_vars PROVE AddedIsStored'
    OBVIOUS
  <2>0. RequestsOK
    BY DEF TypeOK, RequestsOK
  <2> USE DEF AddedIsStored, Stored, Inserting
  <2>1. ASSUME NEW r \in Req, NEW job, Begin(r, job) PROVE AddedIsStored'
    <3>1. \A q \in Req \ {r} : req'[q] = req[q]
      BY <2>0, <2>1 DEF Begin, Goto, RequestsOK
    <3> QED BY <2>1, <3>1 DEF Begin, memory, database
  <2>2. ASSUME NEW r \in Req, NEW ip \in Spelling, RemoveIP(r, ip) PROVE AddedIsStored'
    <3>1. \A q \in Req : req[q].at = "insert" => req'[q].at = "insert" /\ req'[q].ip = req[q].ip
      BY <2>0, <2>2, RemoveIPReq
    <3> QED BY <2>2, <3>1 DEF RemoveIP, database
  <2>3. ASSUME NEW r \in Req, AddToMemory(r) PROVE AddedIsStored'
    <3>1. PICK ip \in req[r].todo :
            /\ req[r].at = "add" /\ req'[r].at = "insert" /\ req'[r].ip = ip
            /\ \A q \in Req \ {r} : req'[q] = req[q]
            /\ allowed' = allowed \cup {Norm[ip]}
            /\ added' = added \cup {Norm[ip]}
      BY <2>0, <2>3, AddToMemoryReq
    <3> QED BY <2>3, <3>1 DEF AddToMemory, database
  <2>4. ASSUME NEW r \in Req, AddWhitelistedIP(r) PROVE AddedIsStored'
    <3>1. \A q \in Req \ {r} : req'[q] = req[q]
      BY <2>0, <2>4 DEF AddWhitelistedIP, Goto, RequestsOK
    <3>2. CASE dbIps' = dbIps \cup {req[r].ip} /\ UNCHANGED added
      BY <2>4, <3>1, <3>2 DEF AddWhitelistedIP, memory
    <3>3. CASE UNCHANGED dbIps /\ added' = added \ {Norm[req[r].ip]}
      BY <2>4, <3>1, <3>3 DEF AddWhitelistedIP, memory
    <3> QED BY <2>4, <3>2, <3>3 DEF AddWhitelistedIP
  <2>5. ASSUME NEW r \in Req, SetEnabled(r) \/ SetIPWhitelistEnabled(r) PROVE AddedIsStored'
    <3>1. req[r].at # "insert" /\ \A q \in Req \ {r} : req'[q] = req[q]
      BY <2>0, <2>5 DEF SetEnabled, SetIPWhitelistEnabled, Goto, RequestsOK
    <3> QED BY <2>5, <3>1 DEF SetEnabled, SetIPWhitelistEnabled, memory, database
  <2>6. ASSUME NEW r \in Req, RemoveWhitelistedIP(r) PROVE AddedIsStored'
    <3>1. req[r].at # "insert" /\ \A q \in Req \ {r} : req'[q] = req[q]
      BY <2>0, <2>6 DEF RemoveWhitelistedIP, Goto, RequestsOK
    <3> QED BY <2>6, <3>1 DEF RemoveWhitelistedIP, memory
  <2>7. CASE Restart
    <3>1. CASE allowed' = {} /\ added' = {}
      BY <3>1
    <3>2. CASE /\ allowed' = {Norm[ip] : ip \in dbIps}
               /\ added' = added \ {Norm[req[r].ip] : r \in {q \in Req : req[q].at = "insert"}}
      BY <2>7, <3>2 DEF Restart, database
    <3> QED BY <2>7, <3>1, <3>2 DEF Restart
  <2>8. CASE UNCHANGED vars
    BY <2>8 DEF vars, memory, database
  <2> QED BY StepCases, <2>1, <2>2, <2>3, <2>4, <2>5, <2>6, <2>7, <2>8 DEF Continue
<1>3. AddedIsStored => AddedStaysIn
  BY DEF AddedIsStored, AddedStaysIn, IsAllowed
<1> QED BY WhitelistTyped, <1>1, <1>2, <1>3, PTL DEF Spec

---------------------------------------------------------------------------
\* Why nobody locks himself out: a request that enables the list has its own
\* client on it, from the first insertion on, or knows it was taken off.
SelfIsAdded(job) ==
  job.enable =>
    /\ job.toggle /\ job.ip \in Ip /\ job.todo \subseteq {job.ip}
    /\ job.at \in {"insert", "setEnabled", "saveEnabled"} /\ ~job.undone
         => Norm[job.ip] \in allowed

SelvesAdded == \A r \in Req : SelfIsAdded(req[r])

\* ToggleWhitelist leaves its client in, however many admins edit the list
\* meanwhile, unless one of them removed that address.
THEOREM WhitelistNoSelfLockout == Spec => []NoSelfLockout
<1>1. Init => SelvesAdded
  BY DEF Init, SelvesAdded, SelfIsAdded, Idle
<1>2. TypeOK /\ SelvesAdded /\ [Next]_vars => SelvesAdded'
  <2> SUFFICES ASSUME TypeOK, SelvesAdded, [Next]_vars PROVE SelvesAdded'
    OBVIOUS
  <2>0. RequestsOK
    BY DEF TypeOK, RequestsOK
  <2> USE DEF SelvesAdded, SelfIsAdded
  <2>1. ASSUME NEW r \in Req, NEW job, Begin(r, job) PROVE SelvesAdded'
    <3>1. req'[r] = job /\ \A q \in Req \ {r} : req'[q] = req[q]
      BY <2>0, <2>1 DEF Begin, Goto, RequestsOK
    <3> QED BY <2>1, <3>1 DEF Begin, memory
  <2>2. ASSUME NEW r \in Req, NEW ip \in Spelling, RemoveIP(r, ip) PROVE SelvesAdded'
    <3>1. allowed' = allowed \ {Norm[ip]}
      BY <2>2 DEF RemoveIP
    <3>2. \A q \in Ip : q # None
      OBVIOUS
    <3> QED BY <2>0, <2>2, <3>1, <3>2, RemoveIPReq
  <2>3. ASSUME NEW r \in Req, AddToMemory(r) PROVE SelvesAdded'
    <3>1. PICK ip \in req[r].todo :
            /\ req'[r].ip = ip /\ req'[r].todo = req[r].todo \ {ip}
            /\ req'[r].enable = req[r].enable /\ req'[r].toggle = req[r].toggle
            /\ \A q \in Req \ {r} : req'[q] = req[q]
            /\ allowed' = allowed \cup {Norm[ip]}
      BY <2>0, <2>3, AddToMemoryReq
    <3>2. SelfIsAdded(req[r])
      OBVIOUS
    <3>3. SelfIsAdded(req[r])'
      BY <3>1, <3>2
    <3> QED BY <3>1, <3>3
  <2>4. ASSUME NEW r \in Req, NEW job, Goto(r, job), SelfIsAdded(job), UNCHANGED allowed
        PROVE  SelvesAdded'
    <3>1. req'[r] = job /\ \A q \in Req \ {r} : req'[q] = req[q]
      BY <2>0, <2>4 DEF Goto, RequestsOK
    <3> QED BY <2>4, <3>1
  <2>5. SelfIsAdded(Idle)
    BY DEF Idle
  <2>6. ASSUME NEW r \in Req, AddWhitelistedIP(r) PROVE SelvesAdded'
    <3>1. req[r] \in Request /\ req[r].at = "insert"
      BY <2>0, <2>6 DEF RequestsOK, AddWhitelistedIP
    <3>2. SelfIsAdded([req[r] EXCEPT !.at = "setEnabled"])
      BY <3>1 DEF Request
    <3>3. ~req[r].toggle => SelfIsAdded([req[r] EXCEPT !.at = "add"])
      BY <3>1 DEF Request
    <3>4. SelfIsAdded(AfterInsert(r))
      BY <2>5, <3>2, <3>3 DEF AfterInsert
    <3> QED BY <2>4, <2>6, <3>4 DEF AddWhitelistedIP, memory
  <2>7. ASSUME NEW r \in Req, SetEnabled(r) PROVE SelvesAdded'
    <3>1. req[r] \in Request /\ req[r].at = "setEnabled"
      BY <2>0, <2>7 DEF RequestsOK, SetEnabled
    <3>2. SelfIsAdded([req[r] EXCEPT !.at = "saveEnabled"])
      BY <3>1 DEF Request
    <3> QED BY <2>4, <2>7, <3>2 DEF SetEnabled
  <2>8. ASSUME NEW r \in Req, SetIPWhitelistEnabled(r) \/ RemoveWhitelistedIP(r)
        PROVE  SelvesAdded'
    BY <2>4, <2>5, <2>8 DEF SetIPWhitelistEnabled, RemoveWhitelistedIP, memory
  <2>9. CASE Restart
    BY <2>9 DEF Restart, Idle
  <2>10. CASE UNCHANGED vars
    BY <2>10 DEF vars, memory
  <2> QED BY StepCases, <2>1, <2>2, <2>3, <2>6, <2>7, <2>8, <2>9, <2>10 DEF Continue
<1>3. TypeOK /\ SelvesAdded => NoSelfLockout
  BY DEF TypeOK, SelvesAdded, SelfIsAdded, NoSelfLockout, IsAllowed
<1> QED BY WhitelistTyped, <1>1, <1>2, <1>3, PTL DEF Spec

---------------------------------------------------------------------------
\* Why an address that was removed stays out: it is not in the set, and its
\* row is gone or about to be deleted.
Deleting(ip) == \E r \in Req : req[r].at = "delete" /\ req[r].ip = ip

RemovedIsGone == \A ip \in removed : ip \notin allowed /\ (ip \notin dbIps \/ Deleting(ip))

\* RemoveIP removes the address for good, a restart included, WHEN admins type
\* addresses in their normal form: without the assumption the row of another
\* spelling survives, which the run whitelist_removed shows.
THEOREM WhitelistRemovedStaysOut ==
  ASSUME Spelling = Ip
  PROVE  Spec => []RemovedStaysOut
<1>1. Init => RemovedIsGone
  BY DEF Init, RemovedIsGone
<1>2. TypeOK /\ RemovedIsGone /\ [Next]_vars => RemovedIsGone'
  <2> SUFFICES ASSUME TypeOK, RemovedIsGone, [Next]_vars PROVE RemovedIsGone'
    OBVIOUS
  <2>0. RequestsOK
    BY DEF TypeOK, RequestsOK
  <2> USE DEF RemovedIsGone, Deleting
  <2>1. ASSUME NEW r \in Req, NEW job, Begin(r, job) PROVE RemovedIsGone'
    <3>1. \A q \in Req \ {r} : req'[q] = req[q]
      BY <2>0, <2>1 DEF Begin, Goto, RequestsOK
    <3> QED BY <2>1, <3>1 DEF Begin, memory, database
  <2>2. ASSUME NEW r \in Req, NEW ip \in Spelling, RemoveIP(r, ip) PROVE RemovedIsGone'
    <3>1. /\ allowed' = allowed \ {ip} /\ removed' = removed \cup {ip}
          /\ UNCHANGED dbIps
      BY <2>2 DEF RemoveIP, database
    <3>2. Deleting(ip)'
      BY <2>0, <2>2, RemoveIPReq
    <3>3. \A q \in Req : req[q].at = "delete" => req'[q].at = "delete" /\ req'[q].ip = req[q].ip
      BY <2>0, <2>2, RemoveIPReq
    <3> QED BY <3>1, <3>2, <3>3
  <2>3. ASSUME NEW r \in Req, AddToMemory(r) PROVE RemovedIsGone'
    <3>1. PICK ip \in req[r].todo :
            /\ req[r].at = "add" /\ ip \in Spelling
            /\ \A q \in Req \ {r} : req'[q] = req[q]
            /\ allowed' = allowed \cup {Norm[ip]}
            /\ removed' = removed \ {Norm[ip]}
      BY <2>0, <2>3, AddToMemoryReq
    <3> QED BY <2>3, <3>1 DEF AddToMemory, database
  <2>4. ASSUME NEW r \in Req, AddWhitelistedIP(r) PROVE RemovedIsGone'
    <3>1. /\ req[r].at = "insert" /\ req[r].ip \in Spelling
          /\ \A q \in Req \ {r} : req'[q] = req[q]
      BY <2>0, <2>4 DEF AddWhitelistedIP, Goto, RequestsOK
    <3>2. /\ UNCHANGED allowed /\ removed' = removed \ {req[r].ip}
          /\ dbIps' \subseteq dbIps \cup {req[r].ip}
      BY <2>4, <3>1 DEF AddWhitelistedIP, memory
    <3> QED BY <3>1, <3>2
  <2>5. ASSUME NEW r \in Req, SetEnabled(r) \/ SetIPWhitelistEnabled(r) PROVE RemovedIsGone'
    <3>1. req[r].at # "delete" /\ \A q \in Req \ {r} : req'[q] = req[q]
      BY <2>0, <2>5 DEF SetEnabled, SetIPWhitelistEnabled, Goto, RequestsOK
    <3> QED BY <2>5, <3>1 DEF SetEnabled, SetIPWhitelistEnabled, memory, database
  <2>6. ASSUME NEW r \in Req, RemoveWhitelistedIP(r) PROVE RemovedIsGone'
    <3>1. /\ req[r].at = "delete" /\ req[r].ip \in Spelling
          /\ \A q \in Req \ {r} : req'[q] = req[q]
      BY <2>0, <2>6 DEF RemoveWhitelistedIP, Goto, RequestsOK
    <3>2. CASE dbIps' = dbIps \ {req[r].ip} /\ UNCHANGED removed
      BY <2>6, <3>1, <3>2 DEF RemoveWhitelistedIP, memory
    <3>3. CASE UNCHANGED dbIps /\ removed' = removed \ {Norm[req[r].ip]}
      BY <2>6, <3>1, <3>3 DEF RemoveWhitelistedIP, memory
    <3> QED BY <2>6, <3>2, <3>3 DEF RemoveWhitelistedIP
  <2>7. CASE Restart
    <3>1. /\ allowed' \subseteq dbIps /\ UNCHANGED dbIps
          /\ removed' = removed \ {Norm[req[r].ip] : r \in {q \in Req : req[q].at = "delete"}}
      BY <2>7 DEF Restart, database, TypeOK
    <3>2. \A ip \in removed' : ip \in removed /\ ~Deleting(ip)
      BY <2>0, <3>1 DEF RequestsOK, TypeOK
    <3> QED BY <3>1, <3>2
  <2>8. CASE UNCHANGED vars
    BY <2>8 DEF vars, memory, database
  <2> QED BY StepCases, <2>1, <2>2, <2>3, <2>4, <2>5, <2>6, <2>7, <2>8 DEF Continue
<1>3. RemovedIsGone => RemovedStaysOut
  BY DEF RemovedIsGone, RemovedStaysOut
<1> QED BY WhitelistTyped, <1>1, <1>2, <1>3, PTL DEF Spec
===========================================================================
