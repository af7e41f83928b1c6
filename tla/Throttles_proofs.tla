-------------------------- MODULE Throttles_proofs --------------------------
(***************************************************************************)
(* The two brakes on requests.  LoginThrottle for any number of pairs, of  *)
(* logins in flight and of rows, RateLimiter for any number of addresses,  *)
(* both for any limit and any window; and RateLimiter implements           *)
(* SlidingWindow.                                                          *)
(***************************************************************************)
EXTENDS LoginThrottle, RateLimiter, FiniteSetTheorems, TLAPS

USE ThrottleAssumption

\* Typing is inductive: no statement writes a row or a local outside its type.
THEOREM ThrottleTyped == Spec => []TypeOK
<1>1. Init => TypeOK
  BY DEF Init, TypeOK, Idle
<1>2. TypeOK /\ [Next]_vars => TypeOK'
  <2> SUFFICES ASSUME TypeOK, [Next]_vars PROVE TypeOK'
    OBVIOUS
  <2> USE DEF TypeOK
  <2>1. ASSUME NEW r \in Req, NEW k \in Key, CountRecent(r, k) PROVE TypeOK'
    BY <2>1 DEF CountRecent
  <2>2. ASSUME NEW r \in Req, Record(r) PROVE TypeOK'
    <3>1. req' = [req EXCEPT ![r].at = "verify"] /\ req[r].key \in Key
      BY <2>2 DEF Record
    <3>2. CASE UNCHANGED age
      BY <3>1, <3>2
    <3>3. CASE /\ Recent(req[r].key) # Row
               /\ age' = [age EXCEPT ![req[r].key][NewRow(req[r].key)] = 0]
      <4>1. NewRow(req[r].key) \in Row
        BY <3>3 DEF NewRow, Recent
      <4>2. age' \in [Key -> [Row -> 0 .. Window]]
        BY <3>1, <3>3, <4>1
      <4> QED BY <3>1, <4>2
    <3> QED BY <2>2, <3>2, <3>3 DEF Record
  <2>3. ASSUME NEW r \in Req, Verify(r) PROVE TypeOK'
    BY <2>3 DEF Verify, Idle
  <2>4. ASSUME NEW r \in Req, Clear(r) PROVE TypeOK'
    BY <2>4 DEF Clear, Idle
  <2>5. CASE Restart
    BY <2>5 DEF Restart, Idle
  <2>6. CASE Tick
    BY <2>6 DEF Tick
  <2>7. CASE UNCHANGED vars
    BY <2>7 DEF vars
  <2> QED BY <2>1, <2>2, <2>3, <2>4, <2>5, <2>6, <2>7 DEF Next
<1> QED BY <1>1, <1>2, PTL DEF Spec

---------------------------------------------------------------------------
\* The logins that passed the check and have not recorded their attempt yet.
Pending(k) == {r \in Req : req[r].at = "record" /\ req[r].key = k}

Budget == MaxAttempts - 1 + Cardinality(Req)

\* The strengthening: an attempt about to be recorded is spent already.
AttemptsReserved ==
  \A k \in Key : Cardinality(Recent(k)) + Cardinality(Pending(k)) <= Budget

\* The sets that are counted are finite, before and after a step.
LEMMA CountsAreFinite ==
  ASSUME NEW k
  PROVE  /\ IsFiniteSet(Recent(k)) /\ Cardinality(Recent(k)) \in Nat
         /\ IsFiniteSet(Pending(k)) /\ Cardinality(Pending(k)) \in Nat
         /\ Cardinality(Pending(k)) <= Cardinality(Req)
         /\ IsFiniteSet(Recent(k)') /\ Cardinality(Recent(k)') \in Nat
         /\ IsFiniteSet(Pending(k)') /\ Cardinality(Pending(k)') \in Nat
         /\ Cardinality(Pending(k)') <= Cardinality(Req)
         /\ Cardinality(Req) \in Nat
<1>1. Recent(k) \in SUBSET Row /\ Recent(k)' \in SUBSET Row
  BY DEF Recent
<1>2. Pending(k) \in SUBSET Req /\ Pending(k)' \in SUBSET Req
  BY DEF Pending
<1>3. IsFiniteSet(Recent(k)) /\ IsFiniteSet(Recent(k)')
  BY <1>1, FS_Subset
<1>4. /\ IsFiniteSet(Pending(k)) /\ IsFiniteSet(Pending(k)')
      /\ Cardinality(Pending(k)) <= Cardinality(Req)
      /\ Cardinality(Pending(k)') <= Cardinality(Req)
  BY <1>2, FS_Subset
<1> QED BY <1>3, <1>4, FS_CardinalityType

\* A step that adds neither a row nor a pending login keeps the sum.
LEMMA FewerIsFine ==
  ASSUME NEW k, Recent(k)' \subseteq Recent(k), Pending(k)' \subseteq Pending(k),
         Cardinality(Recent(k)) + Cardinality(Pending(k)) <= Budget
  PROVE  Cardinality(Recent(k)') + Cardinality(Pending(k)') <= Budget
<1>1. Cardinality(Recent(k)') <= Cardinality(Recent(k))
  BY CountsAreFinite, FS_Subset
<1>2. Cardinality(Pending(k)') <= Cardinality(Pending(k))
  BY CountsAreFinite, FS_Subset
<1>3. Budget \in Int
  BY CountsAreFinite DEF Budget
<1> QED BY <1>1, <1>2, <1>3, CountsAreFinite

\* README "5 attempts before temporary block": the recorded attempts of a pair
\* exceed the limit by less than the number of logins that can overlap.
THEOREM ThrottleBounded == Spec => []AttemptsBounded
<1>1. Init => AttemptsReserved
  <2> SUFFICES ASSUME Init, NEW k \in Key
               PROVE  Cardinality(Recent(k)) + Cardinality(Pending(k)) <= Budget
    BY DEF AttemptsReserved
  <2>1. Recent(k) = {} /\ Pending(k) = {}
    BY DEF Init, Recent, Pending, Idle
  <2> QED BY <2>1, FS_EmptySet, CountsAreFinite DEF Budget
<1>2. TypeOK /\ AttemptsReserved /\ [Next]_vars => AttemptsReserved'
  <2> SUFFICES ASSUME TypeOK, AttemptsReserved, [Next]_vars, NEW k \in Key
               PROVE  Cardinality(Recent(k)') + Cardinality(Pending(k)') <= Budget
    BY DEF AttemptsReserved, Budget
  <2> DEFINE Goal == Cardinality(Recent(k)') + Cardinality(Pending(k)') <= Budget
  <2>0. Cardinality(Recent(k)) + Cardinality(Pending(k)) <= Budget
    BY DEF AttemptsReserved
  <2>1. ASSUME NEW r \in Req, NEW l \in Key, CountRecent(r, l) PROVE Goal
    <3>1. Recent(k)' = Recent(k)
      BY <2>1 DEF CountRecent, Recent
    <3>2. CASE l = k
      <4>1. Cardinality(Recent(k)) <= MaxAttempts - 1
        BY <2>1, <3>2, CountsAreFinite DEF CountRecent, Blocked
      <4> QED BY <3>1, <4>1, CountsAreFinite DEF Budget
    <3>3. CASE l # k
      <4>1. Pending(k)' \subseteq Pending(k)
        BY <2>1, <3>3 DEF CountRecent, Pending, TypeOK
      <4> QED BY <2>0, <3>1, <4>1, FewerIsFine
    <3> QED BY <3>2, <3>3
  <2>2. ASSUME NEW r \in Req, Record(r) PROVE Goal
    <3>1. Pending(k)' = Pending(k) \ {r}
      BY <2>2 DEF Record, Pending, TypeOK
    <3>2. CASE UNCHANGED age
      <4>1. Recent(k)' = Recent(k)
        BY <3>2 DEF Recent
      <4> QED BY <2>0, <3>1, <4>1, FewerIsFine
    <3>3. CASE /\ Recent(req[r].key) # Row
               /\ age' = [age EXCEPT ![req[r].key][NewRow(req[r].key)] = 0]
      <4>1. CASE req[r].key # k
        <5>1. Recent(k)' = Recent(k)
          BY <3>3, <4>1 DEF Recent, TypeOK
        <5> QED BY <2>0, <3>1, <5>1, FewerIsFine
      <4>2. CASE req[r].key = k
        <5>1. NewRow(k) \in Row
          BY <3>3, <4>2 DEF NewRow, Recent
        <5>2. Recent(k)' = Recent(k) \cup {NewRow(k)}
          BY <3>3, <4>2, <5>1 DEF Recent, TypeOK
        <5>3. r \in Pending(k)
          BY <2>2, <4>2 DEF Record, Pending
        <5>4. Cardinality(Pending(k)') = Cardinality(Pending(k)) - 1
          BY <3>1, <5>3, CountsAreFinite, FS_RemoveElement
        <5>5. Cardinality(Recent(k)') <= Cardinality(Recent(k)) + 1
          <6>1. Cardinality(Recent(k) \cup {NewRow(k)}) =
                  IF NewRow(k) \in Recent(k) THEN Cardinality(Recent(k))
                                             ELSE Cardinality(Recent(k)) + 1
            BY CountsAreFinite, FS_AddElement
          <6> QED BY <5>2, <6>1, CountsAreFinite
        <5> QED BY <2>0, <5>4, <5>5, CountsAreFinite DEF Budget
      <4> QED BY <4>1, <4>2
    <3> QED BY <2>2, <3>2, <3>3 DEF Record
  <2>3. ASSUME NEW r \in Req, Verify(r) PROVE Goal
    <3>1. Recent(k)' = Recent(k)
      BY <2>3 DEF Verify, Recent
    <3>2. \A q \in Req : q # r => req'[q] = req[q]
      BY <2>3 DEF Verify, TypeOK
    <3>3. req'[r].at # "record"
      BY <2>3 DEF Verify, Idle, TypeOK
    <3>4. Pending(k)' \subseteq Pending(k)
      BY <3>2, <3>3 DEF Pending
    <3> QED BY <2>0, <3>1, <3>4, FewerIsFine
  <2>4. ASSUME NEW r \in Req, Clear(r) PROVE Goal
    <3>1. Pending(k)' \subseteq Pending(k)
      BY <2>4 DEF Clear, Pending, Idle, TypeOK
    <3>2. Recent(k)' \subseteq Recent(k)
      BY <2>4 DEF Clear, Recent, TypeOK
    <3> QED BY <2>0, <3>1, <3>2, FewerIsFine
  <2>5. CASE Restart
    <3>1. Recent(k)' = Recent(k) /\ Pending(k)' \subseteq Pending(k)
      BY <2>5 DEF Restart, Recent, Pending, Idle
    <3> QED BY <2>0, <3>1, FewerIsFine
  <2>6. CASE Tick
    <3>1. Pending(k)' = Pending(k)
      BY <2>6 DEF Tick, Pending
    <3>2. Recent(k)' \subseteq Recent(k)
      BY <2>6 DEF Tick, Recent, TypeOK
    <3> QED BY <2>0, <3>1, <3>2, FewerIsFine
  <2>7. CASE UNCHANGED vars
    <3>1. Recent(k)' = Recent(k) /\ Pending(k)' = Pending(k)
      BY <2>7 DEF vars, Recent, Pending
    <3> QED BY <2>0, <3>1, FewerIsFine
  <2> QED BY <2>1, <2>2, <2>3, <2>4, <2>5, <2>6, <2>7 DEF Next
<1>3. AttemptsReserved => AttemptsBounded
  BY CountsAreFinite DEF AttemptsReserved, AttemptsBounded, Budget
<1> QED BY <1>1, <1>2, <1>3, ThrottleTyped, PTL DEF Spec

---------------------------------------------------------------------------
(* RateLimiter: its slices. *)

USE RateAssumption

IsSlice(slice) ==
  /\ DOMAIN slice \subseteq Nat /\ IsFiniteSet(DOMAIN slice)
  /\ slice \in [DOMAIN slice -> 0 .. RateWindow + 1]

Young(slice) == RestrictValues(slice, After)

LEMMA EmptyIsSlice == IsSlice(Empty) /\ Size(Empty) = 0 /\ DOMAIN Empty = {}
<1>1. DOMAIN Empty = {}
  BY DEF Empty
<1> QED BY <1>1, FS_EmptySet DEF IsSlice, Size, Empty

\* A finite slice leaves one of the numbers 0 .. Size(slice) free.
LEMMA FreshIsNew ==
  ASSUME NEW slice, IsSlice(slice)
  PROVE  Fresh(slice) \in Nat /\ Fresh(slice) \notin DOMAIN slice /\ Size(slice) \in Nat
<1>1. Size(slice) \in Nat
  BY FS_CardinalityType DEF IsSlice, Size
<1>2. \E n \in 0 .. Size(slice) : n \notin DOMAIN slice
  <2> SUFFICES ASSUME 0 .. Size(slice) \subseteq DOMAIN slice PROVE FALSE
    OBVIOUS
  <2>1. Cardinality(0 .. Size(slice)) = Size(slice) + 1
    BY <1>1, FS_Interval
  <2>2. Cardinality(0 .. Size(slice)) <= Size(slice)
    BY FS_Subset DEF IsSlice, Size
  <2> QED BY <1>1, <2>1, <2>2
<1> QED BY <1>1, <1>2 DEF Fresh

\* Appending keeps the entries, and adds one that was just made.
LEMMA AppendedAddsOne ==
  ASSUME NEW slice, IsSlice(slice)
  PROVE  /\ IsSlice(Appended(slice))
         /\ Size(Appended(slice)) = Size(slice) + 1
         /\ Appended(slice) = [n \in DOMAIN slice \cup {Fresh(slice)} |->
                                 IF n \in DOMAIN slice THEN slice[n] ELSE 0]
<1>1. DOMAIN Appended(slice) = DOMAIN slice \cup {Fresh(slice)}
  BY DEF Appended
<1>2. /\ IsFiniteSet(DOMAIN slice \cup {Fresh(slice)})
      /\ Cardinality(DOMAIN slice \cup {Fresh(slice)}) = Size(slice) + 1
  BY FreshIsNew, FS_AddElement DEF IsSlice, Size
<1>3. Appended(slice) \in [DOMAIN slice \cup {Fresh(slice)} -> 0 .. RateWindow + 1]
  BY DEF Appended, IsSlice
<1> QED BY <1>1, <1>2, <1>3, FreshIsNew DEF IsSlice, Size, Appended

\* Pruning keeps exactly the entries inside the window.
LEMMA YoungIsSlice ==
  ASSUME NEW slice, IsSlice(slice)
  PROVE  /\ IsSlice(Young(slice))
         /\ Size(Young(slice)) \in Nat /\ Size(Young(slice)) <= Size(slice)
         /\ DOMAIN Young(slice) = {n \in DOMAIN slice : After(slice[n])}
         /\ \A n \in DOMAIN Young(slice) : Young(slice)[n] = slice[n]
<1>1. Young(slice) = [n \in {m \in DOMAIN slice : After(slice[m])} |-> slice[n]]
  BY DEF Young, RestrictValues, Restrict
<1>2. DOMAIN Young(slice) = {n \in DOMAIN slice : After(slice[n])}
  BY <1>1
<1>3. IsFiniteSet(DOMAIN Young(slice)) /\ Cardinality(DOMAIN Young(slice)) <= Size(slice)
  BY <1>2, FS_Subset DEF IsSlice, Size
<1>4. IsSlice(Young(slice))
  BY <1>1, <1>2, <1>3 DEF IsSlice
<1>5. Size(Young(slice)) \in Nat
  BY <1>3, FS_CardinalityType DEF Size
<1> QED BY <1>1, <1>2, <1>3, <1>4, <1>5 DEF Size

\* What was pruned at this instant, and what is appended now, is inside the window.
LEMMA YoungAgain ==
  ASSUME NEW slice, IsSlice(slice)
  PROVE  /\ Young(Young(slice)) = Young(slice)
         /\ Young(Appended(Young(slice))) = Appended(Young(slice))
<1> DEFINE y == Young(slice)
           z == Appended(y)
<1>1. /\ IsSlice(y) /\ y \in [DOMAIN y -> 0 .. RateWindow + 1]
      /\ \A n \in DOMAIN y : After(y[n])
  BY YoungIsSlice DEF IsSlice
<1>2. IsSlice(z) /\ \A n \in DOMAIN z : After(z[n])
  <2>1. z = [n \in DOMAIN y \cup {Fresh(y)} |-> IF n \in DOMAIN y THEN y[n] ELSE 0]
    BY <1>1, AppendedAddsOne
  <2>2. After(0)
    BY DEF After
  <2> HIDE DEF y
  <2> QED BY <1>1, <2>1, <2>2, AppendedAddsOne
<1>3. ASSUME NEW s, IsSlice(s), \A n \in DOMAIN s : After(s[n]) PROVE Young(s) = s
  <2>1. Young(s) = [n \in {m \in DOMAIN s : After(s[m])} |-> s[n]]
    BY DEF Young, RestrictValues, Restrict
  <2>2. s = [n \in DOMAIN s |-> s[n]]
    BY <1>3 DEF IsSlice
  <2>3. {m \in DOMAIN s : After(s[m])} = DOMAIN s
    BY <1>3
  <2> QED BY <2>1, <2>2, <2>3
<1> QED BY <1>1, <1>2, <1>3

---------------------------------------------------------------------------
(* RateLimiter: its map. *)

\* The strengthening: what an IP recorded is at least as old as its last request.
RecordedBefore ==
  \A ip \in DOMAIN requests : \A n \in DOMAIN requests[ip] : requests[ip][n] >= waited[ip]

LimiterInv == LimiterTypeOK /\ SliceBounded /\ RecordedBefore

LEMMA ValidIsSlice ==
  ASSUME NEW ip, LimiterTypeOK
  PROVE  /\ IsSlice(Valid(ip)) /\ Size(Valid(ip)) \in Nat
         /\ Young(Valid(ip)) = Valid(ip)
         /\ \A n \in DOMAIN Valid(ip) : After(Valid(ip)[n])
         /\ ip \in DOMAIN requests => /\ Valid(ip) = Young(requests[ip])
                                      /\ \A n \in DOMAIN Valid(ip) : /\ n \in DOMAIN requests[ip]
                                                                     /\ Valid(ip)[n] = requests[ip][n]
<1>1. CASE ip \in DOMAIN requests
  <2>1. IsSlice(requests[ip]) /\ Valid(ip) = Young(requests[ip])
    BY <1>1 DEF LimiterTypeOK, IsSlice, Valid, Young
  <2> QED BY <2>1, YoungIsSlice, YoungAgain
<1>2. CASE ip \notin DOMAIN requests
  <2>1. Valid(ip) = Empty
    BY <1>2 DEF Valid
  <2>2. Young(Empty) = Empty
    BY EmptyIsSlice DEF Young, RestrictValues, Restrict, Empty
  <2> QED BY <1>2, <2>1, <2>2, EmptyIsSlice
<1> QED BY <1>1, <1>2

\* What a request leaves under its key, and under the others.
LEMMA PutEffect ==
  ASSUME NEW ip, NEW slice, Put(ip, slice)
  PROVE  /\ DOMAIN requests' = DOMAIN requests \cup {ip}
         /\ requests'[ip] = slice
         /\ \A i \in DOMAIN requests \ {ip} : requests'[i] = requests[i]
  BY DEF Put

\* A slice that may be stored after a request of ip.
Storable(slice) == IsSlice(slice) /\ Size(slice) <= Limit

LEMMA StoreKeepsInv ==
  ASSUME LimiterInv, NEW ip \in Ip, NEW slice, NEW ok \in BOOLEAN,
         Storable(slice), Put(ip, slice), Answered(ip, ok)
  PROVE  LimiterInv'
<1>1. /\ DOMAIN requests' = DOMAIN requests \cup {ip}
      /\ requests'[ip] = slice
      /\ \A i \in DOMAIN requests \ {ip} : requests'[i] = requests[i]
  BY PutEffect
<1>2. /\ waited' \in [Ip -> 0 .. RateWindow + 1] /\ waited'[ip] = 0
      /\ \A i \in Ip \ {ip} : waited'[i] = waited[i]
      /\ answer' \in [ip : Ip \cup {NoIp}, ok : BOOLEAN]
  BY DEF Answered, LimiterInv, LimiterTypeOK
<1>3. LimiterTypeOK'
  BY <1>1, <1>2 DEF LimiterInv, LimiterTypeOK, Storable, IsSlice
<1>4. SliceBounded'
  BY <1>1 DEF LimiterInv, SliceBounded, Storable
<1>5. RecordedBefore'
  BY <1>1, <1>2 DEF LimiterInv, LimiterTypeOK, RecordedBefore, Storable, IsSlice
<1> QED BY <1>3, <1>4, <1>5 DEF LimiterInv

LEMMA LimiterStep == LimiterInv /\ [LimiterNext]_limiterVars => LimiterInv'
<1> SUFFICES ASSUME LimiterInv, [LimiterNext]_limiterVars PROVE LimiterInv'
  OBVIOUS
<1>1. ASSUME NEW ip \in Ip, IsAllowed(ip) PROVE LimiterInv'
  <2>1. IsSlice(Valid(ip)) /\ Size(Valid(ip)) \in Nat
    BY ValidIsSlice DEF LimiterInv
  <2>2. CASE Size(Valid(ip)) >= Limit /\ Put(ip, Valid(ip)) /\ Answered(ip, FALSE)
    <3>1. Size(Valid(ip)) <= Limit
      <4>1. CASE ip \in DOMAIN requests
        <5>1. IsSlice(requests[ip]) /\ Valid(ip) = Young(requests[ip]) /\ Size(requests[ip]) <= Limit
          BY <4>1, ValidIsSlice DEF LimiterInv, LimiterTypeOK, IsSlice, SliceBounded
        <5>2. Size(Valid(ip)) <= Size(requests[ip]) /\ Size(requests[ip]) \in Nat
          BY <5>1, YoungIsSlice, FreshIsNew
        <5> QED BY <2>1, <5>1, <5>2
      <4>2. CASE ip \notin DOMAIN requests
        BY <4>2, EmptyIsSlice DEF Valid
      <4> QED BY <4>1, <4>2
    <3> QED BY <2>1, <2>2, <3>1, StoreKeepsInv DEF Storable
  <2>3. CASE Size(Valid(ip)) < Limit /\ Put(ip, Appended(Valid(ip))) /\ Answered(ip, TRUE)
    <3>1. IsSlice(Appended(Valid(ip))) /\ Size(Appended(Valid(ip))) = Size(Valid(ip)) + 1
      BY <2>1, AppendedAddsOne
    <3>2. Storable(Appended(Valid(ip)))
      BY <2>1, <2>3, <3>1 DEF Storable
    <3> QED BY <2>3, <3>2, StoreKeepsInv
  <2> QED BY <1>1, <2>2, <2>3 DEF IsAllowed
<1>2. CASE cleanup
  <2>1. /\ DOMAIN requests' \subseteq DOMAIN requests /\ UNCHANGED <<answer, waited>>
        /\ \A ip \in DOMAIN requests' : requests'[ip] = Valid(ip)
    BY <1>2 DEF cleanup
  <2>2. \A ip \in DOMAIN requests' :
          /\ IsSlice(requests[ip]) /\ IsSlice(requests'[ip])
          /\ Size(requests'[ip]) <= Size(requests[ip])
          /\ Size(requests'[ip]) \in Nat /\ Size(requests[ip]) \in Nat
          /\ \A n \in DOMAIN requests'[ip] : /\ n \in DOMAIN requests[ip]
                                              /\ requests'[ip][n] = requests[ip][n]
    <3> SUFFICES ASSUME NEW ip \in DOMAIN requests'
                 PROVE  /\ IsSlice(requests[ip]) /\ IsSlice(requests'[ip])
                        /\ Size(requests'[ip]) <= Size(requests[ip])
                        /\ Size(requests'[ip]) \in Nat /\ Size(requests[ip]) \in Nat
                        /\ \A n \in DOMAIN requests'[ip] : /\ n \in DOMAIN requests[ip]
                                                            /\ requests'[ip][n] = requests[ip][n]
      OBVIOUS
    <3>1. ip \in DOMAIN requests /\ IsSlice(requests[ip])
      BY <2>1 DEF LimiterInv, LimiterTypeOK, IsSlice
    <3>2. requests'[ip] = Young(requests[ip])
      BY <2>1, <3>1, ValidIsSlice DEF LimiterInv
    <3> QED BY <3>1, <3>2, YoungIsSlice, FreshIsNew
  <2>3. LimiterTypeOK'
    BY <2>1, <2>2 DEF LimiterInv, LimiterTypeOK, IsSlice
  <2>4. SliceBounded'
    BY <2>1, <2>2 DEF LimiterInv, SliceBounded
  <2>5. RecordedBefore'
    BY <2>1, <2>2 DEF LimiterInv, RecordedBefore
  <2> QED BY <2>3, <2>4, <2>5 DEF LimiterInv
<1>3. CASE LimiterTick
  <2>1. /\ DOMAIN requests' = DOMAIN requests /\ UNCHANGED answer
        /\ waited' = [ip \in Ip |-> Older(waited[ip])]
        /\ \A ip \in DOMAIN requests :
             requests'[ip] = [n \in DOMAIN requests[ip] |-> Older(requests[ip][n])]
    BY <1>3 DEF LimiterTick
  <2>2. \A a \in 0 .. RateWindow + 1 : Older(a) \in 0 .. RateWindow + 1
    BY DEF Older
  <2>3. LimiterTypeOK'
    BY <2>1, <2>2 DEF LimiterInv, LimiterTypeOK
  <2>4. SliceBounded'
    BY <2>1 DEF LimiterInv, SliceBounded, Size
  <2>5. RecordedBefore'
    <3> SUFFICES ASSUME NEW ip \in DOMAIN requests, NEW n \in DOMAIN requests[ip]
                 PROVE  Older(requests[ip][n]) >= Older(waited[ip])
      BY <2>1 DEF RecordedBefore, LimiterInv, LimiterTypeOK
    <3>1. /\ requests[ip][n] \in 0 .. RateWindow + 1 /\ waited[ip] \in 0 .. RateWindow + 1
          /\ requests[ip][n] >= waited[ip]
      BY DEF LimiterInv, LimiterTypeOK, RecordedBefore
    <3> QED BY <3>1 DEF Older
  <2> QED BY <2>3, <2>4, <2>5 DEF LimiterInv
<1>4. CASE UNCHANGED limiterVars
  BY <1>4 DEF limiterVars, LimiterInv, LimiterTypeOK, SliceBounded, RecordedBefore
<1> QED BY <1>1, <1>2, <1>3, <1>4 DEF LimiterNext

LEMMA LimiterStart == LimiterInit => LimiterInv
  BY DEF LimiterInit, LimiterInv, LimiterTypeOK, SliceBounded, RecordedBefore

\* The map and the slices are well typed, whatever is pruned and when.
THEOREM LimiterTyped == LimiterSpec => []LimiterTypeOK
<1>1. LimiterInv => LimiterTypeOK
  BY DEF LimiterInv
<1> QED BY <1>1, LimiterStart, LimiterStep, PTL DEF LimiterSpec

\* A slice never outgrows the limit, so an IP cannot make the map grow.
THEOREM LimiterBounded == LimiterSpec => []SliceBounded
<1>1. LimiterInv => SliceBounded
  BY DEF LimiterInv
<1> QED BY <1>1, LimiterStart, LimiterStep, PTL DEF LimiterSpec

\* "Retry-After": an IP that kept quiet for a window is under the limit again.
THEOREM LimiterRetryHonest == LimiterSpec => []RetryAfterHonest
<1>1. LimiterInv => RetryAfterHonest
  <2> SUFFICES ASSUME LimiterInv, NEW ip \in Ip, waited[ip] >= RateWindow
               PROVE  Size(Valid(ip)) < Limit
    BY DEF RetryAfterHonest
  <2>1. DOMAIN Valid(ip) = {}
    <3> SUFFICES ASSUME NEW n \in DOMAIN Valid(ip) PROVE FALSE
      OBVIOUS
    <3>1. ip \in DOMAIN requests
      BY EmptyIsSlice DEF Valid
    <3>2. n \in DOMAIN requests[ip] /\ requests[ip][n] < RateWindow
      BY <3>1, ValidIsSlice DEF LimiterInv, After
    <3>3. /\ requests[ip][n] >= waited[ip] /\ requests[ip][n] \in 0 .. RateWindow + 1
          /\ waited[ip] \in 0 .. RateWindow + 1
      BY <3>1, <3>2 DEF LimiterInv, LimiterTypeOK, RecordedBefore
    <3> QED BY <3>2, <3>3
  <2>2. Size(Valid(ip)) = 0
    BY <2>1, FS_EmptySet DEF Size
  <2> QED BY <2>2
<1> QED BY <1>1, LimiterStart, LimiterStep, PTL DEF LimiterSpec

---------------------------------------------------------------------------
(* RateLimiter implements SlidingWindow: what is mapped to accepted are the *)
(* entries that a request would find valid now.                            *)

LEMMA SameCardinality == \A S : Abstract!Cardinality(S) = Cardinality(S)
  BY DEF Abstract!Cardinality, Cardinality

LEMMA MoreIsAppended == \A slice : Abstract!More(slice) = Appended(slice)
  BY SameCardinality DEF Abstract!More, Appended, Fresh, Size

\* A request of an IP prunes and appends under its own key alone.
LEMMA PutValid ==
  ASSUME LimiterInv, NEW ip \in Ip, NEW slice, Young(slice) = slice, Put(ip, slice)
  PROVE  /\ Valid(ip)' = slice
         /\ \A i \in Ip \ {ip} : Valid(i)' = Valid(i)
  BY PutEffect DEF Valid, Young

\* An entry is inside the window at the next tick if one more tick leaves it there.
LEMMA TickValid ==
  ASSUME LimiterInv, LimiterTick, NEW ip \in Ip
  PROVE  Valid(ip)' = [n \in {m \in DOMAIN Valid(ip) : Valid(ip)[m] + 1 < RateWindow} |->
                         Valid(ip)[n] + 1]
<1>1. DOMAIN requests' = DOMAIN requests
  BY DEF LimiterTick
<1>2. CASE ip \in DOMAIN requests
  <2> DEFINE old == requests[ip]
             new == requests'[ip]
  <2>1. new = [n \in DOMAIN old |-> Older(old[n])]
    BY <1>2 DEF LimiterTick
  <2>2. \A n \in DOMAIN old : old[n] \in 0 .. RateWindow + 1
    BY <1>2 DEF LimiterInv, LimiterTypeOK
  <2>3. \A n \in DOMAIN old : Older(old[n]) < RateWindow <=> old[n] + 1 < RateWindow
    BY <2>2 DEF Older
  <2>4. \A n \in DOMAIN old : old[n] + 1 < RateWindow => Older(old[n]) = old[n] + 1
    BY <2>2 DEF Older
  <2>5. Valid(ip)' = [n \in {m \in DOMAIN new : new[m] < RateWindow} |-> new[n]]
    BY <1>1, <1>2 DEF Valid, RestrictValues, Restrict, After
  <2>6. Valid(ip) = [n \in {m \in DOMAIN old : old[m] < RateWindow} |-> old[n]]
    BY <1>2 DEF Valid, RestrictValues, Restrict, After
  <2>7. {m \in DOMAIN new : new[m] < RateWindow}
          = {m \in DOMAIN Valid(ip) : Valid(ip)[m] + 1 < RateWindow}
    <3> HIDE DEF old, new
    <3> QED BY <2>1, <2>2, <2>3, <2>6
  <2>8. \A n \in {m \in DOMAIN new : new[m] < RateWindow} : new[n] = Valid(ip)[n] + 1
    <3> HIDE DEF old, new
    <3> QED BY <2>1, <2>2, <2>3, <2>4, <2>6
  <2> QED BY <2>5, <2>7, <2>8
<1>3. CASE ip \notin DOMAIN requests
  <2>1. Valid(ip) = Empty /\ Valid(ip)' = Empty
    BY <1>1, <1>3 DEF Valid
  <2> QED BY <2>1, EmptyIsSlice DEF Empty
<1> QED BY <1>2, <1>3

\* Every step of the limiter is one of the sliding window, or changes nothing there.
LEMMA StepSimulated ==
  ASSUME LimiterInv, [LimiterNext]_limiterVars
  PROVE  [Abstract!Next]_(Abstract!vars)
<1> DEFINE seen == [ip \in Ip |-> Valid(ip)]
<1>1. ASSUME NEW ip \in Ip, IsAllowed(ip) PROVE Abstract!Ask(ip)
  <2>1. /\ IsSlice(Valid(ip)) /\ Size(Valid(ip)) \in Nat /\ Young(Valid(ip)) = Valid(ip)
        /\ Cardinality(DOMAIN seen[ip]) = Size(Valid(ip))
    BY ValidIsSlice DEF LimiterInv, Size
  <2>2. CASE Size(Valid(ip)) >= Limit /\ Put(ip, Valid(ip)) /\ Answered(ip, FALSE)
    <3>1. \A i \in Ip : Valid(i)' = Valid(i)
      BY <2>1, <2>2, PutValid
    <3>2. [i \in Ip |-> Valid(i)]' = seen
      BY <3>1
    <3>3. answer' = [ip |-> ip, ok |-> FALSE]
      BY <2>2 DEF Answered
    <3>4. (Cardinality(DOMAIN seen[ip]) < Limit) = FALSE
      BY <2>1, <2>2
    <3> QED BY <3>2, <3>3, <3>4, SameCardinality DEF Abstract!Ask
  <2>3. CASE Size(Valid(ip)) < Limit /\ Put(ip, Appended(Valid(ip))) /\ Answered(ip, TRUE)
    <3>1. Young(Appended(Valid(ip))) = Appended(Valid(ip))
      BY <2>1, YoungAgain
    <3>2. /\ Valid(ip)' = Appended(Valid(ip))
          /\ \A i \in Ip \ {ip} : Valid(i)' = Valid(i)
      BY <2>3, <3>1, PutValid
    <3>3. [i \in Ip |-> Valid(i)]' = [seen EXCEPT ![ip] = Abstract!More(@)]
      BY <3>2, MoreIsAppended
    <3>4. answer' = [ip |-> ip, ok |-> TRUE]
      BY <2>3 DEF Answered
    <3>5. Cardinality(DOMAIN seen[ip]) < Limit
      BY <2>1, <2>3
    <3> QED BY <3>3, <3>4, <3>5, SameCardinality DEF Abstract!Ask
  <2> QED BY <1>1, <2>2, <2>3 DEF IsAllowed
<1>2. ASSUME cleanup PROVE UNCHANGED Abstract!vars
  <2>1. \A ip \in Ip : Valid(ip)' = Valid(ip)
    <3> SUFFICES ASSUME NEW ip \in Ip PROVE Valid(ip)' = Valid(ip)
      OBVIOUS
    <3>1. /\ IsSlice(Valid(ip)) /\ Young(Valid(ip)) = Valid(ip)
          /\ DOMAIN requests' = {i \in DOMAIN requests : Size(Valid(i)) > 0}
          /\ ip \in DOMAIN requests' => requests'[ip] = Valid(ip)
      BY <1>2, ValidIsSlice DEF cleanup, LimiterInv
    <3>2. CASE ip \in DOMAIN requests'
      BY <3>1, <3>2 DEF Valid, Young
    <3>3. CASE ip \notin DOMAIN requests'
      <4>1. Valid(ip)' = Empty
        BY <3>3 DEF Valid
      <4>2. CASE ip \notin DOMAIN requests
        BY <4>1, <4>2 DEF Valid
      <4>3. CASE ip \in DOMAIN requests
        <5>1. Size(Valid(ip)) = 0
          BY <3>1, <3>3, <4>3, FreshIsNew
        <5>2. DOMAIN Valid(ip) = {}
          BY <3>1, <5>1, FS_EmptySet DEF IsSlice, Size
        <5> QED BY <3>1, <4>1, <5>2 DEF IsSlice, Empty
      <4> QED BY <4>2, <4>3
    <3> QED BY <3>2, <3>3
  <2>2. answer' = answer
    BY <1>2 DEF cleanup
  <2> QED BY <2>1, <2>2 DEF Abstract!vars
<1>3. ASSUME LimiterTick PROVE Abstract!Tick
  <2>1. \A ip \in Ip :
          Valid(ip)' = [n \in {m \in DOMAIN Valid(ip) : Valid(ip)[m] + 1 < RateWindow} |->
                          Valid(ip)[n] + 1]
    BY <1>3, TickValid
  <2>2. answer' = answer
    BY <1>3 DEF LimiterTick
  <2> DEFINE older(ip) == [n \in DOMAIN seen[ip] |-> seen[ip][n] + 1]
  <2>3. \A ip \in Ip :
          Valid(ip)' = [n \in {m \in DOMAIN older(ip) : older(ip)[m] < RateWindow} |-> older(ip)[n]]
    <3> SUFFICES ASSUME NEW ip \in Ip
                 PROVE  Valid(ip)' = [n \in {m \in DOMAIN older(ip) : older(ip)[m] < RateWindow} |->
                                        older(ip)[n]]
      OBVIOUS
    <3>1. seen[ip] = Valid(ip)
      OBVIOUS
    <3>2. {m \in DOMAIN older(ip) : older(ip)[m] < RateWindow}
            = {m \in DOMAIN Valid(ip) : Valid(ip)[m] + 1 < RateWindow}
      BY <3>1
    <3> QED BY <2>1, <3>1, <3>2
  <2> QED BY <2>2, <2>3 DEF Abstract!Tick, Abstract!RestrictValues, Abstract!Restrict
<1>4. CASE UNCHANGED limiterVars
  BY <1>4 DEF limiterVars, Abstract!vars, Valid
<1> QED BY <1>1, <1>2, <1>3, <1>4 DEF LimiterNext, Abstract!Next

\* Lazy pruning and the cleanup are invisible: the limiter answers as the
\* sliding window of the documentation does.
THEOREM LimiterRefines == LimiterSpec => ImplementsSlidingWindow
<1>1. LimiterInit => Abstract!Init
  BY DEF LimiterInit, Abstract!Init, Valid, Empty
<1>2. LimiterInv /\ [LimiterNext]_limiterVars => [Abstract!Next]_(Abstract!vars)
  BY StepSimulated
<1> QED BY <1>1, <1>2, LimiterStart, LimiterStep, PTL
     DEF LimiterSpec, ImplementsSlidingWindow, Abstract!Spec
===========================================================================
