---------------------------- MODULE RateLimiter ----------------------------
(***************************************************************************)
(* core/api/rate_limiter.go: a map from IP to the timestamps of its        *)
(* accepted requests, pruned by the IP's own requests and by a cleanup     *)
(* goroutine.  IsAllowed and cleanup each hold the mutex from the clock    *)
(* reading to the last write, so each is one action.  The server has two   *)
(* limiters, 200 a minute for every call and 10 a minute for the public    *)
(* auth routes (core/api/router.go); they share no state.                  *)
(*                                                                         *)
(* A timestamp is kept as its age in ticks; all ages beyond RateWindow are *)
(* one value, as the code never tells them apart.  A slice is a set of     *)
(* numbered entries: the code tests each on its own and counts them, and   *)
(* never reads their order.                                                *)
(***************************************************************************)
EXTENDS Integers, FiniteSets, Functions

CONSTANTS
  Ip,
  NoIp,
  Limit,   \* requests per window
  RateWindow   \* length of the window, in ticks

ASSUME RateAssumption ==
  /\ NoIp \notin Ip
  /\ Limit \in Nat \ {0}
  /\ RateWindow \in Nat \ {0}

VARIABLES
  requests,  \* the map: partial, Ip to the ages of its numbered entries
  answer,    \* the last request and whether the handler behind it ran
  waited     \* history: ticks since each IP's last request

limiterVars == <<requests, answer, waited>>

Older(age) == IF age <= RateWindow THEN age + 1 ELSE age

\* A bug: an entry exactly a window old still counts.
AfterMutant(age) == age <= RateWindow

\* ts.After(cutoff)
After(age) == age < RateWindow

Empty == [n \in {} |-> 0]
Size(slice) == Cardinality(DOMAIN slice)

\* append(slice, now): the new entry takes a number no other entry has.
Fresh(slice) == CHOOSE n \in 0 .. Size(slice) : n \notin DOMAIN slice
Appended(slice) ==
  [n \in DOMAIN slice \cup {Fresh(slice)} |-> IF n \in DOMAIN slice THEN slice[n] ELSE 0]

\* The entries still inside the window; a missing key reads as an empty slice.
Valid(ip) == IF ip \in DOMAIN requests THEN RestrictValues(requests[ip], After) ELSE Empty

\* requests[ip] = slice
Put(ip, slice) ==
  requests' = [i \in DOMAIN requests \cup {ip} |-> IF i = ip THEN slice ELSE requests[i]]

Answered(ip, ok) ==
  /\ answer' = [ip |-> ip, ok |-> ok]
  /\ waited' = [waited EXCEPT ![ip] = 0]

\* A bug: the request is recorded before the limit is looked at.
IsAllowedMutant(ip) ==
  LET valid == Appended(Valid(ip)) IN
  /\ Put(ip, IF Size(valid) > Limit + 1 THEN Valid(ip) ELSE valid)
  /\ Answered(ip, Size(valid) <= Limit)

\* A bug: the address is not extracted, so all clients share one slice.
IsAllowedSharedMutant(ip) ==
  LET ok == Size(Valid(NoIp)) < Limit IN
  Put(NoIp, IF ok THEN Appended(Valid(NoIp)) ELSE Valid(NoIp)) /\ Answered(ip, ok)

IsAllowed(ip) ==
  LET valid == Valid(ip) IN
  \/ Size(valid) >= Limit /\ Put(ip, valid) /\ Answered(ip, FALSE)
  \/ Size(valid) < Limit /\ Put(ip, Appended(valid)) /\ Answered(ip, TRUE)

\* A bug: the slices are pruned, the keys stay.
CleanupMutant ==
  /\ requests' = [ip \in DOMAIN requests |-> Valid(ip)]
  /\ UNCHANGED <<answer, waited>>

\* A bug: an IP is dropped as soon as its oldest request is outside the window.
CleanupOldestMutant ==
  /\ requests' = [ip \in {i \in DOMAIN requests : Valid(i) = requests[i]} |-> Valid(ip)]
  /\ UNCHANGED <<answer, waited>>

cleanup ==
  /\ requests' = [ip \in {i \in DOMAIN requests : Size(Valid(i)) > 0} |-> Valid(ip)]
  /\ UNCHANGED <<answer, waited>>

LimiterTick ==
  /\ requests' = [ip \in DOMAIN requests |->
                    [n \in DOMAIN requests[ip] |-> Older(requests[ip][n])]]
  /\ waited' = [ip \in Ip |-> Older(waited[ip])]
  /\ UNCHANGED answer

LimiterInit ==
  /\ requests = [ip \in {} |-> Empty]
  /\ answer = [ip |-> NoIp, ok |-> TRUE]
  /\ waited = [ip \in Ip |-> RateWindow + 1]

LimiterNext == (\E ip \in Ip : IsAllowed(ip)) \/ cleanup \/ LimiterTick

\* Time passes and the ticker of NewRateLimiter fires; no request need ever arrive.
LimiterSpec == LimiterInit /\ [][LimiterNext]_limiterVars /\ WF_limiterVars(LimiterTick) /\ WF_limiterVars(cleanup)

---------------------------------------------------------------------------
(* Properties. *)

\* Every key maps to ages, and only clients that sent a request have one.
LimiterTypeOK ==
  /\ DOMAIN requests \subseteq Ip
  /\ \A ip \in DOMAIN requests :
       /\ DOMAIN requests[ip] \subseteq Nat /\ IsFiniteSet(DOMAIN requests[ip])
       /\ requests[ip] \in [DOMAIN requests[ip] -> 0 .. RateWindow + 1]
  /\ answer \in [ip : Ip \cup {NoIp}, ok : BOOLEAN]
  /\ waited \in [Ip -> 0 .. RateWindow + 1]

\* A slice never holds more than Limit timestamps, stale ones included,
\* however requests, refusals and cleanups follow each other.
SliceBounded == \A ip \in DOMAIN requests : Size(requests[ip]) <= Limit

\* "Retry-After: 60": a client that keeps quiet for a window, whatever it did
\* before and wherever the cleanup ran, is accepted again.
RetryAfterHonest == \A ip \in Ip : waited[ip] >= RateWindow => Size(Valid(ip)) < Limit

\* A refusal does not prolong itself: even a client that never stops asking is
\* let through again and again.
RefusalIsTemporary == \A ip \in Ip : []<>(Size(Valid(ip)) < Limit)

\* The map does not grow for ever: an IP that stays quiet is forgotten.
QuietForgotten ==
  \A ip \in Ip : (waited[ip] >= RateWindow) ~> (ip \notin DOMAIN requests \/ waited[ip] < RateWindow)

\* Lazy pruning and cleanup are invisible: the limiter decides exactly as the
\* sliding window that remembers what it accepted.
Abstract == INSTANCE SlidingWindow WITH accepted <- [ip \in Ip |-> Valid(ip)],
                                        None <- NoIp, Window <- RateWindow
ImplementsSlidingWindow == Abstract!Spec
===========================================================================
