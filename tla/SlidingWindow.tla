--------------------------- MODULE SlidingWindow ---------------------------
(***************************************************************************)
(* What "sliding window rate limiting per IP" promises: a request is       *)
(* accepted exactly when fewer than Limit requests of the same IP were     *)
(* accepted less than Window ago.  Nothing is stored but the ages of those *)
(* requests, and nothing is ever cleaned up.                               *)
(***************************************************************************)
EXTENDS Integers, FiniteSets, Functions

CONSTANTS Ip, None, Limit, Window

VARIABLES
  accepted,  \* [Ip -> the ages, in ticks, of the numbered requests accepted inside the window]
  answer     \* the last request and whether it was accepted

vars == <<accepted, answer>>

\* One more request, under a number none of the others has.
More(ages) ==
  LET new == CHOOSE n \in 0 .. Cardinality(DOMAIN ages) : n \notin DOMAIN ages
  IN  [n \in DOMAIN ages \cup {new} |-> IF n \in DOMAIN ages THEN ages[n] ELSE 0]

Ask(ip) ==
  LET ok == Cardinality(DOMAIN accepted[ip]) < Limit IN
  /\ accepted' = IF ok THEN [accepted EXCEPT ![ip] = More(@)] ELSE accepted
  /\ answer' = [ip |-> ip, ok |-> ok]

Tick ==
  LET Recent(age) == age < Window
      Older(ages) == [n \in DOMAIN ages |-> ages[n] + 1]
  IN
  /\ accepted' = [ip \in Ip |-> RestrictValues(Older(accepted[ip]), Recent)]
  /\ UNCHANGED answer

Init ==
  /\ accepted = [ip \in Ip |-> [n \in {} |-> 0]]
  /\ answer = [ip |-> None, ok |-> TRUE]

Next == (\E ip \in Ip : Ask(ip)) \/ Tick

Spec == Init /\ [][Next]_vars
===========================================================================
