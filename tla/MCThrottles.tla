---------------------------- MODULE MCThrottles ----------------------------
(***************************************************************************)
(* The two brakes on requests, checked in one run: a behaviour is about    *)
(* one of them, chosen at the start. They share no state in the code.      *)
(***************************************************************************)
EXTENDS LoginThrottle, RateLimiter

VARIABLE brake

AboutLogins == brake = "LoginThrottle" /\ UNCHANGED <<brake, limiterVars>>
AboutRequests == brake = "RateLimiter" /\ UNCHANGED <<brake, vars>>

BrakesInit == brake \in {"LoginThrottle", "RateLimiter"} /\ Init /\ LimiterInit

BrakesNext == (AboutLogins /\ Next) \/ (AboutRequests /\ LimiterNext)

\* The fairness of the one that is chosen.
BrakesSpec ==
  /\ BrakesInit /\ [][BrakesNext]_<<brake, vars, limiterVars>>
  /\ WF_<<brake, vars, limiterVars>>(AboutLogins /\ Tick)
  /\ WF_<<brake, vars, limiterVars>>(AboutRequests /\ LimiterTick)
  /\ WF_<<brake, vars, limiterVars>>(AboutRequests /\ cleanup)
=============================================================================
