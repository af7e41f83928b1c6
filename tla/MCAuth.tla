------------------------------ MODULE MCAuth ------------------------------
(***************************************************************************)
(* Model values for Auth: emails and passwords are interchangeable while   *)
(* no account is provisioned from the environment.                         *)
(***************************************************************************)
EXTENDS Auth, TLC

RequestSymmetry == Permutations(Req)

Symmetry == RequestSymmetry \cup Permutations(Email) \cup Permutations(Password)
===========================================================================
