---------------------------- MODULE MCWhitelist ----------------------------
(***************************************************************************)
(* Whitelist for TLC: the addresses a, b and, for the second configuration, *)
(* B, another spelling of b (2001:DB8::1 for 2001:db8::1).                 *)
(***************************************************************************)
EXTENDS Whitelist, TLC

CONSTANTS a, b, B

SomeNorm == [ip \in Spelling |-> IF ip = B THEN b ELSE ip]

Symmetry == Permutations(Req) 
===========================================================================
