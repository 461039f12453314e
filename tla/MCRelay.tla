------------------------------ MODULE MCRelay -------------------------------
(***************************************************************************)
(* A small instance of Relay for TLC.                                      *)
(***************************************************************************)
EXTENDS Relay, TLC

CONSTANTS c1, c2, i1, i2, k1, k2, u1, u2

Symmetric == Permutations({c1, c2}) \cup Permutations({i1, i2})
               \cup Permutations({k1, k2}) \cup Permutations({u1, u2})
=============================================================================
