---------------------------- MODULE MCTokenStore ----------------------------
(***************************************************************************)
(* A small instance of TokenStore for TLC.                                 *)
(***************************************************************************)
EXTENDS TokenStoreInv, TLC

Symmetric == Permutations(Calls) \cup Permutations(Tokens) \cup
             Permutations(Subjects)
=============================================================================
