---------------------------- MODULE MCTokenCache ----------------------------
(* TokenCache for TLC. *)
EXTENDS TokenCache, TLC

Symmetry == Permutations(Thread) \cup Permutations(Token) \cup Permutations(Node)
=============================================================================
