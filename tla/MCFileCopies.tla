---------------------------- MODULE MCFileCopies ----------------------------
(* FileCopies for TLC. *)
EXTENDS FileCopies, TLC

Symmetry == Permutations(Thread) \cup Permutations(Mark) \cup Permutations(Content \ {NoFiles})
=============================================================================
