---------------------------- MODULE MCFileStore -----------------------------
(* FileStore for TLC; files and requests are interchangeable. *)
EXTENDS FileStore, TLC

Symmetry == Permutations(Caller) \cup Permutations(File)
=============================================================================
