---------------------------- MODULE MCViewSync ----------------------------
(* ViewSync for TLC. *)
EXTENDS ViewSync
=============================================================================
