---------------------------- MODULE MCAeroQueue ----------------------------
(* AeroQueue for TLC. *)
EXTENDS AeroQueue
=============================================================================
