---------------------------- MODULE MCMetaCache ----------------------------
(* MetaCache for TLC, with the histories its answers are compared with. *)
EXTENDS MetaAnswers
=============================================================================
