------------------------------- MODULE MCLive -------------------------------
(* Instances of Live for TLC. *)
EXTENDS Live
=============================================================================
