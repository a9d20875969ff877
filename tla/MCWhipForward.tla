---------------------------- MODULE MCWhipForward ----------------------------
(* An instance of WhipForward for TLC. *)
EXTENDS WhipForward
=============================================================================
