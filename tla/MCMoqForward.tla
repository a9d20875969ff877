----------------------------- MODULE MCMoqForward -----------------------------
(* An instance of MoqForward for TLC. *)
EXTENDS MoqForward
=============================================================================
