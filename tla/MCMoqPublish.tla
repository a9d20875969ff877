----------------------------- MODULE MCMoqPublish -----------------------------
(* An instance of MoqPublish for TLC. *)
EXTENDS MoqPublish
=============================================================================
