--------------------------- MODULE MCDynamicBitrate ---------------------------
(* An instance of DynamicBitrate for TLC. *)
EXTENDS DynamicBitrate
=============================================================================
