------------------------- MODULE MCRecordingService -------------------------
(* An instance of RecordingService for TLC. *)
EXTENDS RecordingService
=============================================================================
