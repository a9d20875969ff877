------------------------------ MODULE MCAgentLog ------------------------------
(* An instance of AgentLog for TLC. *)
EXTENDS AgentLog
=============================================================================
