---------------------------- MODULE MCKnowledgeBase ----------------------------
(* Instances of KnowledgeBase for TLC. *)
EXTENDS KnowledgeBase
=============================================================================
