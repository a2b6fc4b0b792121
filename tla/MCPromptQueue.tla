--------------------------- MODULE MCPromptQueue ---------------------------
(* Instances of PromptQueue for TLC. *)
EXTENDS PromptQueue
=============================================================================
