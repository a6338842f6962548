-------------------------- MODULE MCToolDispatcher --------------------------
(* An instance of ToolDispatcher for TLC. *)
EXTENDS ToolDispatcher

CONSTANT k
=============================================================================
