----------------------------- MODULE MCPipeline -----------------------------
(* Values for the constants of Pipeline. *)
EXTENDS Pipeline

CONSTANT a   \* a message text

\* One text, logged by others and by the agent's own unit.
OneText == [msg : {a}, kind : {"plain", "own"}]
=============================================================================
