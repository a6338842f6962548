-------------------------- MODULE MCAgentCollector --------------------------
(* Instances of AgentCollector for TLC. *)
EXTENDS AgentCollector

CONSTANTS a, b   \* two message texts

MCMessages == {a, b}

\* Two texts, one of them also logged by the agent's own unit, a malformed line
\* and one the scanner cannot hold.
MixedLines == [msg : {a, b}, kind : {"plain"}] \cup [msg : {a}, kind : Kinds]

PlainLines == [msg : {a, b}, kind : {"plain"}]

NoPatterns == {{}}
PatternsOnB == {{}, {b}}
=============================================================================
