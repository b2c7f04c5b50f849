--------------------------- MODULE MCAgentSession ---------------------------
(* AgentSession for TLC: model values for everything, so nothing to define.  *)
EXTENDS AgentSession, TLC
=============================================================================
