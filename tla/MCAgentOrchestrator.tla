------------------------- MODULE MCAgentOrchestrator -------------------------
(* AgentOrchestrator for TLC: two initial artifacts, one of them a test result.*)
EXTENDS AgentOrchestrator, TLC

MCInitial == {"change_summary", "test_result"}
=============================================================================
