---------------------------- MODULE MCAgentLoop ----------------------------
(* The agent loop over one query and one page.                             *)
EXTENDS AgentLoop, AgentTasks

MCCanonical == [u \in Urls |-> u]
=============================================================================
