---------------------------- MODULE MCAgentInbox ----------------------------
(* Small instances of AgentInbox for TLC; their liveness properties rule symmetry
   reduction out. *)
EXTENDS AgentInbox
=============================================================================
