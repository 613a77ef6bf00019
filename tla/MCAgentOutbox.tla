--------------------------- MODULE MCAgentOutbox ---------------------------
(* Small instances of AgentOutbox for TLC; their liveness properties rule symmetry
   reduction out. *)
EXTENDS AgentOutbox
============================================================================
