---------------------------- MODULE MCChatSession ----------------------------
(* Small instances of ChatSession for TLC; their liveness property rules   *)
(* symmetry reduction out.                                                 *)
EXTENDS ChatSession, TLC
============================================================================
