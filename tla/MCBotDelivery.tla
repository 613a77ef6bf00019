--------------------------- MODULE MCBotDelivery ---------------------------
(* Small instances of BotDelivery for TLC; their liveness properties rule symmetry
   reduction out. *)
EXTENDS BotDelivery
============================================================================
