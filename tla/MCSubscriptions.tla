--------------------------- MODULE MCSubscriptions ---------------------------
(* Small instances of Subscriptions for TLC; their liveness property rules  *)
(* symmetry reduction out.                                                 *)
EXTENDS Subscriptions, TLC
============================================================================
