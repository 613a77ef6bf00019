--------------------------- MODULE MCLinkBatches ---------------------------
(* Small instances of LinkBatches for TLC; the ids are ordered, so that    *)
(* links are no symmetry set, and liveness rules out that of the walks.    *)
EXTENDS LinkBatches, TLC
============================================================================
