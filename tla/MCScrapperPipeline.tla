------------------------- MODULE MCScrapperPipeline -------------------------
(* Small instances of ScrapperPipeline for TLC. *)
EXTENDS ScrapperPipeline, TLC

(* Chats, shots and workers are interchangeable. *)
Symmetry == Permutations(Chats) \cup Permutations(Shots) \cup Permutations(Workers)
============================================================================
