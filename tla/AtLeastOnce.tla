---------------------------- MODULE AtLeastOnce ----------------------------
(***************************************************************************)
(* What a transactional outbox (or inbox) table with a relay job promises, *)
(* without saying how: an item is accepted once, it is handed on at least  *)
(* once, and it is settled (marked processed, later deleted) only after it *)
(* has been handed on.  The tables of the three services are compared with *)
(* this module through refinement mappings.                                *)
(***************************************************************************)
CONSTANT Item               \* everything that can be accepted

VARIABLES
  accepted,                 \* items durably recorded
  delivered,                \* items handed to the next stage at least once
  settled                   \* items the relay will not look at again

vars == <<accepted, delivered, settled>>

Init ==
  /\ accepted = {}
  /\ delivered = {}
  /\ settled = {}

(* Some new items are recorded, all together. *)
Accept ==
  /\ accepted \subseteq accepted'
  /\ accepted' \subseteq Item
  /\ UNCHANGED <<delivered, settled>>

(* Items that are still owed are handed on, and items that have been       *)
(* handed on, now at the latest, are settled.  Handing an item on again is *)
(* a stuttering step of this specification.                                *)
HandOn ==
  /\ delivered \subseteq delivered'
  /\ delivered' \subseteq delivered \cup (accepted \ settled)
  /\ settled \subseteq settled'
  /\ settled' \subseteq delivered'
  /\ UNCHANGED accepted

Next == Accept \/ HandOn

Spec == Init /\ [][Next]_vars
============================================================================
