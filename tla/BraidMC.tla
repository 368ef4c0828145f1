------------------------------ MODULE BraidMC ------------------------------
(* Pieces needed: two for each message, so that a Gather is seen empty and     *)
(* partly full, or three for the encapsulation key, so that it holds several. *)
EXTENDS Braid

CONSTANTS ini, rsp

MCNeed == [kind \in Kinds |-> IF kind = "encap" THEN 3 ELSE 2]
MCNeedTwo == [kind \in Kinds |-> 2]
=============================================================================
