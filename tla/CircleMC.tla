------------------------------ MODULE CircleMC ------------------------------
(* The bounds of Circle for TLC: the sender and one receiver (receivers share  *)
(* nothing), three chain ids that three chains draw from, so that ids both     *)
(* collide and differ, and records of two members with one skipped key each.   *)
EXTENDS Circle

CONSTANTS snd, rcv, id1, id2, id3

MCDevices == {snd, rcv}
MCChainIds == {id1, id2, id3}
MCSymmetry == Permutations(MCChainIds)
=============================================================================
