------------------------------ MODULE ClientMC ------------------------------
(* Two sessions the peer started: the first names a one-time pre-key, the       *)
(* second is with the identity the peer has after it was installed again, and   *)
(* so is the bundle at hand.                                                    *)
EXTENDS Client, TLC

CONSTANTS c1, c2, k1, none

MCCalls == {c1, c2}
MCOneTimeIds == {k1}
MCMessages ==
  {[name |-> 1, kind |-> "first", base |-> "b1", oneTimeId |-> k1],
   [name |-> 2, kind |-> "whisper", base |-> "b1", oneTimeId |-> none],
   [name |-> 3, kind |-> "first", base |-> "b2", oneTimeId |-> none]}
MCStarts == {[name |-> 5, kind |-> "start", base |-> "b3", oneTimeId |-> none]}
MCIdentityOf == [b \in {"b1", "b2", "b3"} |-> IF b = "b1" THEN "i1" ELSE "i2"]
MCSymmetry == Permutations(MCCalls)
=============================================================================
