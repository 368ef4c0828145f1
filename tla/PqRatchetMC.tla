---------------------------- MODULE PqRatchetMC ----------------------------
(* Three epochs, so that keys of the first are pruned, and five messages from *)
(* one side, so that three keys are held and trimmed.                         *)
EXTENDS PqRatchet, TLC

CONSTANTS ini, rsp, s1, s2, s3

MCSecrets == {s1, s2, s3}
MCSends == [side \in {ini, rsp} |-> IF side = ini THEN 5 ELSE 4]
MCSymmetry == Permutations(MCSecrets)
=============================================================================
