------------------------------ MODULE SessionMC ------------------------------
(* The bounds of Session for TLC.                                             *)
EXTENDS Session

CONSTANTS alice, bob, k1

MCOneTimeIds == {k1}
MCSymmetry == Permutations({alice, bob})
=============================================================================
