------------------------------- MODULE SeamMC -------------------------------
(* One export of each shape: outputs only, inputs and a flag, a status alone,  *)
(* a struct filled in, the bundle laid out by hand, no output and no status.    *)
EXTENDS Seam

CONSTANTS a, b

MCCallers == {a, b}
MCNames ==
  {"gv_curve_pair", "gv_curve_verify", "gv_curve_check", "gv_session_info", "gv_session_start",
   "gv_signed_parse", "gv_session_open", "gv_pool_valid"}
MCSymmetry == Permutations(MCCallers)
=============================================================================
