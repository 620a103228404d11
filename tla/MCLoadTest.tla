----------------------------- MODULE MCLoadTest -----------------------------
(***************************************************************************)
(* Instances of LoadTest for TLC.                                          *)
(***************************************************************************)
EXTENDS LoadTestProperties

CONSTANTS v, w

\* Nothing tells one value from another.
ValuesSymmetry == Permutations(Values)
=============================================================================
