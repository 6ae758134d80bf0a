-------------------------- MODULE MCAccountLifecycle --------------------------
(* Small instances of AccountLifecycle for TLC.                              *)
EXTENDS AccountLifecycle, TLC

CONSTANTS a1, a2, k1, k2, k3

KeySymmetry  == Permutations({k1, k2, k3})
PairSymmetry == Permutations({a1, a2}) \cup Permutations({k1, k2})
=============================================================================
