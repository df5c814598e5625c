----------------------------- MODULE MCStateGuard -----------------------------
(* Small instances of StateGuard.                                          *)
EXTENDS StateGuard, TLC

ProcessSymmetry == Permutations(Process)
=============================================================================
