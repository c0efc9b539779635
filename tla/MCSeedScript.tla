---------------------------- MODULE MCSeedScript ----------------------------
(* seed.sh for TLC.                                                        *)
EXTENDS SeedScript, TLC

Symmetry == Permutations(Runners)
=============================================================================
