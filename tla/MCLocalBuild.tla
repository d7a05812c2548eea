---------------------------- MODULE MCLocalBuild ----------------------------
(* Small instances of LocalBuild.                                          *)
EXTENDS LocalBuild, TLC

Symmetry == Permutations(Build) \cup Permutations(Op)
=============================================================================
