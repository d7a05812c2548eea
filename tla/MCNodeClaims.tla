---------------------------- MODULE MCNodeClaims ----------------------------
(* Small instances of NodeClaims.                                          *)
EXTENDS NodeClaims, TLC

Symmetry == Permutations(Node) \cup Permutations(Key) \cup Permutations(Call)
            \cup Permutations(Group) \cup Permutations(Saver)
=============================================================================
