--------------------------- MODULE MCDeployEject ---------------------------
(* Small instances of DeployEject.                                         *)
EXTENDS DeployEject, TLC

CONSTANTS n1, n2, d1, d2

\* The BMC of d1 is linked to n1, that of d2 to no node.
LinkFirst == [d \in Dep |-> IF d = d1 THEN n1 ELSE NoNode]

Symmetry == Permutations(Fin)
=============================================================================
