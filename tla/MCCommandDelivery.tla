------------------------- MODULE MCCommandDelivery -------------------------
(* Small instances of CommandDelivery.                                     *)
EXTENDS CommandDelivery, TLC

CONSTANTS n1, n2, c1, t1

\* Every command is addressed to n1.
OneNode == [c \in Cmd |-> n1]

Symmetry == Permutations(Conn) \cup Permutations(Poll)
=============================================================================
