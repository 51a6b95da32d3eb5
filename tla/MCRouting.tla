---------------------------- MODULE MCRouting -------------------------------
EXTENDS Routing, TLC

CONSTANTS n1, n2, n3

MCNode == {n1, n2, n3}

\* No definition of Routing picks a node by its identity.
MCSymmetry == Permutations(MCNode)

=============================================================================
