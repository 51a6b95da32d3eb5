------------------------------- MODULE MCRing -------------------------------
(* Three node processes, at most four TCP connections at a time.           *)
EXTENDS Ring, TLC

CONSTANTS n1, n2, n3

MCNode == {n1, n2, n3}
MCSymmetry == Permutations(MCNode)

=============================================================================
