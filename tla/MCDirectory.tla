----------------------------- MODULE MCDirectory -----------------------------
(* Three node processes of one ring and the directory server.              *)
EXTENDS Directory, TLC

CONSTANTS n1, n2, n3

MCNode == {n1, n2, n3}
MCSymmetry == Permutations(MCNode)

=============================================================================
