\* Reproduction cfg for the hazard at node-server.c:140.  As
\* MCDirectory.cfg, with a single id, so that two joiners find none free.
CONSTANTS
    n1 = n1
    n2 = n2
    n3 = n3
    Node <- MCNode
    Null = Null
    MaxIds = 1
    Serial = TRUE
    LossyLookup = FALSE
    CodePaths = {}
    MaxCommands = 8
SYMMETRY MCSymmetry
SPECIFICATION Spec
INVARIANT IdsUnique
CHECK_DEADLOCK FALSE
