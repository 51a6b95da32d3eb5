\* Reproduction cfg for the hazard at main.c:89.  As MCDirectory.cfg,
\* but a user may type "join" while in a ring.
CONSTANTS
    n1 = n1
    n2 = n2
    n3 = n3
    Node <- MCNode
    Null = Null
    MaxIds = 2
    Serial = TRUE
    LossyLookup = FALSE
    CodePaths = {"join_in_ring"}
    MaxCommands = 4
SYMMETRY MCSymmetry
SPECIFICATION Spec
INVARIANT RegistryMatches
CHECK_DEADLOCK FALSE
