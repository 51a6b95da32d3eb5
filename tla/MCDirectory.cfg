\* Three processes of one ring, ids 0 and 1 (so that a third node finds no
\* free id), lookups that may be lost, users acting one at a time.
\* Liveness is checked, so no symmetry reduction; a final state where the
\* commands are spent is not a deadlock.
CONSTANTS
    n1 = n1
    n2 = n2
    n3 = n3
    Node <- MCNode
    Null = Null
    MaxIds = 2
    Serial = TRUE
    LossyLookup = TRUE
    CodePaths = {}
    MaxCommands = 8
SPECIFICATION FairSpec
INVARIANT TypeOK
INVARIANT IdsUnique
INVARIANT RegistryMatches
PROPERTY JoinResolves
CHECK_DEADLOCK FALSE
