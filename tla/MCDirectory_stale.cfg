\* Three processes whose users type commands at any time, so that a line
\* can follow another before the server's answer to the first is read
\* (two lines typed at once are handed over by one read_lines()).
CONSTANTS
    n1 = n1
    n2 = n2
    n3 = n3
    Node <- MCNode
    Null = Null
    MaxIds = 2
    Serial = FALSE
    LossyLookup = FALSE
    CodePaths = {}
    MaxCommands = 4
SPECIFICATION FairSpec
PROPERTY JoinResolves
CHECK_DEADLOCK FALSE
