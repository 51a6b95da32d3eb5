\* Three processes whose users type commands at any time (a join may be
\* issued while another is in progress); timers expire only once the network
\* is idle, so no timer race is needed for what this run finds.
CONSTANTS
    n1 = n1
    n2 = n2
    n3 = n3
    Node <- MCNode
    Null = Null
    MaxConn = 4
    Serial = FALSE
    PatientTimers = TRUE
    MaxCommands = 0
SYMMETRY MCSymmetry
SPECIFICATION Spec
INVARIANT NoCrash
