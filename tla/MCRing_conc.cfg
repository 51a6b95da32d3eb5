\* Three processes whose users type up to three commands at any time, while
\* lines are in flight; timers may expire before the lines arrive.  The
\* event loop is fair (Settles is temporal, so there is no symmetry
\* reduction).  Once the commands are spent and every event is handled the
\* processes wait in select() for ever, so a final state is not a deadlock.
CONSTANTS
    n1 = n1
    n2 = n2
    n3 = n3
    Node <- MCNode
    Null = Null
    MaxConn = 4
    Serial = FALSE
    PatientTimers = FALSE
    MaxCommands = 3
SPECIFICATION FairSpec
INVARIANT RoleExclusivity
PROPERTY Settles
CHECK_DEADLOCK FALSE
