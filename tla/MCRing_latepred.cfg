\* A joining process whose 1 s predecessor timer expires just before its
\* successor's PRED connection is accepted, and whose user types the next
\* command at once.
CONSTANTS
    n1 = n1
    n2 = n2
    n3 = n3
    Node <- MCNode
    Null = Null
    MaxConn = 4
    Serial = FALSE
    PatientTimers = FALSE
    MaxCommands = 3
SYMMETRY MCSymmetry
SPECIFICATION Spec
INVARIANT RingWhenQuiet
CHECK_DEADLOCK FALSE
