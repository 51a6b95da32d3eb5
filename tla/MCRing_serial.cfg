\* Three processes, commands issued one at a time (each once the previous
\* one has settled), timers that may expire while lines are in flight.
CONSTANTS
    n1 = n1
    n2 = n2
    n3 = n3
    Node <- MCNode
    Null = Null
    MaxConn = 4
    Serial = TRUE
    PatientTimers = FALSE
    MaxCommands = 0
SYMMETRY MCSymmetry
SPECIFICATION Spec
INVARIANT TypeOK
INVARIANT RingWhenQuiet
INVARIANT NoCrash
INVARIANT RoleExclusivity
INVARIANT TimerMeansAwaitingPred
