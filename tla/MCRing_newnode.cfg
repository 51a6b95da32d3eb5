\* A process that rejects an inbound CHORD keeps the connection in
\* new_node_conn and refuses every later accept() (NewNodeHandled).
CONSTANTS
    n1 = n1
    n2 = n2
    n3 = n3
    Node <- MCNode
    Null = Null
    MaxConn = 4
    Serial = FALSE
    PatientTimers = FALSE
    MaxCommands = 3
SPECIFICATION FairSpec
PROPERTY NewNodeHandled
CHECK_DEADLOCK FALSE
