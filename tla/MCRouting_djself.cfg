\* A process started with dj n n, whose tables were never initialised.
CONSTANTS
  n1 = n1
  n2 = n2
  n3 = n3
  Node <- MCNode
  Zero = Zero
  NoNode = NoNode
  INVALID = INVALID
  MaxConn = 3
  MaxEvents = 4
  Serial = TRUE
  CodePaths = {"dj_self"}
SPECIFICATION Spec
INVARIANT NoCrash
SYMMETRY MCSymmetry
CHECK_DEADLOCK FALSE
