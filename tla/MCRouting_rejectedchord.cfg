\* Link events interleave freely: two processes may send each other a CHORD at once.
CONSTANTS
  n1 = n1
  n2 = n2
  n3 = n3
  Node <- MCNode
  Zero = Zero
  NoNode = NoNode
  INVALID = INVALID
  MaxConn = 2
  MaxEvents = 5
  Serial = FALSE
  CodePaths = {}
SPECIFICATION Spec
INVARIANT RoutesConverge
SYMMETRY MCSymmetry
CHECK_DEADLOCK FALSE
