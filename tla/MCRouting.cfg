\* Three processes whose users join, chord, close, leave and chat eight times, one command at a time.
CONSTANTS
  n1 = n1
  n2 = n2
  n3 = n3
  Node <- MCNode
  Zero = Zero
  NoNode = NoNode
  INVALID = INVALID
  MaxConn = 4
  MaxEvents = 8
  Serial = TRUE
  CodePaths = {}
SPECIFICATION Spec
INVARIANT TypeOK
INVARIANT PathsLoopFree
INVARIANT RoutesConverge
SYMMETRY MCSymmetry
CHECK_DEADLOCK FALSE
