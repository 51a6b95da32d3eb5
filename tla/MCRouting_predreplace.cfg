\* Reproduction cfg for the hazard at ring.c:458: the serial bounds of
\* MCRouting.cfg with the PRED handler's replacement of the predecessor.
CONSTANTS
  n1 = n1
  n2 = n2
  n3 = n3
  Node <- MCNode
  Zero = Zero
  NoNode = NoNode
  INVALID = INVALID
  MaxConn = 4
  MaxEvents = 8
  Serial = TRUE
  CodePaths = {"pred_replace"}
SPECIFICATION Spec
INVARIANT ForwardingHasConnection
SYMMETRY MCSymmetry
CHECK_DEADLOCK FALSE
