\* Link events, chats and ROUTE lines in flight interleave freely, every code path included.
CONSTANTS
  n1 = n1
  n2 = n2
  n3 = n3
  Node <- MCNode
  Zero = Zero
  NoNode = NoNode
  INVALID = INVALID
  MaxConn = 2
  MaxEvents = 5
  Serial = FALSE
  CodePaths = {"dj_self", "pred_replace", "chat_out", "dup_link"}
SPECIFICATION Spec
INVARIANT PathsLoopFree
SYMMETRY MCSymmetry
CHECK_DEADLOCK FALSE
