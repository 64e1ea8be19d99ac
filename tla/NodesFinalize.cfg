CONSTANTS
  Node = {n1}
  Pod = {p1}
  NodeOf <- MCNodeOf
  Recreates = TRUE
  MaxChanges = 3
  None = None
SPECIFICATION FairSpec
PROPERTY NodesConverge
CHECK_DEADLOCK FALSE
