CONSTANTS
  Node = {n1}
  Pod = {p1}
  NodeOf <- MCNodeOf
  Recreates = FALSE
  MaxChanges = 3
  None = None
SPECIFICATION FairSpec
INVARIANTS TypeOK NodesAgree LivePodsAccounted AccountedBeforeEnabled
PROPERTY NodesConverge
CHECK_DEADLOCK FALSE
