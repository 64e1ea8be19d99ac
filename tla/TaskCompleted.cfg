CONSTANTS
  Node = {n1, n2}
  Cases <- NoFault
  MaxAllocs = 3
  MaxUpdates = 1
  None = None
SPECIFICATION Spec
SYMMETRY NodeSymmetry
PROPERTY CompletedStays
CHECK_DEADLOCK FALSE
