SPECIFICATION Spec
CONSTANTS
  r1 = r1
  p1 = p1
  p2 = p2
  None = None
  Regular = {r1}
  Placeholder = {p1, p2}
  Configs <- RestartConfigs
SYMMETRY PodSymmetry
CHECK_DEADLOCK FALSE
INVARIANT RecoveredSkips
