SPECIFICATION FairSpec
CONSTANTS
  r1 = r1
  p1 = p1
  p2 = p2
  None = None
  Regular = {r1}
  Placeholder = {p1, p2}
  Configs <- SoftConfigs
CHECK_DEADLOCK FALSE
PROPERTY ResumingEnds
