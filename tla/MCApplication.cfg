SPECIFICATION FairSpec
CONSTANTS
  r1 = r1
  p1 = p1
  p2 = p2
  None = None
  Regular = {r1}
  Placeholder = {p1, p2}
  Configs <- AllConfigs
CHECK_DEADLOCK FALSE
INVARIANTS TypeOK GangBarrier PlaceholdersBounded NothingLeaked
PROPERTY ReservationSettles
