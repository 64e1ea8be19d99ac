CONSTANTS
  Node = {n1, n2}
  Cases <- EveryFault
  MaxAllocs = 2
  MaxUpdates = 1
  None = None
SPECIFICATION FairSpec
INVARIANTS TypeOK OneBinder CoreKnowsNode AssumptionsBacked NothingLeaked NotForgotten
PROPERTY GoneIsReleased
CHECK_DEADLOCK FALSE
