CONSTANTS
  Event = {e1, e2, e3}
  EventType = {"task"}
  TypeOf <- MCTypeOf
  HandlerID = {h1}
  Sender = {s1}
  Capacity = 1
  AsyncLimit = 1
  MaxTicks = 2
  MaxStarts = 2
  None = None
SPECIFICATION FairSpec
INVARIANTS EventsConserved OneLoop StopQuiesces DirectInOrder
PROPERTIES ImplementsEventBus EventsSettle StopEndsLoop
CHECK_DEADLOCK FALSE
