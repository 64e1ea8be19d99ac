CONSTANTS
  None = None
  Case = {"New", "Allocated", "Recovered"}
SPECIFICATION LocksSpec
INVARIANT NoDeadlock
