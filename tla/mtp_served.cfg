SPECIFICATION ServerSpec
CONSTANTS
  Sizes = {2, 5}
  Buffer = 2
  Faults = {"read", "write", "thread", "truncate"}
INVARIANTS InOrder FlagsTrue FileEndsWithData
PROPERTIES ImplementsCopying StopReturns
CHECK_DEADLOCK FALSE
