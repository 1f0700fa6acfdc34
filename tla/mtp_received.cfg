SPECIFICATION ServerSpec
CONSTANTS
  Sizes = {2, 5}
  Buffer = 2
  Faults = {"read", "write", "short"}
INVARIANT TruncatedToReceived
CHECK_DEADLOCK FALSE
