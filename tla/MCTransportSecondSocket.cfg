CONSTANTS
  MaxConnects = 1
  MaxFaults = 1
  None = None
SPECIFICATION Spec
INVARIANT SocketForGoodIsUsable
CHECK_DEADLOCK FALSE
