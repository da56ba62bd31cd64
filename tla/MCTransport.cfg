CONSTANTS
  MaxConnects = 2
  MaxFaults = 2
  None = None
SPECIFICATION FairSpec
INVARIANTS TypeOK UsableIfOrderly NothingIsLeftOpen RefusedIsTerminal
PROPERTIES DiscardedIfOrderly ReconnectEnds
CHECK_DEADLOCK FALSE
