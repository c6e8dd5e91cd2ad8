CONSTANTS
  Run = {1, 2}
  Faults = {"list", "get", "data", "create", "event", "delete", "lost", "hang", "crash"}
  MaxFaults = 2
SPECIFICATION FairSpec
CHECK_DEADLOCK FALSE
INVARIANTS TypeOK ChannelSafe
PROPERTIES WindsDown FactoryKeepsContract
