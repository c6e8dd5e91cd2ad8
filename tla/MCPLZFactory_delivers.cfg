CONSTANTS
  Run = {1, 2}
  Faults = {"list", "get", "data", "create", "event"}
  MaxFaults = 3
SPECIFICATION FairSpec
CHECK_DEADLOCK FALSE
PROPERTIES Delivered
INVARIANTS FailsExplicitly
