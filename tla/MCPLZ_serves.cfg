CONSTANTS
  Faults = {"stale", "crash", "token", "register", "deregister", "patch"}
  MaxFaults = 3
  MaxPLZs = 1
SPECIFICATION FairSpec
CHECK_DEADLOCK FALSE
PROPERTIES Serves
