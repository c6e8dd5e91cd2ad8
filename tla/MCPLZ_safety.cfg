CONSTANTS
  Faults = {"stale", "crash", "token", "register", "deregister", "update", "patch", "edit"}
  MaxFaults = 3
  MaxPLZs = 3

SPECIFICATION FairSpec
CHECK_DEADLOCK FALSE

INVARIANTS TypeOK PollingIsGuarded PollingIsRegistered
PROPERTIES ReconcilerKeepsContract Disappears
