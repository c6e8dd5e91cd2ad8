CONSTANTS
  N = 2
  Specs <- PLZRunnable
  Faults = {"stale", "lag", "crash", "token", "state", "createrun", "lost", "finish", "event",
    "inspect", "list", "create", "patch", "delete", "setup", "net", "initfail",
    "podfail", "abort"}
  MaxFaults = 2
  MaxRuns = 2
SPECIFICATION ResyncSpec
CHECK_DEADLOCK FALSE
PROPERTIES Terminates LiveRunsEnd
