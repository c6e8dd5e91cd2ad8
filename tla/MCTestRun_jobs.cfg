CONSTANTS
  N = 2
  Specs <- AllAndUnpaused
  Faults = {"stale", "crash", "token", "state", "createrun", "lost", "finish",
    "event", "inspect", "list", "create", "patch", "delete", "setup", "net",
    "initfail", "podfail", "abort", "userdelete"}
  MaxFaults = 2
  MaxRuns = 2

SPECIFICATION Spec
CHECK_DEADLOCK FALSE

INVARIANTS StarterReachesAll StoppedMeansFinished
PROPERTIES StartsTogether
