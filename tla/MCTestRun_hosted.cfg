CONSTANTS
  N = 2
  Specs <- HostedSpecs
  Faults = {"token", "state", "createrun", "finish", "event", "list",
    "delete", "setup", "net", "initfail", "podfail", "abort"}
  MaxFaults = 2
  MaxRuns = 2

SPECIFICATION ResyncSpec
CHECK_DEADLOCK FALSE

INVARIANTS AtMostOneCloudRun
PROPERTIES StageNeverRegresses Terminates LiveRunsEnd
